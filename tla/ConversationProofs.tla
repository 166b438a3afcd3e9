------------------------- MODULE ConversationProofs -------------------------
(***************************************************************************)
(* Proofs about Conversation, for any number of messages, dispatchers,     *)
(* retries and faults: nothing is submitted that was planned without       *)
(* something said, a stop is final for what was not submitted yet, and a   *)
(* run that is over has nothing left to submit.                            *)
(***************************************************************************)
EXTENDS ConversationInvariant, TLAPS

-----------------------------------------------------------------------------
(* Rows.                                                                   *)

LEMMA Facts ==
  ASSUME ConversationInv
  PROVE  /\ TypeOK /\ RunInv /\ TaskInv /\ PlanInv /\ WorkerInv /\ StopInv /\ inbox \in Seq(Sound)
         /\ run \in Run /\ task \in [Step -> Row] /\ worker.task \in Step \cup {None}
         /\ worker.late \subseteq Message /\ Len(inbox) \in Nat
BY DEF ConversationInv, TypeOK

LEMMA RunFields ==
  ASSUME NEW r \in Run
  PROVE  /\ r.number \in Nat /\ r.revision \in Nat /\ r.fence \in Nat /\ r.heard \subseteq Message
         /\ r.status \in Over \cup {"created", "planning", "running", "paused"}
         /\ r.planned \in BOOLEAN /\ r.ending \in {"none", "failed", "cancelled"}
BY DEF Run

LEMMA Unasked ==
  ASSUME StopInv, Active(run), ~Settling
  PROVE  ~asked
BY DEF StopInv, Settling

\* What a tick has found out about the run.
LEMMA Found ==
  ASSUME NEW found, Finds = found, found \notin {"over", "settling"}
  PROVE  Active(run) /\ ~Settling
BY DEF Finds

\* Nothing that was not submitted is left, and what remains keeps its revision.
LEMMA Cancelled ==
  ASSUME NEW t \in [Step -> Row]
  PROVE  /\ CancelUnsubmitted(t) \in [Step -> Row]
         /\ Tasks(CancelUnsubmitted(t), Unsubmitted) = {}
         /\ \A n \in Step :
              /\ CancelUnsubmitted(t)[n].revision = t[n].revision
              /\ CancelUnsubmitted(t)[n].status # "none" => t[n].status # "none"
              /\ CancelUnsubmitted(t)[n].status \in Terminal \cup {"submitted"}
              /\ CancelUnsubmitted(t)[n].status = "submitted" => t[n].status = "submitted"
<1>1. \A n \in Step : t[n].status \in Terminal \cup Unsubmitted \cup {"submitted"} /\ t[n].revision \in Nat
  BY DEF Row
<1>2. \A n \in Step : CancelUnsubmitted(t)[n] \in Row
  BY <1>1 DEF CancelUnsubmitted, Row, Terminal
<1>3. CancelUnsubmitted(t) \in [Step -> Row]
  BY <1>2 DEF CancelUnsubmitted
<1> QED BY <1>1, <1>3 DEF CancelUnsubmitted, Row, Tasks, Unsubmitted, Terminal

\* An invocation just made is sound whatever the run is.
LEMMA NewInvocation ==
  ASSUME NEW revision \in Nat, 
         NEW kind \in {"user_message", "user_confirmed", "user_interrupt", "task_ended", "task_cancelled", "clarify"}
  PROVE  Invocation(kind, revision) \in Sound
BY DEF Invocation, Sound, Invocations

LEMMA WokenInbox ==
  ASSUME NEW r \in Run, NEW queue \in Seq(Sound),
         NEW kind \in {"user_message", "user_confirmed", "user_interrupt", "task_ended", "task_cancelled", "clarify"}
  PROVE  Woken(r, queue, kind) \in Seq(Sound)
BY NewInvocation, RunFields DEF Woken

LEMMA Shorter ==
  ASSUME inbox \in Seq(Sound), inbox # <<>>
  PROVE  Tail(inbox) \in Seq(Sound) /\ Oldest \in Sound /\ Oldest \in Invocations
<1>1. inbox[1] \in Sound
  BY DEF Sound
<1> QED BY <1>1 DEF Oldest, Sound

\* Sound invocations stay so while the run keeps its revision, or gets a new one.
LEMMA SoundStays ==
  ASSUME run \in Run, run' \in Run, run'.revision >= run.revision,
         run'.revision = run.revision => Said' \subseteq Said
  PROVE  Sound \subseteq Sound' /\ Seq(Sound) \subseteq Seq(Sound')
<1>1. Sound \subseteq Sound'
  <2> SUFFICES ASSUME NEW i \in Sound PROVE i \in Sound'
    OBVIOUS
  <2>1. i \in Invocations /\ i.revision \in Nat /\ run.revision \in Nat /\ run'.revision \in Nat
    BY RunFields DEF Sound, Invocations
  <2> QED BY <2>1 DEF Sound
<1> QED BY <1>1

-----------------------------------------------------------------------------
(* Steps that keep the run's revision while no worker holds the run.       *)

\* The tasks of the plan are those that were there.
Follows == \A n \in Step \ {"ask"} : task'[n].revision = task[n].revision
                                      /\ (task'[n].status # "none" => task[n].status # "none")

LEMMA SameRevision ==
  ASSUME ConversationInv, TypeOK', worker' = worker, worker.task = None,
         run'.number = run.number, run'.revision = run.revision,
         Active(run') => Active(run),
         Said' \subseteq Said, \A m \in Message : message'[m].run <= run.number,
         TaskInv', PlanInv', StopInv', inbox' \in Seq(Sound)
  PROVE  ConversationInv'
<1>1. run \in Run /\ run' \in Run
  BY Facts DEF TypeOK
<1>2. inbox' \in Seq(Sound')
  BY <1>1, SoundStays, RunFields
<1>3. RunInv'
  BY Facts DEF RunInv
<1>4. WorkerInv'
  BY DEF WorkerInv, PlannedWithEverythingSaid
<1> QED BY <1>2, <1>3, <1>4 DEF ConversationInv

LEMMA SamePlan ==
  ASSUME ConversationInv, run'.revision = run.revision, run'.heard = run.heard,
         run'.planned => run.planned, Said' \subseteq Said, Follows
  PROVE  PlanInv'
BY Facts DEF PlanInv, Follows

\* Nothing is said by a step that leaves the messages alone.
LEMMA SameSaid ==
  ASSUME ConversationInv, message' = message, run'.number = run.number
  PROVE  Said' = Said /\ \A m \in Message : message'[m].run <= run.number
BY Facts DEF Said, RunInv

\* stop, whatever else is written in the same transaction.
LEMMA StopKeeps ==
  ASSUME ConversationInv, NEW status \in {"failed", "cancelled"}, Stop(status),
         worker' = worker, worker.task = None, asked' \in BOOLEAN, faults' \in 0..MaxFaults,
         message' \in [Message -> [status : {"new", "pending", "processed", "cancelled"}, run : Nat, revision : Nat, says : Content]],
         Said' \subseteq Said, \A m \in Message : message'[m].run <= run.number,
         session' \in [due : {"never", "later", "now"}, lease : Dispatcher \cup {None}, expired : BOOLEAN],
         dispatcher' = dispatcher, inbox' \in Seq(Sound)
  PROVE  ConversationInv'
<1>1. run \in Run /\ task \in [Step -> Row]
  BY Facts
<1>2. /\ run' \in Run /\ run'.number = run.number /\ run'.revision = run.revision /\ run'.fence = run.fence
      /\ run'.heard = run.heard /\ run'.planned = run.planned
      /\ Active(run') => Active(run) /\ run'.status = "paused" /\ run'.ending # "none"
      /\ ~Active(run') => Tasks(task, {"submitted"}) = {}
  <2>1. run' = Stopped(run, task, status)
    BY DEF Stop
  <2>2. Tasks(task, {"submitted"}) # {} => Active(run)
    BY Facts DEF TaskInv, Tasks, Terminal
  <2>3. CASE Tasks(task, {"submitted"}) # {}
    <3>1. run' = [run EXCEPT !.status = "paused", !.ending = status]
      BY <2>1, <2>3 DEF Stopped
    <3> QED BY <1>1, <2>2, <2>3, <3>1 DEF Run, Active, Over
  <2>4. CASE Tasks(task, {"submitted"}) = {} /\ Active(run)
    <3>1. run' = [run EXCEPT !.status = status]
      BY <2>1, <2>4 DEF Stopped
    <3> QED BY <1>1, <2>4, <3>1 DEF Run, Active, Over
  <2>5. CASE Tasks(task, {"submitted"}) = {} /\ ~Active(run)
    BY <1>1, <2>1, <2>5 DEF Stopped
  <2> QED BY <2>3, <2>4, <2>5
<1>3. task' = CancelUnsubmitted(task)
  BY DEF Stop
<1>4. task' \in [Step -> Row] /\ Tasks(task', Unsubmitted) = {} /\ Follows
  BY <1>1, <1>3, Cancelled DEF Follows
<1>5. TaskInv'
  <2>1. \A n \in Step \ {"ask"} : task'[n].revision <= run'.revision
    BY <1>2, <1>4, Facts DEF TaskInv, Follows
  <2>2. task'["ask"].status \notin {"queued", "submitted"}
    BY <1>1, <1>3, Cancelled, Facts DEF TaskInv, Terminal, Step
  <2>3. ~Active(run') => \A n \in Step : task'[n].status \in Terminal
    BY <1>1, <1>2, <1>3, Cancelled DEF Tasks
  <2> QED BY <2>1, <2>2, <2>3 DEF TaskInv
<1>6. TypeOK'
  <2>1. inbox' \in Seq(Invocations)
    BY DEF Sound
  <2> QED BY <1>2, <1>4, <2>1, Facts DEF TypeOK
<1>7. PlanInv'
  BY <1>2, <1>4, SamePlan
<1>8. StopInv'
  BY <1>2, <1>4 DEF StopInv
<1> QED BY <1>2, <1>5, <1>6, <1>7, <1>8, SameRevision

\* A step that leaves run and tasks alone and consumes or changes invocations.
LEMMA InboxKeeps ==
  ASSUME ConversationInv, UNCHANGED <<message, session, dispatcher, run, task, worker, asked>>,
         worker.task = None, faults' \in 0..MaxFaults, inbox' \in Seq(Sound)
  PROVE  ConversationInv'
<1>1. TypeOK'
  <2>1. inbox' \in Seq(Invocations)
    BY DEF Sound
  <2> QED BY <2>1, Facts DEF TypeOK
<1>2. TaskInv' /\ StopInv' /\ PlanInv'
  BY Facts DEF TaskInv, StopInv, PlanInv, Said, Active, Tasks
<1>3. Said' \subseteq Said /\ \A m \in Message : message'[m].run <= run.number
  BY SameSaid
<1> QED BY <1>1, <1>2, <1>3, SameRevision

\* A step of the supervisor on a run that was not asked to stop.
LEMMA RunKeeps ==
  ASSUME ConversationInv, worker' = worker, worker.task = None,
         UNCHANGED <<message, session, dispatcher, asked, faults>>, Active(run), ~Settling,
         run' \in Run, run'.number = run.number, run'.revision = run.revision,
         run'.fence \in {run.revision, run.revision + 1}, run'.heard = run.heard, run'.planned => run.planned,
         task' \in [Step -> Row], Follows, task'["ask"].status \notin {"queued", "submitted"},
         ~Active(run') => \A n \in Step : task'[n].status \in Terminal,
         inbox' \in Seq(Sound)
  PROVE  ConversationInv'
<1>1. TypeOK'
  <2>1. inbox' \in Seq(Invocations)
    BY DEF Sound
  <2> QED BY <2>1, Facts DEF TypeOK
<1>2. TaskInv'
  BY Facts DEF TaskInv, Follows
<1>3. Said' = Said /\ \A m \in Message : message'[m].run <= run.number
  BY SameSaid
<1>4. PlanInv'
  BY <1>3, SamePlan
<1>5. StopInv'
  BY Facts, Unasked DEF StopInv
<1> QED BY <1>1, <1>2, <1>3, <1>4, <1>5, SameRevision

-----------------------------------------------------------------------------
(* Intake, dispatch and the clock.                                         *)

LEMMA InitKeeps == Init => ConversationInv
<1> SUFFICES ASSUME Init PROVE ConversationInv
  OBVIOUS
<1>1. run \in Run /\ run.fence \in {run.revision, run.revision + 1} /\ run.number = 0 /\ ~Active(run) /\ ~run.planned
  BY DEF Init, NoRun, Run, Active, Over
<1>2. task \in [Step -> Row] /\ \A n \in Step : task[n].status = "none" /\ task[n].revision = 0
  BY DEF Init, NoTasks, Row, Terminal
<1>3. inbox = <<>> /\ inbox \in Seq(Sound) /\ inbox \in Seq(Invocations)
  BY DEF Init
<1>4. message \in [Message -> [status : {"new", "pending", "processed", "cancelled"}, run : Nat, revision : Nat, says : Content]]
      /\ \A m \in Message : message[m].run = 0
  BY DEF Init, Nothing, Content
<1>5. worker \in [task : Step \cup {None}, late : SUBSET Message] /\ worker.task = None
  BY DEF Init
<1>6. session \in [due : {"never", "later", "now"}, lease : Dispatcher \cup {None}, expired : BOOLEAN]
      /\ dispatcher \in [Dispatcher -> {"idle", "leased"}]
  BY DEF Init
<1>7. asked = FALSE /\ faults \in 0..MaxFaults
  BY ConversationAssumption DEF Init, ConversationAssumption
<1>8. TypeOK
  BY <1>1, <1>2, <1>3, <1>4, <1>5, <1>6, <1>7 DEF TypeOK
<1>9. RunInv /\ TaskInv /\ PlanInv /\ WorkerInv /\ StopInv
  <2>1. RunInv
    BY <1>1, <1>4 DEF RunInv
  <2>2. TaskInv
    <3>1. run.revision \in Nat
      BY <1>1, RunFields
    <3> QED BY <1>2, <3>1 DEF TaskInv, Terminal, Step
  <2>3. PlanInv /\ WorkerInv
    BY <1>1, <1>5 DEF PlanInv, WorkerInv, PlannedWithEverythingSaid
  <2>4. StopInv
    BY <1>1 DEF StopInv
  <2> QED BY <2>1, <2>2, <2>3, <2>4
<1> QED BY <1>3, <1>8, <1>9 DEF ConversationInv

\* Steps of the session's lease and the clock.
LEMMA QuietKeeps ==
  ASSUME ConversationInv, UNCHANGED <<message, run, task, inbox, worker, asked>>,
         session' \in [due : {"never", "later", "now"}, lease : Dispatcher \cup {None}, expired : BOOLEAN],
         dispatcher' \in [Dispatcher -> {"idle", "leased"}], faults' \in 0..MaxFaults
  PROVE  ConversationInv'
<1>1. TypeOK'
  BY Facts DEF TypeOK
<1>2. Said' = Said /\ Pending' = Pending
  BY DEF Said, Pending
<1>3. RunInv' /\ TaskInv' /\ StopInv' /\ PlanInv' /\ WorkerInv'
  BY <1>2, Facts DEF RunInv, TaskInv, StopInv, PlanInv, WorkerInv, PlannedWithEverythingSaid, Active, Tasks
<1>4. Sound' = Sound
  BY <1>2 DEF Sound
<1> QED BY <1>1, <1>3, <1>4, Facts DEF ConversationInv

LEMMA LeaseKeeps ==
  ASSUME ConversationInv, NEW d \in Dispatcher,
         WindowCloses \/ Lease(d) \/ DispatchFenced(d) \/ DispatchLater(d) \/ DispatchFails(d) \/ DispatchSkips(d)
           \/ LeaseExpires \/ DispatcherStalls
  PROVE  ConversationInv'
<1>1. TypeOK
  BY Facts
<1>2. faults' \in 0..MaxFaults
  BY <1>1, ConversationAssumption
  DEF ConversationAssumption, TypeOK, WindowCloses, Lease, DispatchFenced, DispatchLater, DispatchFails, DispatchSkips, LeaseExpires, DispatcherStalls
<1>3. session' \in [due : {"never", "later", "now"}, lease : Dispatcher \cup {None}, expired : BOOLEAN]
  <2>1. /\ session.due \in {"never", "later", "now"} /\ session.expired \in BOOLEAN
        /\ session \in [due : {"never", "later", "now"}, lease : Dispatcher \cup {None}, expired : BOOLEAN]
    BY <1>1 DEF TypeOK
  <2>2. CASE WindowCloses
    BY <2>1, <2>2 DEF WindowCloses
  <2>3. CASE Lease(d)
    BY <2>1, <2>3 DEF Lease
  <2>4. CASE DispatchFenced(d) \/ DispatchFails(d) \/ DispatchSkips(d)
    BY <2>1, <2>4 DEF DispatchFenced, DispatchFails, DispatchSkips
  <2>5. CASE DispatchLater(d)
    <3>1. PICK due \in {"never", "later", "now"} : session' = [due |-> due, lease |-> None, expired |-> FALSE]
      BY <2>1, <2>5 DEF DispatchLater, Due
    <3> QED BY <3>1
  <2>6. CASE LeaseExpires \/ DispatcherStalls
    BY <2>1, <2>6 DEF LeaseExpires, DispatcherStalls, Expires
  <2> QED BY <2>2, <2>3, <2>4, <2>5, <2>6
<1>4. dispatcher' \in [Dispatcher -> {"idle", "leased"}]
  BY <1>1
  DEF TypeOK, WindowCloses, Lease, DispatchFenced, DispatchLater, DispatchFails, DispatchSkips, LeaseExpires, DispatcherStalls, Expires, Merges, Dispatches
<1>5. UNCHANGED <<message, run, task, inbox, worker, asked>>
  BY DEF WindowCloses, Lease, DispatchFenced, DispatchLater, DispatchFails, DispatchSkips, LeaseExpires, DispatcherStalls, Expires
<1> QED BY <1>2, <1>3, <1>4, <1>5, QuietKeeps

\* A message is late for the worker that holds the run, and raises the fence otherwise.
LEMMA PostKeeps ==
  ASSUME ConversationInv, NEW m \in Message, Post(m)
  PROVE  ConversationInv'
<1>1. TypeOK /\ run \in Run /\ message[m].status = "new"
  BY Facts DEF Post
<1>2. /\ message' \in [Message -> [status : {"new", "pending", "processed", "cancelled"}, run : Nat, revision : Nat, says : Content]]
      /\ message'[m].status = "pending" /\ message'[m].run = message[m].run
      /\ \A k \in Message \ {m} : message'[k] = message[k]
  <2>1. PICK says \in Contents[m] : message' = [message EXCEPT ![m].status = "pending", ![m].says = says]
    BY DEF Post
  <2>2. says \in Content
    BY <2>1, ConversationAssumption DEF ConversationAssumption, Message
  <2> QED BY <1>1, <2>1, <2>2 DEF TypeOK
<1>3. /\ run' \in Run /\ run'.fence \in {run'.revision, run'.revision + 1}
      /\ \/ run' = run
         \/ worker.task = None
      /\ run'.number = run.number /\ run'.revision = run.revision /\ run'.status = run.status
      /\ run'.heard = run.heard /\ run'.planned = run.planned /\ run'.ending = run.ending
  <2>1. CASE run' = run
    BY <1>1, <2>1 DEF TypeOK
  <2>2. CASE worker.task = None /\ run' = Bumped(run)
    <3>1. PICK f \in {run.fence, run.revision + 1} :
            run' = [run EXCEPT !.fence = f] /\ (run.fence > run.revision + 1 \/ f = run.revision + 1)
      BY <2>2 DEF Bumped
    <3>2. f = run.revision + 1
      BY <1>1, <3>1, RunFields DEF TypeOK
    <3> QED BY <1>1, <2>2, <3>1, <3>2, RunFields DEF Run
  <2> QED BY <2>1, <2>2 DEF Post
<1>4. Pending' = Pending \cup {m} /\ Said' = Said
  BY <1>1, <1>2, <1>3 DEF Pending, Said
<1>5. /\ worker' \in [task : Step \cup {None}, late : SUBSET Message] /\ worker'.task = worker.task
      /\ worker.task # None => worker'.late = worker.late \cup {m}
  BY <1>1 DEF Post, TypeOK
<1>6. UNCHANGED <<dispatcher, task, inbox, asked, faults>>
      /\ session' \in [due : {"never", "later", "now"}, lease : Dispatcher \cup {None}, expired : BOOLEAN]
  BY <1>1 DEF Post, TypeOK
<1>7. TypeOK'
  BY <1>1, <1>2, <1>3, <1>5, <1>6 DEF TypeOK
<1>8. RunInv' /\ TaskInv' /\ StopInv' /\ PlanInv'
  BY <1>2, <1>3, <1>4, <1>6, Facts DEF RunInv, TaskInv, StopInv, PlanInv, Active, Tasks
<1>9. WorkerInv'
  BY <1>3, <1>4, <1>5, <1>6, Facts DEF WorkerInv, PlannedWithEverythingSaid
<1>10. inbox' \in Seq(Sound')
  BY <1>1, <1>3, <1>4, <1>6, Facts, SoundStays, RunFields
<1> QED BY <1>7, <1>8, <1>9, <1>10 DEF ConversationInv

LEMMA ProcessedMessages ==
  ASSUME TypeOK, NEW revision \in Nat, message' = Processed(revision), run'.number \in Nat
  PROVE  /\ message' \in [Message -> [status : {"new", "pending", "processed", "cancelled"}, run : Nat, revision : Nat, says : Content]]
         /\ \A m \in Message :
              \/ message'[m] = message[m]
              \/ message'[m].run = run'.number /\ message'[m].revision = revision
<1> DEFINE done(m) == [message[m] EXCEPT !.status = "processed", !.run = run'.number, !.revision = revision]
<1>1. \A m \in Message : done(m) \in [status : {"new", "pending", "processed", "cancelled"}, run : Nat, revision : Nat, says : Content]
                         /\ done(m).run = run'.number /\ done(m).revision = revision
  BY DEF TypeOK
<1>2. message' = [m \in Message |-> IF m \in Pending THEN done(m) ELSE message[m]]
  BY DEF Processed
<1> HIDE DEF done
<1> QED BY <1>1, <1>2 DEF TypeOK

LEMMA DispatchOpensKeeps ==
  ASSUME ConversationInv, NEW d \in Dispatcher, DispatchOpens(d)
  PROVE  ConversationInv'
<1>1. TypeOK /\ run \in Run /\ worker.task = None /\ worker' = worker
  BY Facts DEF DispatchOpens, Dispatching, Merges
<1>2. /\ run' \in Run /\ run'.number = run.number + 1 /\ run'.revision = 1 /\ run'.fence = 1
      /\ run'.status = "created"
  <2>1. NoRun \in Run
    BY DEF NoRun, Run, Over
  <2>2. run' = [NoRun EXCEPT !.number = run.number + 1, !.status = "created", !.revision = 1, !.fence = 1]
    BY DEF DispatchOpens
  <2>3. run.number + 1 \in Nat
    BY <1>1, RunFields
  <2> HIDE DEF NoRun
  <2> QED BY <2>1, <2>2, <2>3 DEF Run
<1>3. task' \in [Step -> Row] /\ \A n \in Step : task'[n].status = "none" /\ task'[n].revision = 0
  BY DEF DispatchOpens, NoTasks, Row, Terminal
<1>4. /\ message' \in [Message -> [status : {"new", "pending", "processed", "cancelled"}, run : Nat, revision : Nat, says : Content]]
      /\ \A m \in Message : message'[m].run <= run'.number
  <2>1. message' = Processed(1) /\ 1 \in Nat /\ run'.number \in Nat /\ run.number \in Nat
    BY <1>1, <1>2, RunFields DEF DispatchOpens
  <2>2. \A m \in Message : message[m].run <= run.number /\ message[m].run \in Nat
    BY <1>1, Facts DEF RunInv, TypeOK
  <2>3. /\ message' \in [Message -> [status : {"new", "pending", "processed", "cancelled"}, run : Nat, revision : Nat, says : Content]]
        /\ \A m \in Message : message'[m] = message[m] \/ message'[m].run = run'.number
    BY <1>1, <2>1, ProcessedMessages
  <2> QED BY <1>2, <2>1, <2>2, <2>3
<1>5. inbox' \in Seq(Sound') /\ inbox' \in Seq(Invocations)
  <2>1. Invocation("user_message", 1) \in Sound' /\ Invocation("user_message", 1) \in Invocations
    BY DEF Invocation, Sound, Invocations
  <2> QED BY <2>1 DEF DispatchOpens
<1>6. asked' = FALSE /\ faults' = faults
      /\ session' \in [due : {"never", "later", "now"}, lease : Dispatcher \cup {None}, expired : BOOLEAN]
      /\ dispatcher' \in [Dispatcher -> {"idle", "leased"}]
  BY <1>1 DEF DispatchOpens, Dispatching, Merges, Dispatches, Due, TypeOK
<1>7. TypeOK'
  BY <1>1, <1>2, <1>3, <1>4, <1>5, <1>6 DEF TypeOK
<1>8. RunInv' /\ TaskInv' /\ PlanInv' /\ StopInv' /\ WorkerInv'
  <2>1. RunInv' /\ PlanInv'
    BY <1>2, <1>3, <1>4 DEF RunInv, PlanInv
  <2>2. Active(run')
    BY <1>2 DEF Active, Over
  <2>3. TaskInv'
    BY <1>2, <1>3, <2>2 DEF TaskInv, Step
  <2>4. StopInv'
    BY <1>6 DEF StopInv
  <2>5. WorkerInv'
    BY <1>1 DEF WorkerInv, PlannedWithEverythingSaid
  <2> QED BY <2>1, <2>3, <2>4, <2>5
<1> QED BY <1>5, <1>7, <1>8 DEF ConversationInv

\* What an answered choice or form leaves of run, tasks and invocations.
LEMMA AnsweredFields ==
  ASSUME ConversationInv, Waiting, Answered
  PROVE  /\ task' \in [Step -> Row] /\ Follows /\ task'["ask"].status = "succeeded"
         /\ run' \in Run /\ run'.number = run.number /\ run'.revision = run.revision /\ run'.fence = run.fence
         /\ run'.heard = run.heard /\ run'.status = "paused" /\ (run'.planned => run.planned)
         /\ inbox' \in Seq(Sound) /\ ~asked
<1>1. run \in Run /\ task \in [Step -> Row] /\ inbox \in Seq(Sound) /\ "ask" \in Step
  BY Facts DEF Step
<1>2. task' = [task EXCEPT !["ask"] = [task["ask"] EXCEPT !.status = "succeeded"]]
      /\ [task["ask"] EXCEPT !.status = "succeeded"] \in Row
  BY <1>1 DEF Answered, Row, Terminal
<1>3. task' \in [Step -> Row] /\ Follows /\ task'["ask"].status = "succeeded"
  BY <1>1, <1>2 DEF Follows, Row
<1>4. run' = run \/ run' = [run EXCEPT !.planned = FALSE]
  BY DEF Answered
<1>5. run' \in Run /\ run'.number = run.number /\ run'.revision = run.revision /\ run'.fence = run.fence
      /\ run'.heard = run.heard /\ run'.status = "paused" /\ (run'.planned => run.planned)
  BY <1>1, <1>4 DEF Waiting, Run
<1>6. inbox' \in Seq(Sound)
  BY <1>1, WokenInbox DEF Answered
<1>7. ~asked
  <2>1. Active(run) /\ "ask" \in Tasks(task, Unsubmitted)
    BY <1>1 DEF Waiting, Active, Over, Tasks, Unsubmitted
  <2> QED BY <2>1, Facts DEF StopInv
<1> QED BY <1>3, <1>5, <1>6, <1>7

LEMMA AnswerKeeps ==
  ASSUME ConversationInv, Answer
  PROVE  ConversationInv'
<1>1. Waiting /\ Answered /\ worker.task = None
      /\ UNCHANGED <<message, session, dispatcher, worker, asked, faults>>
  BY DEF Answer
<1>2. /\ task' \in [Step -> Row] /\ Follows /\ task'["ask"].status = "succeeded"
      /\ run' \in Run /\ run'.number = run.number /\ run'.revision = run.revision /\ run'.fence = run.fence
      /\ run'.heard = run.heard /\ run'.status = "paused" /\ (run'.planned => run.planned)
      /\ inbox' \in Seq(Sound) /\ ~asked
  BY <1>1, AnsweredFields
<1>3. TypeOK'
  <2>1. inbox' \in Seq(Invocations)
    BY <1>2 DEF Sound
  <2> QED BY <1>1, <1>2, <2>1, Facts DEF TypeOK
<1>4. Active(run) /\ Active(run')
  BY <1>1, <1>2 DEF Waiting, Active, Over
<1>5. TaskInv'
  BY <1>2, <1>4, Facts DEF TaskInv, Follows
<1>6. Said' = Said /\ \A m \in Message : message'[m].run <= run.number
  BY <1>1, <1>2, SameSaid
<1>7. PlanInv'
  BY <1>2, <1>6, SamePlan
<1>8. StopInv'
  BY <1>1, <1>2 DEF StopInv
<1> QED BY <1>1, <1>2, <1>3, <1>4, <1>5, <1>6, <1>7, <1>8, SameRevision

\* Messages that answer in the chat are not for the planner.
LEMMA DispatchAnswersKeeps ==
  ASSUME ConversationInv, NEW d \in Dispatcher, DispatchAnswers(d)
  PROVE  ConversationInv'
<1>1. Waiting /\ Answered /\ worker.task = None /\ UNCHANGED <<worker, asked, faults>>
      /\ message' = Processed(0)
  BY DEF DispatchAnswers, Dispatching, Merges
<1>2. /\ task' \in [Step -> Row] /\ Follows /\ task'["ask"].status = "succeeded"
      /\ run' \in Run /\ run'.number = run.number /\ run'.revision = run.revision /\ run'.fence = run.fence
      /\ run'.heard = run.heard /\ run'.status = "paused" /\ (run'.planned => run.planned)
      /\ inbox' \in Seq(Sound) /\ ~asked
  BY <1>1, AnsweredFields
<1>3. /\ message' \in [Message -> [status : {"new", "pending", "processed", "cancelled"}, run : Nat, revision : Nat, says : Content]]
      /\ \A m \in Message : \/ message'[m] = message[m]
                            \/ message'[m].run = run.number /\ message'[m].revision = 0
  <2>1. 0 \in Nat /\ run'.number \in Nat /\ TypeOK
    BY <1>2, RunFields, Facts
  <2> QED BY <1>1, <1>2, <2>1, ProcessedMessages
<1>4. Said' \subseteq Said /\ \A m \in Message : message'[m].run <= run.number
  BY <1>2, <1>3, Facts, RunFields DEF Said, RunInv
<1>5. session' \in [due : {"never", "later", "now"}, lease : Dispatcher \cup {None}, expired : BOOLEAN]
      /\ dispatcher' \in [Dispatcher -> {"idle", "leased"}]
  BY Facts DEF DispatchAnswers, Dispatching, Merges, Dispatches, Due, TypeOK
<1>6. TypeOK'
  <2>1. inbox' \in Seq(Invocations)
    BY <1>2 DEF Sound
  <2> QED BY <1>1, <1>2, <1>3, <1>5, <2>1, Facts DEF TypeOK
<1>7. Active(run) /\ Active(run')
  BY <1>1, <1>2 DEF Waiting, Active, Over
<1>8. TaskInv'
  BY <1>2, <1>7, Facts DEF TaskInv, Follows
<1>9. PlanInv'
  BY <1>2, <1>4, SamePlan
<1>10. StopInv'
  BY <1>1, <1>2 DEF StopInv
<1> QED BY <1>1, <1>2, <1>4, <1>6, <1>7, <1>8, <1>9, <1>10, SameRevision

\* A new revision outdates the plan and every invocation.
LEMMA NewRevision ==
  ASSUME ConversationInv, worker' = worker, worker.task = None, Active(run),
         UNCHANGED <<asked, faults>>,
         run' = Revised(run) \/ run' = [Revised(run) EXCEPT !.planned = FALSE],
         task' = task \/ task' = CancelUnsubmitted(task),
         NEW kind \in {"user_message", "user_interrupt"}, inbox' = Woken(run', inbox, kind),
         message' = Processed(run'.revision),
         session' \in [due : {"never", "later", "now"}, lease : Dispatcher \cup {None}, expired : BOOLEAN],
         dispatcher' \in [Dispatcher -> {"idle", "leased"}]
  PROVE  ConversationInv'
<1>1. run \in Run /\ task \in [Step -> Row] /\ run.revision \in Nat /\ run.number \in Nat /\ TypeOK
  BY Facts, RunFields
<1>2. /\ run' \in Run /\ run'.number = run.number /\ run'.revision = run.revision + 1
      /\ run'.fence = run.revision + 1 /\ run'.status = run.status /\ run'.ending = run.ending
  <2>1. /\ Revised(run) \in Run /\ Revised(run).number = run.number /\ Revised(run).revision = run.revision + 1
        /\ Revised(run).fence = run.revision + 1 /\ Revised(run).status = run.status
        /\ Revised(run).ending = run.ending
    <3>1. Revised(run) = [run EXCEPT !.revision = run.revision + 1, !.fence = run.revision + 1]
      BY DEF Revised
    <3>2. run.revision + 1 \in Nat
      BY <1>1
    <3> QED BY <1>1, <3>1, <3>2 DEF Run
  <2> HIDE DEF Revised
  <2> QED BY <2>1 DEF Run
<1>3. /\ task' \in [Step -> Row]
      /\ \A n \in Step : task'[n].revision = task[n].revision
                        /\ (task'[n].status \in Unsubmitted \cup {"submitted"} => task'[n].status = task[n].status)
  <2>1. CASE task' = task
    BY <1>1, <2>1
  <2>2. CASE task' = CancelUnsubmitted(task)
    <3>1. task' \in [Step -> Row] /\ \A n \in Step : task'[n].revision = task[n].revision
      BY <1>1, <2>2, Cancelled
    <3>2. ASSUME NEW n \in Step PROVE task'[n] = task[n] \/ task'[n].status = "cancelled"
      <4>1. task'[n] = IF task[n].status \in Unsubmitted THEN [task[n] EXCEPT !.status = "cancelled"] ELSE task[n]
        BY <2>2 DEF CancelUnsubmitted
      <4> QED BY <1>1, <4>1 DEF Row
    <3> QED BY <3>1, <3>2 DEF Unsubmitted
  <2> QED BY <2>1, <2>2
<1>4. /\ message' \in [Message -> [status : {"new", "pending", "processed", "cancelled"}, run : Nat, revision : Nat, says : Content]]
      /\ \A m \in Message : message'[m] = message[m] \/ message'[m].run = run.number
  <2>1. run'.revision \in Nat /\ run'.number \in Nat
    BY <1>2, RunFields
  <2> QED BY <1>1, <1>2, <2>1, ProcessedMessages
<1>5. Seq(Sound) \subseteq Seq(Sound')
  BY <1>1, <1>2, SoundStays
<1>6. inbox' \in Seq(Sound') /\ inbox' \in Seq(Invocations)
  <2>1. inbox' \in Seq(Sound)
    BY <1>2, Facts, WokenInbox
  <2> QED BY <1>5, <2>1 DEF Sound
<1>7. TypeOK'
  BY <1>1, <1>2, <1>3, <1>4, <1>6 DEF TypeOK
<1>8. RunInv'
  <2>1. \A m \in Message : message[m].run <= run.number
    BY Facts DEF RunInv
  <2> QED BY <1>1, <1>2, <1>4, <2>1 DEF RunInv
<1>9. TaskInv' /\ PlanInv'
  <2>1. \A n \in Step \ {"ask"} : task'[n].revision < run'.revision
    <3>1. \A n \in Step \ {"ask"} : task[n].revision \in Nat /\ task[n].revision <= run.revision
      BY <1>1, Facts DEF TaskInv, Row
    <3> QED BY <1>1, <1>2, <1>3, <3>1
  <2>2. task'["ask"].status \notin {"queued", "submitted"}
    BY <1>3, Facts DEF TaskInv, Unsubmitted, Step
  <2>3. Active(run')
    BY <1>2 DEF Active
  <2>4. \A n \in Step : task'[n].revision \in Nat
    BY <1>3 DEF Row
  <2> QED BY <2>1, <2>2, <2>3, <2>4, <1>2, RunFields DEF TaskInv, PlanInv
<1>10. StopInv'
  <2>1. Tasks(task', Unsubmitted) \subseteq Tasks(task, Unsubmitted)
    BY <1>3 DEF Tasks
  <2> QED BY <1>2, <2>1, Facts DEF StopInv, Active
<1>11. WorkerInv'
  BY DEF WorkerInv, PlannedWithEverythingSaid
<1> QED BY <1>6, <1>7, <1>8, <1>9, <1>10, <1>11 DEF ConversationInv

LEMMA DispatchRevisesKeeps ==
  ASSUME ConversationInv, NEW d \in Dispatcher, DispatchRevises(d) \/ DispatchInterrupts(d)
  PROVE  ConversationInv'
<1>1. session' \in [due : {"never", "later", "now"}, lease : Dispatcher \cup {None}, expired : BOOLEAN]
      /\ dispatcher' \in [Dispatcher -> {"idle", "leased"}]
  <2>1. dispatcher \in [Dispatcher -> {"idle", "leased"}]
    BY Facts DEF TypeOK
  <2>2. Dispatching(d)
    BY DEF DispatchRevises, DispatchInterrupts
  <2> QED BY <2>1, <2>2 DEF Dispatching, Merges, Dispatches, Due
<1>2. CASE DispatchRevises(d)
  <2>1. /\ worker' = worker /\ worker.task = None /\ Active(run) /\ UNCHANGED <<asked, faults>>
        /\ run' = [Revised(run) EXCEPT !.planned = FALSE] /\ task' = CancelUnsubmitted(task)
        /\ inbox' = Woken(run', inbox, "user_message") /\ message' = Processed(run'.revision)
    BY <1>2 DEF DispatchRevises, Dispatching, Merges
  <2> QED BY <1>1, <2>1, NewRevision
<1>3. CASE DispatchInterrupts(d)
  <2>1. /\ worker' = worker /\ worker.task = None /\ Active(run) /\ UNCHANGED <<asked, faults>>
        /\ run' = Revised(run) /\ task' = task
        /\ inbox' = Woken(run', inbox, "user_interrupt") /\ message' = Processed(run'.revision)
    BY <1>3 DEF DispatchInterrupts, Dispatching, Merges
  <2> QED BY <1>1, <2>1, NewRevision
<1> QED BY <1>2, <1>3

-----------------------------------------------------------------------------
(* Workers, verdicts and the user.                                         *)

LEMMA TakeKeeps ==
  ASSUME ConversationInv, NEW n \in Step, Take(n)
  PROVE  ConversationInv'
<1>1. /\ worker.task = None /\ run.status = "running" /\ task[n].status = "queued" /\ n \in Live /\ ~Blocked(n)
      /\ worker' = [task |-> n, late |-> {}]
      /\ UNCHANGED <<message, session, dispatcher, run, task, inbox, asked, faults>>
  BY DEF Take, Takes
<1>2. n # "ask"
  BY <1>1, Facts DEF TaskInv
<1>3. Pending = {} /\ Said \subseteq run.heard
  <2>1. run.planned /\ task[n].revision = run.revision /\ Pending = {}
    BY <1>1 DEF Live, Blocked, RevisionBlocks
  <2> QED BY <1>1, <1>2, <2>1, Facts DEF PlanInv
<1>4. Said' = Said /\ Pending' = Pending
  BY <1>1 DEF Said, Pending
<1>5. TypeOK'
  BY <1>1, Facts DEF TypeOK
<1>6. RunInv' /\ TaskInv' /\ StopInv' /\ PlanInv'
  BY <1>1, <1>4, Facts DEF RunInv, TaskInv, StopInv, PlanInv, Active, Tasks
<1>7. WorkerInv'
  BY <1>1, <1>2, <1>3, <1>4 DEF WorkerInv, PlannedWithEverythingSaid
<1>8. inbox' \in Seq(Sound')
  <2>1. Sound' = Sound
    BY <1>1, <1>4 DEF Sound
  <2> QED BY <1>1, <2>1, Facts
<1> QED BY <1>5, <1>6, <1>7, <1>8 DEF ConversationInv

\* The worker lets go of the run, with its task submitted or as it was.
LEMMA SubmitKeeps ==
  ASSUME ConversationInv, Submit \/ RollBack
  PROVE  ConversationInv'
<1> DEFINE n == worker.task
<1>1. /\ n \in Step /\ n # "ask" /\ task[n].status = "queued" /\ run.status = "running"
      /\ run \in Run /\ task \in [Step -> Row]
  BY Facts DEF Submit, RollBack, WorkerInv
<1>2. /\ worker' = [task |-> None, late |-> {}]
      /\ UNCHANGED <<message, session, dispatcher, inbox, asked>> /\ faults' \in 0..MaxFaults
  BY Facts, ConversationAssumption DEF Submit, RollBack, TypeOK, ConversationAssumption
<1>3. /\ run' \in Run /\ run'.number = run.number /\ run'.revision = run.revision /\ run'.fence = run.fence
      /\ run'.heard = run.heard /\ run'.planned = run.planned /\ run'.status = "running"
  BY <1>1 DEF Submit, RollBack, Run
<1>4. /\ task' \in [Step -> Row] /\ Follows /\ task'["ask"] = task["ask"]
  <2>1. CASE Submit
    <3>1. task' = [task EXCEPT ![n] = [task[n] EXCEPT !.status = "submitted"]]
          /\ [task[n] EXCEPT !.status = "submitted"] \in Row
      BY <1>1, <2>1 DEF Submit, Row
    <3> QED BY <1>1, <3>1 DEF Follows, Row
  <2>2. CASE RollBack
    BY <1>1, <2>2 DEF RollBack, Follows
  <2> QED BY <2>1, <2>2
<1> HIDE DEF n
<1>5. TypeOK'
  BY <1>2, <1>3, <1>4, Facts DEF TypeOK
<1>6. Said' = Said
  BY <1>2, <1>3 DEF Said
<1>7. Active(run) /\ Active(run')
  BY <1>1, <1>3 DEF Active, Over
<1>8. RunInv' /\ TaskInv'
  BY <1>2, <1>3, <1>4, <1>7, Facts DEF RunInv, TaskInv, Follows
<1>9. PlanInv'
  BY <1>3, <1>4, <1>6, SamePlan
<1>10. StopInv'
  <2>1. ~asked
    BY <1>1, <1>7, Facts DEF StopInv
  <2> QED BY <1>2, <2>1 DEF StopInv
<1>11. WorkerInv'
  BY <1>2 DEF WorkerInv, PlannedWithEverythingSaid
<1>12. inbox' \in Seq(Sound')
  BY <1>1, <1>2, <1>3, <1>6, Facts, SoundStays, RunFields
<1> QED BY <1>5, <1>8, <1>9, <1>10, <1>11, <1>12 DEF ConversationInv

\* A task that is refused, or gets its verdict.
LEMMA TaskEndsKeeps ==
  ASSUME ConversationInv, NEW n \in Step, Refuse(n) \/ TaskEnds(n)
  PROVE  ConversationInv'
<1>1. run \in Run /\ task \in [Step -> Row]
  BY Facts
<1>2. /\ worker.task = None /\ UNCHANGED <<message, session, dispatcher, run, worker, asked, faults>>
      /\ task[n].status \in {"queued", "submitted"}
  BY DEF Refuse, Takes, TaskEnds
<1>3. PICK verdict \in {"succeeded", "failed", "cancelled"} : task' = [task EXCEPT ![n].status = verdict]
  BY DEF Refuse, TaskEnds
<1>4. inbox' \in Seq(Sound)
  BY <1>1, Facts, WokenInbox DEF Refuse, TaskEnds
<1>5. n # "ask" /\ Active(run)
  BY <1>2, Facts DEF TaskInv, Terminal
<1>6. /\ task' \in [Step -> Row] /\ Follows /\ task'["ask"] = task["ask"]
      /\ \A k \in Step : task'[k].status \in Unsubmitted => task[k].status \in Unsubmitted
  <2>1. task' = [task EXCEPT ![n] = [task[n] EXCEPT !.status = verdict]]
        /\ [task[n] EXCEPT !.status = verdict] \in Row
    BY <1>1, <1>3 DEF Row, Terminal
  <2> QED BY <1>1, <1>2, <1>5, <2>1 DEF Follows, Row, Unsubmitted
<1>7. TypeOK'
  <2>1. inbox' \in Seq(Invocations)
    BY <1>4 DEF Sound
  <2> QED BY <1>2, <1>6, <2>1, Facts DEF TypeOK
<1>8. Said' = Said /\ \A m \in Message : message'[m].run <= run.number
  BY <1>2, SameSaid
<1>9. TaskInv'
  BY <1>2, <1>5, <1>6, Facts DEF TaskInv, Follows, Active
<1>10. PlanInv'
  BY <1>2, <1>6, <1>8, SamePlan
<1>11. StopInv'
  <2>1. Tasks(task', Unsubmitted) \subseteq Tasks(task, Unsubmitted)
    BY <1>6 DEF Tasks
  <2> QED BY <1>2, <2>1, Facts DEF StopInv, Active
<1> QED BY <1>2, <1>4, <1>5, <1>7, <1>8, <1>9, <1>10, <1>11, SameRevision

LEMMA CancelKeeps ==
  ASSUME ConversationInv, Cancel \/ ExpireChoice
  PROVE  ConversationInv'
<1>1. Stop("cancelled") /\ asked' = TRUE /\ worker.task = None
      /\ UNCHANGED <<message, session, dispatcher, inbox, worker, faults>>
  BY DEF Cancel, ExpireChoice
<1>2. run'.number = run.number
  BY <1>1, Facts DEF Stop, Stopped, Run
<1>3. Said' = Said /\ \A m \in Message : message'[m].run <= run.number
  BY <1>1, <1>2, SameSaid
<1>4. asked' \in BOOLEAN
  BY <1>1
<1>5. /\ faults' \in 0..MaxFaults
      /\ message' \in [Message -> [status : {"new", "pending", "processed", "cancelled"}, run : Nat, revision : Nat, says : Content]]
      /\ session' \in [due : {"never", "later", "now"}, lease : Dispatcher \cup {None}, expired : BOOLEAN]
      /\ inbox' \in Seq(Sound)
  BY <1>1, Facts DEF TypeOK
<1> QED BY <1>1, <1>3, <1>4, <1>5, StopKeeps

-----------------------------------------------------------------------------
(* The planner and the ticks that only look.                               *)

LEMMA OldestChanges ==
  ASSUME ConversationInv, inbox # <<>>, NEW i \in Sound
  PROVE  [inbox EXCEPT ![1] = i] \in Seq(Sound)
BY Facts

LEMMA PlannerKeeps ==
  ASSUME ConversationInv, PlannerReturns \/ PlannerLost
  PROVE  ConversationInv'
<1>1. /\ inbox # <<>> /\ Oldest.status = "calling" /\ worker.task = None
      /\ UNCHANGED <<message, session, dispatcher, run, task, worker, asked>>
  BY DEF PlannerReturns, PlannerLost, Calling
<1>2. faults' \in 0..MaxFaults
  BY Facts, ConversationAssumption DEF PlannerReturns, PlannerLost, TypeOK, ConversationAssumption
<1>3. Tail(inbox) \in Seq(Sound) /\ Oldest \in Sound
  BY <1>1, Facts, Shorter
<1>4. Done \/ (\E status \in {"pending", "answer", "plan"} : Kept(status))
  BY DEF PlannerReturns, PlannerLost
<1>5. ASSUME NEW status \in {"pending", "answer", "plan"}, Kept(status) PROVE inbox' \in Seq(Sound)
  <2>1. inbox' = [inbox EXCEPT ![1] = [Oldest EXCEPT !.status = status]]
    BY <1>1, <1>5, Facts DEF Kept, Oldest
  <2>2. [Oldest EXCEPT !.status = status] \in Sound
    BY <1>1, <1>3 DEF Sound, Invocations
  <2> QED BY <1>1, <2>1, <2>2, OldestChanges
<1>6. inbox' \in Seq(Sound)
  BY <1>3, <1>4, <1>5 DEF Done
<1> QED BY <1>1, <1>2, <1>6, InboxKeeps

LEMMA DropKeeps ==
  ASSUME ConversationInv, TickDrops \/ AcceptObsolete
  PROVE  ConversationInv'
<1>1. /\ inbox # <<>> /\ worker.task = None /\ Done
      /\ UNCHANGED <<message, session, dispatcher, run, task, worker, asked, faults>>
  BY DEF TickDrops, AcceptObsolete, Tick
<1>2. inbox' \in Seq(Sound) /\ faults' \in 0..MaxFaults
  BY <1>1, Facts, Shorter DEF Done, TypeOK
<1> QED BY <1>1, <1>2, InboxKeeps

-----------------------------------------------------------------------------
(* The supervisor.                                                         *)

LEMMA SettlesKeeps ==
  ASSUME ConversationInv, TickSettles
  PROVE  ConversationInv'
<1>1. /\ inbox # <<>> /\ worker.task = None /\ Done /\ Settling
      /\ UNCHANGED <<message, session, dispatcher, task, worker, asked, faults>>
      /\ run \in Run /\ Active(run)
  BY Facts DEF TickSettles, Tick, Finds
<1>2. inbox' \in Seq(Sound)
  BY <1>1, Facts, Shorter DEF Done
<1>3. CASE run' = run
  <2>1. faults' \in 0..MaxFaults
    BY <1>1, Facts DEF TypeOK
  <2> QED BY <1>1, <1>2, <1>3, <2>1, InboxKeeps
<1>4. CASE run' = [run EXCEPT !.status = run.ending] /\ \A n \in Step : task[n].status \in Terminal
  <2>1. /\ run' \in Run /\ run'.number = run.number /\ run'.revision = run.revision /\ run'.fence = run.fence
        /\ run'.heard = run.heard /\ run'.planned = run.planned /\ ~Active(run')
    BY <1>1, <1>4 DEF Run, Settling, Active, Over
  <2>2. TypeOK'
    <3>1. inbox' \in Seq(Invocations)
      BY <1>2 DEF Sound
    <3> QED BY <1>1, <2>1, <3>1, Facts DEF TypeOK
  <2>3. TaskInv' /\ StopInv' /\ Follows
    BY <1>1, <1>4, <2>1, Facts DEF TaskInv, StopInv, Follows
  <2>4. Said' = Said /\ \A m \in Message : message'[m].run <= run.number
    BY <1>1, <2>1, SameSaid
  <2>5. PlanInv'
    BY <2>1, <2>3, <2>4, SamePlan
  <2> QED BY <1>1, <1>2, <2>1, <2>2, <2>3, <2>4, <2>5, SameRevision
<1> QED BY <1>3, <1>4 DEF TickSettles

LEMMA StopsKeeps ==
  ASSUME ConversationInv, TickBreaks \/ TickStops \/ PlannerGivesUp
  PROVE  ConversationInv'
<1>1. inbox # <<>> /\ worker.task = None /\ Done /\ UNCHANGED <<dispatcher, worker, asked>> /\ TypeOK
  BY Facts DEF TickBreaks, TickStops, PlannerGivesUp, Tick, Calling
<1>2. PICK status \in {"failed", "cancelled"} : Stop(status)
  BY DEF TickBreaks, TickStops, PlannerGivesUp
<1>3. inbox' \in Seq(Sound) /\ asked' \in BOOLEAN
  BY <1>1, Facts, Shorter DEF Done, TypeOK
<1>4. faults' \in 0..MaxFaults
  <2>1. faults \in 0..MaxFaults /\ MaxFaults \in Nat
    BY <1>1, ConversationAssumption DEF TypeOK, ConversationAssumption
  <2>2. faults' = faults \/ (faults < MaxFaults /\ faults' = faults + 1)
    BY DEF TickBreaks, TickStops, PlannerGivesUp
  <2> QED BY <2>1, <2>2
<1>5. session' \in [due : {"never", "later", "now"}, lease : Dispatcher \cup {None}, expired : BOOLEAN]
  <2>1. session' = session \/ session' = [due |-> "never", lease |-> None, expired |-> FALSE]
    BY DEF TickBreaks, TickStops, PlannerGivesUp, Due
  <2>2. session \in [due : {"never", "later", "now"}, lease : Dispatcher \cup {None}, expired : BOOLEAN]
    BY <1>1 DEF TypeOK
  <2>3. [due |-> "never", lease |-> None, expired |-> FALSE]
          \in [due : {"never", "later", "now"}, lease : Dispatcher \cup {None}, expired : BOOLEAN]
    OBVIOUS
  <2> QED BY <2>1, <2>2, <2>3, Zenon
<1>6. run'.number = run.number /\ run.number \in Nat
  BY <1>2, Facts DEF Stop, Stopped, Run
<1>7. /\ message' \in [Message -> [status : {"new", "pending", "processed", "cancelled"}, run : Nat, revision : Nat, says : Content]]
      /\ Said' \subseteq Said /\ \A m \in Message : message'[m].run <= run.number
  <2>1. CASE message' = message
    BY <1>1, <1>6, <2>1, SameSaid DEF TypeOK
  <2>2. CASE TickBreaks
    <3> DEFINE dropped(m) == [message[m] EXCEPT !.status = "cancelled", !.run = run.number]
    <3>1. message' = [m \in Message |-> IF m \in Pending THEN dropped(m) ELSE message[m]]
      BY <2>2 DEF TickBreaks
    <3>2. \A m \in Message : /\ dropped(m) \in [status : {"new", "pending", "processed", "cancelled"}, run : Nat, revision : Nat, says : Content]
                            /\ dropped(m).status = "cancelled" /\ dropped(m).run = run.number
      BY <1>1, <1>6 DEF TypeOK
    <3> HIDE DEF dropped
    <3>3. \A m \in Message : message'[m] = message[m] \/ (message'[m].status = "cancelled" /\ message'[m].run = run.number)
      BY <3>1, <3>2
    <3>4. message' \in [Message -> [status : {"new", "pending", "processed", "cancelled"}, run : Nat, revision : Nat, says : Content]]
      BY <1>1, <3>1, <3>2 DEF TypeOK
    <3>5. \A m \in Message : message[m].run <= run.number
      BY Facts DEF RunInv
    <3>6. Said' \subseteq Said
      BY <1>6, <3>3 DEF Said
    <3>7. \A m \in Message : message'[m].run <= run.number
      BY <1>6, <3>3, <3>5
    <3> QED BY <3>4, <3>6, <3>7
  <2> QED BY <2>1, <2>2 DEF TickStops, PlannerGivesUp
<1> QED BY <1>1, <1>2, <1>3, <1>4, <1>5, <1>7, StopKeeps

LEMMA InterruptsKeeps ==
  ASSUME ConversationInv, TickInterrupts \/ TickReplans
  PROVE  ConversationInv'
<1>1. /\ inbox # <<>> /\ worker.task = None /\ Active(run) /\ ~Settling
      /\ UNCHANGED <<message, session, dispatcher, worker, asked, faults>>
  BY Found DEF TickInterrupts, TickReplans, Tick
<1>2. run \in Run /\ task \in [Step -> Row] /\ TypeOK /\ Tail(inbox) \in Seq(Sound)
  BY <1>1, Facts, Shorter
<1>3. /\ run' \in Run /\ run'.number = run.number /\ run'.revision = run.revision
      /\ run'.fence \in {run.revision, run.revision + 1} /\ run'.heard = run.heard
      /\ (run'.planned => run.planned) /\ Active(run')
  <2>1. CASE run' = run
    BY <1>1, <1>2, <2>1 DEF TypeOK
  <2>2. CASE run' = [run EXCEPT !.interrupted = TRUE]
    BY <1>1, <1>2, <2>2 DEF TypeOK, Run, Active
  <2>3. CASE run' = [run EXCEPT !.planned = FALSE, !.interrupted = FALSE]
    BY <1>1, <1>2, <2>3 DEF TypeOK, Run, Active
  <2>4. ASSUME NEW status \in {"planning", "running", run.status},
               run' = [run EXCEPT !.planned = FALSE, !.fence = run.revision, !.status = status]
        PROVE  /\ run' \in Run /\ run'.number = run.number /\ run'.revision = run.revision
               /\ run'.fence = run.revision /\ run'.heard = run.heard
               /\ (run'.planned => run.planned) /\ Active(run')
    BY <1>1, <1>2, <2>4, RunFields DEF Run, Active, Over
  <2>5. CASE run' = [run EXCEPT !.planned = FALSE, !.fence = run.revision,
                                !.status = IF @ = "created" THEN "planning" ELSE IF @ = "paused" THEN "running" ELSE @]
    <3> DEFINE status == IF run.status = "created" THEN "planning" ELSE IF run.status = "paused" THEN "running" ELSE run.status
    <3>1. status \in {"planning", "running", run.status}
          /\ run' = [run EXCEPT !.planned = FALSE, !.fence = run.revision, !.status = status]
      BY <2>5
    <3> HIDE DEF status
    <3> QED BY <2>4, <3>1
  <2> QED BY <2>1, <2>2, <2>3, <2>5 DEF TickInterrupts, TickReplans
<1>4. /\ task' \in [Step -> Row] /\ Follows /\ task'["ask"].status \notin {"queued", "submitted"}
  <2>1. task["ask"].status \notin {"queued", "submitted"} /\ "ask" \in Step
    BY Facts DEF TaskInv, Step
  <2>2. CASE task' = task
    BY <1>2, <2>1, <2>2 DEF Follows
  <2>3. CASE task' = CancelUnsubmitted(task)
    BY <1>2, <2>1, <2>3, Cancelled DEF Follows, Terminal
  <2> QED BY <2>2, <2>3 DEF TickInterrupts, TickReplans
<1>5. inbox' \in Seq(Sound)
  <2>1. inbox' = Tail(inbox) \/ inbox' = Woken(run', Tail(inbox), "user_message")
    BY DEF TickInterrupts, TickReplans, Done
  <2> QED BY <1>2, <1>3, <2>1, WokenInbox
<1> QED BY <1>1, <1>3, <1>4, <1>5, RunKeeps

\* The context of a call holds all that was said, and its revision.
LEMMA CallsKeeps ==
  ASSUME ConversationInv, TickCalls
  PROVE  ConversationInv'
<1>1. /\ inbox # <<>> /\ worker.task = None /\ Active(run) /\ ~Settling
      /\ UNCHANGED <<message, session, dispatcher, task, worker, asked, faults>>
      /\ run \in Run /\ task \in [Step -> Row] /\ TypeOK /\ Oldest \in Sound /\ Oldest \in Invocations
  BY Found, Facts, Shorter DEF TickCalls, Tick
<1>2. /\ run' \in Run /\ run'.number = run.number /\ run'.revision = run.revision /\ run'.fence = run.fence
      /\ run'.heard = run.heard /\ (run'.planned => run.planned) /\ Active(run')
  <2> DEFINE status == IF run.status = "created" THEN "planning" ELSE IF run.status = "paused" THEN "running" ELSE run.status
  <2>1. status \in {"planning", "running", run.status} /\ run' = [run EXCEPT !.status = status]
    BY DEF TickCalls, Planning
  <2> HIDE DEF status
  <2> QED BY <1>1, <2>1, RunFields DEF Run, Active, Over
<1>3. inbox' \in Seq(Sound)
  <2>1. CASE Oldest.built
    <3>1. inbox' = [inbox EXCEPT ![1] = [Oldest EXCEPT !.status = "calling"]]
      BY <1>1, <2>1, Facts DEF TickCalls, Oldest
    <3>2. [Oldest EXCEPT !.status = "calling"] \in Sound
      BY <1>1, <2>1 DEF Sound, Invocations
    <3> QED BY <1>1, <3>1, <3>2, OldestChanges
  <2>2. CASE ~Oldest.built
    <3> DEFINE i == [Oldest EXCEPT !.status = "calling", !.built = TRUE, !.revision = run.revision, !.heard = Heard]
    <3>1. inbox' = [inbox EXCEPT ![1] = i]
      BY <1>1, <2>2, Facts DEF TickCalls, Oldest
    <3>2. run.revision \in 1..run.revision /\ run.revision \in Nat
      BY <1>1, Facts, RunFields DEF RunInv
    <3>3. Said \subseteq Heard /\ Heard \subseteq Message
      BY DEF Said, Heard
    <3>4. i \in Invocations /\ i.revision = run.revision /\ i.heard = Heard /\ i.built
      BY <1>1, <3>2, <3>3 DEF Invocations
    <3> HIDE DEF i
    <3>5. i \in Sound
      BY <3>2, <3>3, <3>4 DEF Sound
    <3> QED BY <1>1, <3>1, <3>5, OldestChanges
  <2> QED BY <2>1, <2>2
<1>4. Follows /\ task'["ask"].status \notin {"queued", "submitted"}
      /\ run'.fence \in {run.revision, run.revision + 1}
  BY <1>1, <1>2, Facts DEF Follows, TaskInv, TypeOK
<1> QED BY <1>1, <1>2, <1>3, <1>4, RunKeeps

\* What advance makes of a run and the tasks of its plan, old or just accepted.
LEMMA AdvancedFields ==
  ASSUME NEW r \in Run, NEW t \in [Step -> Row], Active(r),
         t["ask"].status \notin {"queued", "submitted"},
         NEW outcome \in Advanced(r, t)
  PROVE  /\ outcome.run \in Run /\ outcome.run.number = r.number /\ outcome.run.revision = r.revision
         /\ outcome.run.fence = r.fence /\ outcome.run.heard = r.heard /\ (outcome.run.planned => r.planned)
         /\ outcome.task \in [Step -> Row] /\ outcome.task["ask"].status \notin {"queued", "submitted"}
         /\ \A n \in Step \ {"ask"} : /\ outcome.task[n].revision = t[n].revision
                                    /\ (outcome.task[n].status # "none" => t[n].status # "none")
         /\ (~Active(outcome.run) => \A n \in Step : outcome.task[n].status \in Terminal)
<1> DEFINE Good(x, u) == /\ x \in Run /\ x.number = r.number /\ x.revision = r.revision
                        /\ x.fence = r.fence /\ x.heard = r.heard /\ (x.planned => r.planned) /\ Active(x)
                        /\ u \in [Step -> Row] /\ u["ask"].status \notin {"queued", "submitted"}
                        /\ \A n \in Step \ {"ask"} : /\ u[n].revision = t[n].revision
                                                   /\ (u[n].status # "none" => t[n].status # "none")
           Fine(o) == /\ o.run \in Run /\ o.run.number = r.number /\ o.run.revision = r.revision
                      /\ o.run.fence = r.fence /\ o.run.heard = r.heard /\ (o.run.planned => r.planned)
                      /\ o.task \in [Step -> Row] /\ o.task["ask"].status \notin {"queued", "submitted"}
                      /\ \A n \in Step \ {"ask"} : /\ o.task[n].revision = t[n].revision
                                                 /\ (o.task[n].status # "none" => t[n].status # "none")
                      /\ (~Active(o.run) => \A n \in Step : o.task[n].status \in Terminal)
<1>1. "ask" \in Step /\ "make" \in Step /\ "detect" \in Step
  BY DEF Step
<1>2. ASSUME NEW x, NEW u, Good(x, u) PROVE Fine(Outcome(x, u))
  BY <1>2 DEF Outcome
<1>3. ASSUME NEW x, NEW u, Good(x, u) PROVE Good([x EXCEPT !.status = "paused"], u)
  BY <1>3 DEF Run, Active, Over
<1>4. ASSUME NEW x, NEW u, Good(x, u), NEW row \in Row, row.status \notin {"queued", "submitted"}
      PROVE  Good(x, [u EXCEPT !["ask"] = row])
  BY <1>1, <1>4
<1>5. ASSUME NEW x, NEW u, Good(x, u), NEW status \in {"queued", "cancelled"}, u["make"].status # "none"
      PROVE  Good(x, [u EXCEPT !["make"].status = status])
  <2>1. [u EXCEPT !["make"].status = status] = [u EXCEPT !["make"] = [u["make"] EXCEPT !.status = status]]
        /\ [u["make"] EXCEPT !.status = status] \in Row
    BY <1>1, <1>5 DEF Row, Unsubmitted, Terminal
  <2> QED BY <1>1, <1>5, <2>1 DEF Row
<1>6. ASSUME NEW x, NEW u, Good(x, u) PROVE Fine(DispatchReady(x, u))
  <2>1. CASE u["ask"].status = "validated"
    <3>1. [u EXCEPT !["ask"].status = "waiting_user"] = [u EXCEPT !["ask"] = [u["ask"] EXCEPT !.status = "waiting_user"]]
          /\ [u["ask"] EXCEPT !.status = "waiting_user"] \in Row
          /\ [u["ask"] EXCEPT !.status = "waiting_user"].status = "waiting_user"
      BY <1>1, <1>6 DEF Row, Unsubmitted
    <3>2. Good([x EXCEPT !.status = "paused"], [u EXCEPT !["ask"].status = "waiting_user"])
      <4> HIDE DEF Good
      <4> QED BY <1>3, <1>4, <1>6, <3>1
    <3> HIDE DEF Good, Fine
    <3> QED BY <1>2, <2>1, <3>2 DEF DispatchReady
  <2>2. CASE u["ask"].status # "validated"
    <3> DEFINE v == [n \in Step |-> IF u[n].status = "validated" /\ (n = "make" => u["detect"].status = "none")
                                    THEN [u[n] EXCEPT !.status = "queued"] ELSE u[n]]
    <3>1. \A n \in Step : /\ v[n] \in Row /\ v[n].revision = u[n].revision
                         /\ (v[n].status # "none" => u[n].status # "none")
      <4>1. \A n \in Step : u[n] \in Row
        BY <1>6
      <4>2. \A n \in Step : \/ v[n] = u[n]
                            \/ u[n].status = "validated" /\ v[n] = [u[n] EXCEPT !.status = "queued"]
        OBVIOUS
      <4> HIDE DEF v, Good, Fine
      <4>3. ASSUME NEW n \in Step, u[n].status = "validated", v[n] = [u[n] EXCEPT !.status = "queued"]
            PROVE  v[n] \in Row /\ v[n].revision = u[n].revision /\ u[n].status # "none"
        BY <4>1, <4>3 DEF Row, Unsubmitted
      <4> QED BY <4>1, <4>2, <4>3
    <3>2. v["ask"] = u["ask"]
      BY <1>1, <2>2
    <3>3. Good(x, v)
      <4>1. v \in [Step -> Row]
        BY <3>1
      <4> HIDE DEF v
      <4> QED BY <1>6, <3>1, <3>2, <4>1
    <3> HIDE DEF Good, Fine
    <3> QED BY <1>2, <2>2, <3>3 DEF DispatchReady
  <2> QED BY <2>1, <2>2
<1>7. ASSUME NEW x, NEW u, Good(x, u) PROVE Fine(Proceeds(x, u))
  <2>1. CASE \A n \in Step : u[n].status \in Terminal
    <3>1. CASE x.interrupted
      BY <1>7, <2>1, <3>1 DEF Proceeds, Outcome, Run, Active
    <3>2. CASE ~x.interrupted
      BY <1>7, <2>1, <3>2 DEF Proceeds, Outcome, Run, Over
    <3> QED BY <3>1, <3>2
  <2>2. CASE ~(\A n \in Step : u[n].status \in Terminal)
    <3> HIDE DEF Good, Fine
    <3> QED BY <1>2, <1>6, <1>7, <2>2 DEF Proceeds
  <2> QED BY <2>1, <2>2
<1>8. Good(Resumed(r, t), t)
  BY DEF Resumed, Run, Active, Over
<1>9. CASE t["detect"].status = "succeeded" /\ t["make"].status = "validated"
  <2> DEFINE x == Resumed(r, t)
  <2>1. Good(x, t)
    BY <1>8
  <2>2. t["make"].status # "none"
    BY <1>9
  <2>3. Good(x, [t EXCEPT !["make"].status = "cancelled"]) /\ Good(x, Chosen(t))
    <3> HIDE DEF Good, x
    <3> QED BY <1>5, <2>1, <2>2 DEF Chosen
  <2>4. Good([x EXCEPT !.status = "paused"], [t EXCEPT !["ask"] = [status |-> "waiting_user", revision |-> 1]])
    <3>1. [status |-> "waiting_user", revision |-> 1] \in Row
      BY DEF Row, Unsubmitted
    <3> HIDE DEF Good, x
    <3> QED BY <1>3, <1>4, <2>1, <3>1
  <2>5. Fine(outcome)
    <3>1. outcome \in Subjects(x, t)
      BY <1>9 DEF Advanced
    <3> HIDE DEF Good, Fine, x
    <3> QED BY <1>2, <1>7, <2>1, <2>3, <2>4, <3>1 DEF Subjects
  <2> QED BY <2>5
<1>10. CASE ~(t["detect"].status = "succeeded" /\ t["make"].status = "validated")
  <2>1. outcome = Proceeds(Resumed(r, t), t)
    BY <1>10 DEF Advanced
  <2>2. Fine(outcome)
    <3> HIDE DEF Good, Fine
    <3> QED BY <1>7, <1>8, <2>1
  <2> QED BY <2>2
<1> QED BY <1>9, <1>10

LEMMA AdvancesKeeps ==
  ASSUME ConversationInv, TickAdvances
  PROVE  ConversationInv'
<1>1. /\ inbox # <<>> /\ worker.task = None /\ Active(run) /\ ~Settling /\ Advance(run, task)
      /\ UNCHANGED <<message, session, dispatcher, worker, asked, faults>>
      /\ run \in Run /\ task \in [Step -> Row] /\ TypeOK /\ Tail(inbox) \in Seq(Sound)
      /\ task["ask"].status \notin {"queued", "submitted"}
  BY Found, Facts, Shorter DEF TickAdvances, Tick, TaskInv
<1>2. PICK outcome \in Advanced(run, task) :
        /\ run' = outcome.run /\ task' = outcome.task
        /\ inbox' = IF outcome.replan THEN Woken(run', Tail(inbox), "user_message") ELSE Tail(inbox)
  BY <1>1 DEF Advance
<1>3. /\ run' \in Run /\ run'.number = run.number /\ run'.revision = run.revision
      /\ run'.fence = run.fence /\ run'.heard = run.heard /\ (run'.planned => run.planned)
      /\ task' \in [Step -> Row] /\ task'["ask"].status \notin {"queued", "submitted"} /\ Follows
      /\ (~Active(run') => \A n \in Step : task'[n].status \in Terminal)
  BY <1>1, <1>2, AdvancedFields DEF Follows
<1>4. inbox' \in Seq(Sound)
  BY <1>1, <1>2, <1>3, WokenInbox
<1>5. run'.fence \in {run.revision, run.revision + 1}
  BY <1>1, <1>3 DEF TypeOK
<1> QED BY <1>1, <1>3, <1>4, <1>5, RunKeeps

\* What a verdict on a plan starts from.
LEMMA AcceptsFields ==
  ASSUME ConversationInv, Accepts
  PROVE  /\ inbox # <<>> /\ worker.task = None /\ Active(run) /\ ~Settling /\ ~asked
         /\ run \in Run /\ TypeOK /\ Tail(inbox) \in Seq(Sound) /\ Oldest \in Sound /\ Oldest \in Invocations
         /\ Oldest.built => Said \subseteq Oldest.heard
<1>1. /\ inbox # <<>> /\ worker.task = None /\ Active(run) /\ ~Settling /\ ~Obsolete(run, Oldest)
  BY Found DEF Accepts, Tick
<1>2. /\ run \in Run /\ TypeOK /\ Tail(inbox) \in Seq(Sound) /\ Oldest \in Sound /\ Oldest \in Invocations
      /\ ~asked
  BY <1>1, Facts, Shorter, Unasked
<1>3. Oldest.built => Said \subseteq Oldest.heard
  <2>1. Oldest.revision \in {0, run.revision}
    BY <1>1 DEF Obsolete
  <2> QED BY <1>2, <2>1 DEF Sound
<1> QED BY <1>1, <1>2, <1>3

LEMMA AcceptAnswerKeeps ==
  ASSUME ConversationInv, AcceptAnswer
  PROVE  ConversationInv'
<1>1. /\ inbox # <<>> /\ worker.task = None /\ Active(run) /\ ~asked /\ run \in Run /\ TypeOK
      /\ Tail(inbox) \in Seq(Sound) /\ Oldest.heard \subseteq Message
  BY AcceptsFields DEF AcceptAnswer, Invocations
<1>2. /\ run' = [run EXCEPT !.status = "completed", !.planned = TRUE, !.heard = Oldest.heard]
      /\ task' = NoTasks /\ inbox' = Tail(inbox)
      /\ UNCHANGED <<message, session, dispatcher, worker, asked, faults>>
  BY DEF AcceptAnswer, Done
<1>3. /\ run' \in Run /\ run'.number = run.number /\ run'.revision = run.revision /\ run'.fence = run.fence
      /\ ~Active(run')
  BY <1>1, <1>2 DEF Run, Active, Over
<1>4. task' \in [Step -> Row] /\ \A n \in Step : task'[n].status = "none" /\ task'[n].revision = 0
  BY <1>2 DEF NoTasks, Row, Terminal
<1>5. TypeOK'
  <2>1. inbox' \in Seq(Invocations)
    BY <1>1, <1>2 DEF Sound
  <2> QED BY <1>1, <1>2, <1>3, <1>4, <2>1 DEF TypeOK
<1>6. TaskInv' /\ PlanInv' /\ StopInv'
  BY <1>1, <1>2, <1>3, <1>4, RunFields DEF TaskInv, PlanInv, StopInv, Terminal, Step
<1>7. Said' = Said /\ \A m \in Message : message'[m].run <= run.number
  BY <1>2, <1>3, SameSaid
<1> QED BY <1>1, <1>2, <1>3, <1>5, <1>6, <1>7, SameRevision

\* A plan that is accepted was made from all that was said.
LEMMA AcceptPlanKeeps ==
  ASSUME ConversationInv, AcceptPlan
  PROVE  ConversationInv'
<1>1. /\ inbox # <<>> /\ worker.task = None /\ Active(run) /\ ~asked /\ run \in Run /\ TypeOK
      /\ Tail(inbox) \in Seq(Sound) /\ Oldest \in Sound /\ Oldest.heard \subseteq Message
      /\ (Oldest.built => Said \subseteq Oldest.heard) /\ Oldest.status = "plan"
      /\ UNCHANGED <<message, session, dispatcher, worker, asked, faults>>
  BY AcceptsFields DEF AcceptPlan, Invocations
<1>2. PICK steps \in (IF Oldest.kind = "clarify" THEN {{"ask"}} ELSE {{"make"}, {"detect", "make"}}) :
        Advance(Accepted, Created(steps))
  BY DEF AcceptPlan
<1> DEFINE t == Created(steps)
<1>3. /\ Accepted \in Run /\ Accepted.number = run.number /\ Accepted.revision = run.revision
      /\ Accepted.fence = run.fence /\ Accepted.heard = Oldest.heard /\ Active(Accepted)
  BY <1>1 DEF Accepted, Run, Active, Over
<1>4. /\ t \in [Step -> Row] /\ t["ask"].status \notin {"queued", "submitted"}
      /\ \A n \in Step : t[n].revision \in {0, run.revision} /\ (t[n].status # "none" => n \in steps)
  <2>1. \A n \in Step : t[n] = IF n \in steps THEN [status |-> "validated", revision |-> run.revision]
                                            ELSE [status |-> "none", revision |-> 0]
    BY DEF Created, NoTasks
  <2>2. t \in [Step -> Row]
    BY <1>1, <2>1, RunFields DEF Created, Row, Terminal, Unsubmitted
  <2> QED BY <2>1, <2>2 DEF Step
<1> HIDE DEF t
<1>5. PICK outcome \in Advanced(Accepted, t) :
        /\ run' = outcome.run /\ task' = outcome.task
        /\ inbox' = IF outcome.replan THEN Woken(run', Tail(inbox), "user_message") ELSE Tail(inbox)
  BY <1>2 DEF Advance, t
<1>6. /\ run' \in Run /\ run'.number = run.number /\ run'.revision = run.revision
      /\ run'.fence = run.fence /\ run'.heard = Oldest.heard
      /\ task' \in [Step -> Row] /\ task'["ask"].status \notin {"queued", "submitted"}
      /\ \A n \in Step \ {"ask"} : /\ task'[n].revision \in {0, run.revision}
                                 /\ (task'[n].status # "none" => n \in steps)
      /\ (~Active(run') => \A n \in Step : task'[n].status \in Terminal)
  <2>1. /\ outcome.run \in Run /\ outcome.run.number = Accepted.number /\ outcome.run.revision = Accepted.revision
        /\ outcome.run.fence = Accepted.fence /\ outcome.run.heard = Accepted.heard
        /\ outcome.task \in [Step -> Row] /\ outcome.task["ask"].status \notin {"queued", "submitted"}
        /\ \A n \in Step \ {"ask"} : /\ outcome.task[n].revision = t[n].revision
                                   /\ (outcome.task[n].status # "none" => t[n].status # "none")
        /\ (~Active(outcome.run) => \A n \in Step : outcome.task[n].status \in Terminal)
    BY <1>3, <1>4, AdvancedFields
  <2> HIDE DEF Accepted
  <2> QED BY <1>3, <1>4, <1>5, <2>1
<1>7. inbox' \in Seq(Sound)
  BY <1>1, <1>5, <1>6, WokenInbox
<1>8. TypeOK'
  <2>1. inbox' \in Seq(Invocations)
    BY <1>7 DEF Sound
  <2> QED BY <1>1, <1>6, <2>1 DEF TypeOK
<1>9. Said' = Said /\ \A m \in Message : message'[m].run <= run.number
  BY <1>1, <1>6, SameSaid
<1>10. PlanInv'
  <2>1. CASE Oldest.kind = "clarify"
    BY <1>2, <1>6, <2>1 DEF PlanInv
  <2>2. CASE Oldest.kind # "clarify"
    BY <1>1, <1>6, <1>9, <2>2 DEF PlanInv, Sound
  <2> QED BY <2>1, <2>2
<1>11. TaskInv' /\ StopInv'
  BY <1>1, <1>6, RunFields DEF TaskInv, StopInv
<1> QED BY <1>1, <1>6, <1>7, <1>8, <1>9, <1>10, <1>11, SameRevision

\* A plan that is refused is made again, becomes a form, or ends the run.
LEMMA RejectKeeps ==
  ASSUME ConversationInv, RejectPlan
  PROVE  ConversationInv'
<1>1. /\ inbox # <<>> /\ worker.task = None /\ Active(run) /\ ~Settling /\ run \in Run /\ TypeOK
      /\ Tail(inbox) \in Seq(Sound) /\ Oldest \in Invocations
      /\ UNCHANGED <<message, session, dispatcher, worker, asked, faults>>
  BY AcceptsFields DEF RejectPlan
<1>2. Retried(Oldest.kind, "pending") \in Sound /\ Retried("clarify", "plan") \in Sound
  <2>1. /\ Oldest.kind \in {"user_message", "user_confirmed", "user_interrupt", "task_ended",
                            "task_cancelled", "clarify"}
        /\ Oldest.attempt \in Nat
    BY <1>1 DEF Invocations
  <2>2. Retried(Oldest.kind, "pending") \in Sound
    BY <2>1 DEF Retried, Sound, Invocations
  <2>3. Retried("clarify", "plan") \in Sound
    BY <2>1 DEF Retried, Sound, Invocations
  <2> QED BY <2>2, <2>3
<1>3. faults' \in 0..MaxFaults /\ asked' \in BOOLEAN
  BY <1>1 DEF TypeOK
<1>4. CASE inbox' = Append(Tail(inbox), Retried(Oldest.kind, "pending")) /\ UNCHANGED <<run, task>>
  <2>1. inbox' \in Seq(Sound)
    BY <1>1, <1>2, <1>4
  <2> QED BY <1>1, <1>3, <1>4, <2>1, InboxKeeps
<1>5. CASE /\ inbox' = Append(Tail(inbox), Retried("clarify", "plan"))
           /\ run' = [run EXCEPT !.clarified = TRUE] /\ UNCHANGED task
  <2>1. inbox' \in Seq(Sound)
    BY <1>1, <1>2, <1>5
  <2>2. /\ run' \in Run /\ run'.number = run.number /\ run'.revision = run.revision /\ run'.fence = run.fence
        /\ run'.heard = run.heard /\ run'.planned = run.planned /\ Active(run')
    BY <1>1, <1>5 DEF Run, Active
  <2>3. /\ task' \in [Step -> Row] /\ Follows /\ task'["ask"].status \notin {"queued", "submitted"}
        /\ run'.fence \in {run.revision, run.revision + 1}
    BY <1>1, <1>5, <2>2, Facts DEF Follows, TaskInv, TypeOK
  <2> QED BY <1>1, <2>1, <2>2, <2>3, RunKeeps
<1>6. CASE Stop("failed") /\ Done
  <2>1. run'.number = run.number
    BY <1>1, <1>6 DEF Stop, Stopped, Run
  <2>2. Said' = Said /\ \A m \in Message : message'[m].run <= run.number
    BY <1>1, <2>1, SameSaid
  <2>3. /\ message' \in [Message -> [status : {"new", "pending", "processed", "cancelled"}, run : Nat, revision : Nat, says : Content]]
        /\ session' \in [due : {"never", "later", "now"}, lease : Dispatcher \cup {None}, expired : BOOLEAN]
        /\ inbox' \in Seq(Sound)
    BY <1>1, <1>6 DEF TypeOK, Done
  <2> QED BY <1>1, <1>3, <1>6, <2>2, <2>3, StopKeeps
<1> QED BY <1>4, <1>5, <1>6 DEF RejectPlan

LEMMA NextKeeps == ConversationInv /\ [Next]_vars => ConversationInv'
<1> SUFFICES ASSUME ConversationInv, [Next]_vars PROVE ConversationInv'
  OBVIOUS
<1>1. CASE User \/ ExpireChoice
  BY <1>1, PostKeeps, AnswerKeeps, CancelKeeps DEF User
<1>2. CASE WindowCloses \/ LeaseExpires \/ DispatcherStalls
  <2>2. TypeOK
    BY Facts
  <2>3. UNCHANGED <<message, run, task, inbox, worker, asked, dispatcher>> /\ faults' \in 0..MaxFaults
    BY <1>2, <2>2, ConversationAssumption
    DEF ConversationAssumption, TypeOK, WindowCloses, LeaseExpires, DispatcherStalls, Expires
  <2>4. /\ session' \in [due : {"never", "later", "now"}, lease : Dispatcher \cup {None}, expired : BOOLEAN]
        /\ dispatcher' \in [Dispatcher -> {"idle", "leased"}]
    BY <1>2, <2>2, <2>3 DEF TypeOK, WindowCloses, LeaseExpires, DispatcherStalls, Expires
  <2> QED BY <2>3, <2>4, QuietKeeps
<1>3. ASSUME NEW d \in Dispatcher, Lease(d) \/ Dispatch(d) \/ DispatchSkips(d) PROVE ConversationInv'
  BY <1>3, LeaseKeeps, DispatchOpensKeeps, DispatchAnswersKeeps, DispatchRevisesKeeps DEF Dispatch
<1>4. CASE Supervise
  BY <1>4, DropKeeps, SettlesKeeps, StopsKeeps, InterruptsKeeps, AdvancesKeeps, CallsKeeps,
     AcceptAnswerKeeps, AcceptPlanKeeps, RejectKeeps DEF Supervise
<1>5. CASE PlannerReturns \/ PlannerLost \/ PlannerGivesUp
  BY <1>5, PlannerKeeps, StopsKeeps
<1>6. CASE Work \/ RollBack \/ \E n \in Step : TaskEnds(n)
  BY <1>6, TakeKeeps, TaskEndsKeeps, SubmitKeeps DEF Work
<1>7. CASE UNCHANGED vars
  <2>1. faults' \in 0..MaxFaults /\ session' = session /\ dispatcher' = dispatcher
        /\ UNCHANGED <<message, run, task, inbox, worker, asked>>
    BY <1>7, Facts DEF vars, TypeOK
  <2> QED BY <2>1, QuietKeeps, Facts DEF TypeOK
<1> QED BY <1>1, <1>2, <1>3, <1>4, <1>5, <1>6, <1>7 DEF Next

-----------------------------------------------------------------------------
(* Theorems.                                                               *)

\* The inductive invariant holds for any messages, dispatchers, retries and faults.
THEOREM ConversationInvariance == Spec => []ConversationInv
BY InitKeeps, NextKeeps, PTL DEF Spec

\* Type correctness: the fence of a run is its revision or the next, whatever is
\* said while the run is locked, interrupted or settled (intake, fencing.py).
THEOREM ConversationTypes == Spec => []TypeOK
<1>1. ConversationInv => TypeOK
  BY DEF ConversationInv
<1> QED BY <1>1, ConversationInvariance, PTL

\* Nothing reaches the provider that was planned without something the user had said
\* when the worker looked (assert_submittable, invocation_obsolete).
THEOREM EverythingSaid == Spec => []PlannedWithEverythingSaid
<1>1. ConversationInv => PlannedWithEverythingSaid
  BY DEF ConversationInv, WorkerInv
<1> QED BY <1>1, ConversationInvariance, PTL

\* A run that is over has nothing left that could be submitted or answered (stop, tick).
THEOREM Settlement == Spec => []TerminalMeansSettled
<1>1. ConversationInv => TerminalMeansSettled
  BY DEF ConversationInv, WorkerInv, TaskInv, TerminalMeansSettled, Active, Over
<1> QED BY <1>1, ConversationInvariance, PTL

\* After a stop nothing more is submitted (stop, tick: "pending_terminal").
THEOREM StopIsFinal == Spec => NothingIsSubmittedAfterStop
<1> DEFINE A == \A n \in Step : asked /\ task[n].status # "submitted" => task'[n].status # "submitted"
<1>1. ConversationInv /\ [Next]_vars => [A]_vars
  <2> SUFFICES ASSUME ConversationInv, Next, asked, NEW n \in Step,
                      task[n].status # "submitted", task'[n].status = "submitted"
               PROVE  FALSE
    OBVIOUS
  <2>1. task \in [Step -> Row] /\ run \in Run
    BY Facts
  <2>2. ~Submit
    BY Facts DEF Submit, WorkerInv, StopInv, Active, Over
  <2>3. task' # task /\ task' # CancelUnsubmitted(task)
    BY <2>1, Cancelled
  <2>4. ASSUME NEW k \in Step, NEW status, task' = [task EXCEPT ![k].status = status] PROVE status = "submitted"
    BY <2>1, <2>4 DEF Row
  <2>5. task' # NoTasks
    BY DEF NoTasks
  <2>6. ~(\E k \in Step : Refuse(k) \/ TaskEnds(k))
    BY <2>4 DEF Refuse, TaskEnds
  <2>7. ~Waiting \/ ~Answered
    BY AnsweredFields
  <2>8. ~TickAdvances /\ ~AcceptPlan /\ ~RejectPlan /\ ~AcceptAnswer
    <3>1. ~TickAdvances
      BY Found, Unasked, Facts DEF TickAdvances, Tick
    <3>2. ~Accepts
      BY AcceptsFields
    <3> QED BY <3>1, <3>2 DEF AcceptPlan, RejectPlan, AcceptAnswer
  <2>9. ~User /\ ~ExpireChoice
    BY <2>3, <2>7 DEF User, Post, Answer, Cancel, ExpireChoice, Stop
  <2>10. ASSUME NEW d \in Dispatcher PROVE ~(Lease(d) \/ Dispatch(d) \/ DispatchSkips(d))
    BY <2>3, <2>5, <2>7 DEF Lease, Dispatch, DispatchSkips, DispatchFenced, DispatchLater, DispatchFails, DispatchOpens,
                            DispatchAnswers, DispatchRevises, DispatchInterrupts
  <2>11. ~Supervise
    BY <2>3, <2>8 DEF Supervise, TickDrops, TickSettles, TickBreaks, TickStops, TickInterrupts, TickReplans,
                      TickCalls, AcceptObsolete, Stop
  <2>12. ~Work /\ ~RollBack
    BY <2>2, <2>3, <2>6 DEF Work, Take, RollBack
  <2>13. ~(PlannerReturns \/ PlannerLost \/ PlannerGivesUp)
    BY <2>3 DEF PlannerReturns, PlannerLost, PlannerGivesUp, Stop
  <2>14. ~(WindowCloses \/ LeaseExpires \/ DispatcherStalls)
    BY <2>3 DEF WindowCloses, LeaseExpires, DispatcherStalls, Expires
  <2> QED BY <2>6, <2>9, <2>10, <2>11, <2>12, <2>13, <2>14 DEF Next
<1> QED BY <1>1, ConversationInvariance, PTL DEF Spec, NothingIsSubmittedAfterStop
=============================================================================
