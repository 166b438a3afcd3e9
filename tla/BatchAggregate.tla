--------------------------- MODULE BatchAggregate ---------------------------
(***************************************************************************)
(* The status of a batch row, which every event of a child recomputes from *)
(* the children (ExecutionStore._event), under PostgreSQL's READ COMMITTED *)
(* row locks.                                                              *)
(*                                                                         *)
(* Here a database transaction is several steps, one per statement that    *)
(* may wait or that reads what others have committed meanwhile: it locks   *)
(* child rows, changes one, locks the batch row, reads the children,       *)
(* writes the batch row, and commits or rolls back.  What a transaction    *)
(* has written is the draft of the rows it holds; others see the committed *)
(* value.                                                                  *)
(***************************************************************************)
EXTENDS Integers, FiniteSets

CONSTANTS
  Batch,        \* batch rows, in the order of their ids
  Child,        \* child rows, in the order of their ids
  BatchOf,      \* BatchOf[c]: parent_id
  Transaction,  \* sessions that run transactions, one after another
  Free          \* no session

ASSUME ConstantsAssumption ==
  /\ Batch \subseteq Nat
  /\ Child \subseteq Nat
  /\ BatchOf \in [Child -> Batch]
  /\ Free \notin Transaction

ASSUME FiniteRows == IsFiniteSet(Batch) /\ IsFiniteSet(Child)

\* A request for several items makes the batch and its children together.
ASSUME BatchesHaveChildren == \A b \in Batch : \E c \in Child : BatchOf[c] = b

VARIABLES
  child,  \* child[c]: committed status, draft of the session that holds the row, its lock
  batch,  \* batch[b]: the same of a batch row
  tx      \* tx[t]: what the session does next, and the children it has still to do

vars == <<child, batch, tx>>

Final == {"completed", "failed"}
Status == {"queued", "running", "unknown"} \cup Final

TypeOK ==
  /\ child \in [Child -> [status : Status, draft : Status, lock : Transaction \cup {Free}]]
  /\ batch \in [Batch -> [status : Status, draft : Status, lock : Transaction \cup {Free}]]
  /\ tx \in [Transaction ->
              [at : {"idle", "lock", "write", "batch", "aggregate", "commit", "cancel"},
               todo : SUBSET Child]]

ChildrenOf(b) == {c \in Child : BatchOf[c] = b}

\* Fault: the session's own change is not flushed before it reads.
SeenWithoutFlush(t, row) == row.status

\* What the session t reads: its own draft, or what is committed.
Seen(t, row) == IF row.lock = t THEN row.draft ELSE row.status

\* Fault: a failed child decides before the unknown ones are settled.
AggregateFailedFirst(statuses) ==
  CASE statuses \cap {"queued", "running"} # {} -> "running"
    [] statuses \cap {"queued", "running"} = {} /\ "failed" \in statuses -> "failed"
    [] statuses \cap {"queued", "running", "failed"} = {} /\ "unknown" \in statuses -> "unknown"
    [] OTHER -> "completed"

\* The status a batch takes from those of its children.
Aggregate(statuses) ==
  CASE statuses \cap {"queued", "running"} # {} -> "running"
    [] statuses \cap {"queued", "running"} = {} /\ "unknown" \in statuses -> "unknown"
    [] statuses \cap {"queued", "running", "unknown"} = {} /\ "failed" \in statuses -> "failed"
    [] OTHER -> "completed"

\* What one event may make of the status of a child (JobLifecycle).
Moves(status) ==
  CASE status = "queued" -> {"queued", "running", "failed"}
    [] status = "running" -> {"running", "unknown", "completed", "failed"}
    [] status = "unknown" -> {"unknown", "running", "completed", "failed"}
    [] OTHER -> {}

\* The order in which the sweeps lock and handle their rows.
Before(c, d) == BatchOf[c] < BatchOf[d] \/ (BatchOf[c] = BatchOf[d] /\ c < d)

\* Fault: in the order of their own ids alone.
FirstById(S) == CHOOSE c \in S : \A d \in S : c <= d

First(S) == CHOOSE c \in S : \A d \in S \ {c} : Before(c, d)

Continues(t, at) == tx' = [tx EXCEPT ![t].at = at]
Begins(t, at, todo) == tx[t].at = "idle" /\ tx' = [tx EXCEPT ![t] = [at |-> at, todo |-> todo]]
Ends(t) == tx' = [tx EXCEPT ![t] = [at |-> "idle", todo |-> {}]]

Lock(t, row) == [status |-> row.status, draft |-> row.status, lock |-> t]
Release(t, row) ==
  IF row.lock = t THEN [status |-> row.status, draft |-> row.status, lock |-> Free] ELSE row
Publish(t, row) ==
  IF row.lock = t THEN [status |-> row.draft, draft |-> row.draft, lock |-> Free] ELSE row

-----------------------------------------------------------------------------
(* One event of one child: claim, begin_submit, advance, complete, ...     *)

BeginEvent(t) ==
  /\ \E c \in Child : Begins(t, "lock", {c})
  /\ UNCHANGED <<child, batch>>

\* SELECT ... FOR UPDATE waits for the lock; a final row is left alone.
LockChild(t) ==
  /\ tx[t].at = "lock"
  /\ \E c \in tx[t].todo :
       /\ child[c].lock = Free
       /\ IF child[c].status \in Final
            THEN Ends(t) /\ UNCHANGED child
            ELSE /\ child' = [child EXCEPT ![c] = Lock(t, @)]
                 /\ Continues(t, "write")
  /\ UNCHANGED batch

\* recover_expired and expire_due: any live rows that nobody holds (SKIP LOCKED).
BeginSweep(t) ==
  /\ \E S \in SUBSET {c \in Child : child[c].lock = Free /\ child[c].status \notin Final} :
       /\ S # {}
       /\ Begins(t, "write", S)
       /\ child' = [c \in Child |-> IF c \in S THEN Lock(t, child[c]) ELSE child[c]]
  /\ UNCHANGED batch

\* The operation's own change of the row, flushed.
Write(t) ==
  /\ tx[t].at = "write"
  /\ LET c == First(tx[t].todo) IN
       \E status \in Moves(child[c].draft) : child' = [child EXCEPT ![c].draft = status]
  /\ Continues(t, "batch")
  /\ UNCHANGED batch

\* Fault: the batch row is read without a lock.
LockBatchNever(t) ==
  /\ tx[t].at = "batch"
  /\ Continues(t, "aggregate")
  /\ UNCHANGED <<child, batch>>

\* _event: the batch row is locked after the child, never before.
LockBatch(t) ==
  /\ tx[t].at = "batch"
  /\ LET b == BatchOf[First(tx[t].todo)] IN
       /\ batch[b].lock \in {Free, t}
       /\ batch' = [batch EXCEPT ![b] = IF @.lock = Free THEN Lock(t, @) ELSE @]
  /\ Continues(t, "aggregate")
  /\ UNCHANGED child

\* _event: read the children, write the batch row, on to the next child.
ReadSiblings(t) ==
  /\ tx[t].at = "aggregate"
  /\ LET c == First(tx[t].todo)
         b == BatchOf[c]
         rest == tx[t].todo \ {c}
     IN /\ batch' = [batch EXCEPT ![b].draft =
                       Aggregate({Seen(t, child[d]) : d \in ChildrenOf(b)})]
        /\ tx' = [tx EXCEPT ![t] = [at |-> IF rest = {} THEN "commit" ELSE "write", todo |-> rest]]
  /\ UNCHANGED child

Commit(t) ==
  /\ tx[t].at = "commit"
  /\ child' = [c \in Child |-> Publish(t, child[c])]
  /\ batch' = [b \in Batch |-> Publish(t, batch[b])]
  /\ Ends(t)

\* An exception, a lost connection or a killed process.
Rollback(t) ==
  /\ tx[t].at # "idle"
  /\ child' = [c \in Child |-> Release(t, child[c])]
  /\ batch' = [b \in Batch |-> Release(t, batch[b])]
  /\ Ends(t)

-----------------------------------------------------------------------------
(* cancel_request: lock every child in the order of the ids, then the      *)
(* batch, and flag them; no status changes.                                *)

BeginCancel(t) ==
  /\ \E b \in Batch : Begins(t, "cancel", ChildrenOf(b))
  /\ UNCHANGED <<child, batch>>

CancelLocks(t) ==
  /\ tx[t].at = "cancel"
  /\ tx[t].todo # {}
  /\ LET c == First(tx[t].todo) IN
       /\ child[c].lock = Free
       /\ child' = [child EXCEPT ![c] = Lock(t, @)]
       /\ tx' = [tx EXCEPT ![t].todo = @ \ {c}]
  /\ UNCHANGED batch

CancelLocksBatch(t) ==
  /\ tx[t].at = "cancel"
  /\ tx[t].todo = {}
  /\ \E b \in Batch :
       /\ \E c \in ChildrenOf(b) : child[c].lock = t
       /\ batch[b].lock = Free
       /\ batch' = [batch EXCEPT ![b] = Lock(t, @)]
  /\ Continues(t, "commit")
  /\ UNCHANGED child

-----------------------------------------------------------------------------
Init ==
  /\ child = [c \in Child |-> [status |-> "queued", draft |-> "queued", lock |-> Free]]
  /\ batch = [b \in Batch |-> [status |-> "queued", draft |-> "queued", lock |-> Free]]
  /\ tx = [t \in Transaction |-> [at |-> "idle", todo |-> {}]]

Step(t) ==
  \/ BeginEvent(t) \/ LockChild(t) \/ BeginSweep(t) \/ Write(t) \/ LockBatch(t)
  \/ ReadSiblings(t) \/ Commit(t) \/ Rollback(t)
  \/ BeginCancel(t) \/ CancelLocks(t) \/ CancelLocksBatch(t)

Next == \E t \in Transaction : Step(t)

Spec == Init /\ [][Next]_vars

-----------------------------------------------------------------------------
(* Properties.                                                             *)

\* What a batch may say of children with these statuses: it stays "queued"
\* until its first child moved.
Agrees(value, statuses) ==
  \/ value = Aggregate(statuses)
  \/ value = "queued" /\ statuses = {"queued"}

\* After every commit a batch says what its children say, in whatever order
\* the events of its children were interleaved (the comment in _event).
BatchAgreesWithChildren ==
  \A b \in Batch : Agrees(batch[b].status, {child[c].status : c \in ChildrenOf(b)})

\* A batch that was reported completed or failed never changes again.
BatchVerdictIsFinal ==
  [][\A b \in Batch : batch[b].status \in Final => batch'[b].status = batch[b].status]_vars

\* The session t waits for a row that the session u holds.
WaitsFor(t, u) ==
  \/ tx[t].at = "lock" /\ \E c \in tx[t].todo : child[c].lock = u
  \/ tx[t].at = "batch" /\ batch[BatchOf[First(tx[t].todo)]].lock = u
  \/ tx[t].at = "cancel" /\ tx[t].todo # {} /\ child[First(tx[t].todo)].lock = u
  \/ /\ tx[t].at = "cancel" /\ tx[t].todo = {}
     /\ \E b \in Batch : batch[b].lock = u /\ \E c \in ChildrenOf(b) : child[c].lock = t

\* Sessions never wait for one another in a circle: the sweeps go batch by
\* batch, and nobody waits for a child while holding a batch.
NoDeadlock ==
  \A S \in (SUBSET Transaction) \ {{}} :
    \E t \in S : \A u \in S : u # t => ~WaitsFor(t, u)

-----------------------------------------------------------------------------
(* The inductive invariant: what a transaction holds and has drafted at    *)
(* each of its statements.                                                 *)

HeldBy(t) == {c \in Child : child[c].lock = t}
BatchesOf(t) == {b \in Batch : batch[b].lock = t}
AtEvent(t) == tx[t].at \in {"write", "batch", "aggregate"}

\* A session locks in one order: children, then batches, the batches by id.
LocksInOrder(t) ==
  /\ tx[t].at \in {"idle", "lock"} => HeldBy(t) = {}
  /\ tx[t].at \in {"idle", "lock", "cancel"} => BatchesOf(t) = {}
  /\ tx[t].at = "lock" => \E c \in Child : tx[t].todo = {c}
  /\ tx[t].at = "cancel" => \A c \in HeldBy(t), d \in tx[t].todo : Before(c, d)
  /\ AtEvent(t) =>
       /\ tx[t].todo # {}
       /\ tx[t].todo \subseteq HeldBy(t)
       /\ \A b \in BatchesOf(t), c \in tx[t].todo : b <= BatchOf[c]
  /\ tx[t].at = "aggregate" => batch[BatchOf[First(tx[t].todo)]].lock = t

\* What it changed is not final, and no change goes without the batch row,
\* which agrees with the children as the session sees them.
DraftsAgree(t) ==
  /\ tx[t].at = "cancel" => \A c \in HeldBy(t) : child[c].draft = child[c].status
  /\ AtEvent(t) => \A c \in tx[t].todo : child[c].status \notin Final
  /\ \A c \in HeldBy(t) : child[c].draft # child[c].status =>
       /\ child[c].status \notin Final
       /\ \/ batch[BatchOf[c]].lock = t
          \/ tx[t].at = "batch" /\ c = First(tx[t].todo)
  /\ \A b \in BatchesOf(t) :
       \/ Agrees(batch[b].draft, {Seen(t, child[c]) : c \in ChildrenOf(b)})
       \/ tx[t].at \in {"batch", "aggregate"} /\ b = BatchOf[First(tx[t].todo)]

\* Nothing is drafted in a row that nobody holds.
FreeRowsAreClean ==
  /\ \A c \in Child : child[c].lock = Free => child[c].draft = child[c].status
  /\ \A b \in Batch : batch[b].lock = Free => batch[b].draft = batch[b].status

\* What holds after every statement of every transaction: no session has
\* changed a child without answering for its batch.
BatchInv ==
  /\ TypeOK
  /\ BatchAgreesWithChildren
  /\ FreeRowsAreClean
  /\ \A t \in Transaction : LocksInOrder(t) /\ DraftsAgree(t)
=============================================================================
