-------------------------- MODULE CoreEventsProofs --------------------------
(***************************************************************************)
(* Proofs about CoreEvents, for any processors, versions, attempts, events *)
(* and replays: EInv of CoreEventsInvariant is inductive, and the safety   *)
(* properties follow from it.                                              *)
(***************************************************************************)
EXTENDS CoreEventsInvariant, TLAPS

USE ConstantsAssumption DEF ConstantsAssumption

-----------------------------------------------------------------------------
(* Rows.                                                                   *)

LEMMA RowFields ==
  ASSUME NEW r \in Row
  PROVE  /\ r.status \in Waiting \cup {"absent", "running", "processed", "dead"}
         /\ r.attempts \in 0..MaxAttempts
         /\ r.generation \in 0..MaxGeneration
         /\ r.version \in Version \cup {None}
         /\ r.token \in Processor \cup {None}
         /\ r.expired \in BOOLEAN
BY DEF Row

LEMMA NewRows ==
  /\ NoReceipt \in Row /\ NoReceipt.status = "absent" /\ NoReceipt.attempts = 0
  /\ Received \in Row /\ Received.status = "pending" /\ Received.attempts = 0
<1>1. NoReceipt \in Row /\ NoReceipt.status = "absent" /\ NoReceipt.attempts = 0
  BY DEF NoReceipt, Row
<1> QED BY <1>1 DEF Received, Row, Waiting

LEMMA FailedRow ==
  ASSUME NEW r \in Row
  PROVE  /\ Failed(r) \in Row
         /\ Failed(r).attempts = r.attempts
         /\ Failed(r).status = IF IsDead(r) THEN "dead" ELSE "retry"
BY DEF Failed, Row, Waiting

LEMMA DeferredRow ==
  ASSUME NEW r \in Row, r.attempts > 0
  PROVE  /\ Deferred(r) \in Row
         /\ Deferred(r).attempts = r.attempts - 1
         /\ Deferred(r).status = "pending"
<1>1. r.attempts - 1 \in 0..MaxAttempts
  BY DEF Row
<1>2. Deferred(r) = [r EXCEPT !.status = "pending", !.attempts = r.attempts - 1, !.token = None,
                              !.expired = FALSE]
  BY DEF Deferred
<1> QED BY <1>1, <1>2 DEF Row, Waiting

LEMMA RestartedRow ==
  ASSUME NEW r \in Row, NEW g \in 0..MaxGeneration
  PROVE  /\ Restarted(r, g) \in Row
         /\ Restarted(r, g).attempts = 0
         /\ Restarted(r, g).status = "pending"
<1>1. NoReceipt \in Row /\ NoReceipt.attempts = 0
  BY NewRows
<1> QED BY <1>1 DEF Restarted, Row, Waiting

LEMMA PutFacts ==
  ASSUME TypeOK, NEW e \in Event, NEW r \in Row, Put(e, r)
  PROVE  /\ receipt' \in [Event -> Row]
         /\ receipt'[e] = r
         /\ \A d \in Event \ {e} : receipt'[d] = receipt[d]
BY DEF TypeOK, Put

LEMMA Numbers ==
  /\ Event \subseteq Nat /\ 0..MaxEvents \subseteq Nat /\ Event \subseteq 0..MaxEvents
  /\ 0 \notin Event
BY DEF Event

-----------------------------------------------------------------------------
(* Steps that change no receipt, no cursor and no account.                 *)

\* The parts of the invariant that only look at rows.
RowsInv ==
  /\ EffectsInOrder
  /\ BlockedInv
  /\ \A e \in Event : ReceiptInv(e) /\ AccountInv(e) /\ AttemptInv(e)

RowsStay == UNCHANGED <<receipt, completed, blocked, quarantine, attempts, applied, failures, lost>>

LEMMA RowsInvStays == ASSUME RowsInv, RowsStay PROVE RowsInv'
BY DEF RowsInv, RowsStay, EffectsInOrder, BlockedInv, ReceiptInv, AccountInv, AttemptInv

LEMMA ProcessorsStay ==
  ASSUME RunInv, RowsStay, UNCHANGED processor PROVE \A p \in Processor : ProcessorInv(p)'
BY DEF RunInv, RowsStay, ProcessorInv, Missing, Completed

LEMMA Emits == ASSUME RunInv, Emit PROVE RunInv'
<1>1. TypeOK'
  BY DEF RunInv, TypeOK, Emit
<1>2. RowsStay /\ UNCHANGED processor
  BY DEF Emit, RowsStay
<1> QED BY <1>1, <1>2, RowsInvStays, ProcessorsStay DEF RunInv, RowsInv

LEMMA Deploys == ASSUME RunInv, NEW v \in Version \cup {None}, Deploy(v) PROVE RunInv'
<1>1. TypeOK'
  BY DEF RunInv, TypeOK, Deploy
<1>2. RowsStay /\ UNCHANGED processor
  BY DEF Deploy, RowsStay
<1> QED BY <1>1, <1>2, RowsInvStays, ProcessorsStay DEF RunInv, RowsInv

LEMMA Receives ==
  ASSUME RunInv, AcceptFails \/ \E e \in Event : AcceptReads(e) PROVE RunInv'
<1>1. inbox' \in 0..MaxEvents
  BY Numbers DEF AcceptReads, AcceptFails
<1>2. TypeOK'
  BY <1>1 DEF RunInv, TypeOK, AcceptReads, AcceptFails
<1>3. RowsStay /\ UNCHANGED processor
  BY DEF AcceptReads, AcceptFails, RowsStay
<1> QED BY <1>2, <1>3, RowsInvStays, ProcessorsStay DEF RunInv, RowsInv

-----------------------------------------------------------------------------
(* Steps of a processor that only change its position.                     *)

LEMMA PositionFacts ==
  ASSUME RunInv, NEW p \in Processor
  PROVE  /\ processor[p] \in Position
         /\ processor \in [Processor -> Position]
         /\ Idle \in Position
         /\ \A at \in {"claimed", "failing", "alarming", "deferring"} :
              [processor[p] EXCEPT !.at = at] \in Position
<1>1. processor \in [Processor -> Position] /\ processor[p] \in Position
  BY DEF RunInv, TypeOK
<1>2. Idle \in Position
  BY DEF Idle, Position
<1> QED BY <1>1, <1>2 DEF Position

\* Finishing is always allowed.
LEMMA FinishingPosition ==
  ASSUME RunInv, NEW p \in Processor, Finishes(p), NEW q \in Processor
  PROVE  processor'[q] = IF q = p THEN Idle ELSE processor[q]
BY PositionFacts DEF Finishes

LEMMA FinishedProcessors ==
  ASSUME RunInv, NEW p \in Processor, Finishes(p),
         completed' \in Nat, completed' >= completed, lost \subseteq lost',
         \A e \in Event : Missing(e)' => Missing(e) \/ e \in lost' \/ e <= completed'
  PROVE  \A q \in Processor : ProcessorInv(q)'
<1> SUFFICES ASSUME NEW q \in Processor, processor'[q].at # "idle" PROVE ProcessorInv(q)'
  BY DEF ProcessorInv
<1>1. q # p /\ processor'[q] = processor[q]
  BY FinishingPosition DEF Idle
<1>2. ProcessorInv(q) /\ completed \in Nat
  BY DEF RunInv, TypeOK
<1>3. PICK e \in Event : processor[q].event = e
  BY <1>1, <1>2 DEF ProcessorInv
<1>4. e \in Nat /\ e <= completed + 1 /\ (Missing(e) /\ ~Completed(e) => e \in lost)
       /\ (processor[q].at = "alarming" => e \in lost)
  BY <1>1, <1>2, <1>3, Numbers DEF ProcessorInv
<1>5. e <= completed' + 1 /\ (Missing(e)' /\ ~Completed(e)' => e \in lost')
  BY <1>2, <1>4 DEF Completed
<1> QED BY <1>1, <1>3, <1>4, <1>5 DEF ProcessorInv, Missing, Completed

LEMMA LeavesOnly ==
  ASSUME RunInv, NEW p \in Processor, Finishes(p), Stays,
         UNCHANGED <<receipt, completed, blocked, quarantine, attempts, applied, failures>>
  PROVE  RunInv'
<1>1. TypeOK'
  BY PositionFacts DEF RunInv, TypeOK, Finishes, Stays
<1>2. RowsStay
  BY DEF Stays, RowsStay
<1>3. \A q \in Processor : ProcessorInv(q)'
  BY FinishedProcessors DEF RunInv, TypeOK, Stays, Missing
<1> QED BY <1>1, <1>2, <1>3, RowsInvStays DEF RunInv, RowsInv

LEMMA Leaves ==
  ASSUME RunInv, NEW p \in Processor, NEW e \in Event,
         LetsGo(p) \/ DeferGivesUp(p) \/ Dies(p) \/ Stale(p, e)
  PROVE  RunInv'
BY LeavesOnly DEF LetsGo, DeferGivesUp, Dies, Stale

\* A processor goes on with its event, to sound the alarm only if a receipt got lost.
LEMMA GoesOn ==
  ASSUME RunInv, NEW p \in Processor, NEW at \in {"failing", "alarming", "deferring"},
         processor[p].at # "idle", Goes(p, at), Stays,
         at = "alarming" => processor[p].event \in lost,
         UNCHANGED <<receipt, completed, blocked, quarantine, attempts, applied, failures>>
  PROVE  RunInv'
<1>1. TypeOK'
  BY PositionFacts DEF RunInv, TypeOK, Goes, Stays
<1>2. RowsStay
  BY DEF Stays, RowsStay
<1>3. ASSUME NEW q \in Processor PROVE ProcessorInv(q)'
  <2>1. ProcessorInv(q)
    BY DEF RunInv
  <2>2. processor'[q] = IF q = p THEN [processor[p] EXCEPT !.at = at] ELSE processor[q]
    BY PositionFacts DEF Goes
  <2>3. processor'[q].event = processor[q].event
    BY <2>2, PositionFacts DEF Position
  <2>4. processor'[q].at = IF q = p THEN at ELSE processor[q].at
    BY <2>2, PositionFacts DEF Position
  <2> QED BY <1>2, <2>1, <2>3, <2>4 DEF ProcessorInv, RowsStay, Missing, Completed
<1> QED BY <1>1, <1>2, <1>3, RowsInvStays DEF RunInv, RowsInv

LEMMA Proceeds ==
  ASSUME RunInv, NEW p \in Processor, NEW e \in Event,
         HandlerFails(p, e) \/ MissesReceipt(p, e) \/ LockBusy(p, e)
  PROVE  RunInv'
<1>1. CASE HandlerFails(p, e)
  BY <1>1, GoesOn DEF HandlerFails
<1>2. CASE MissesReceipt(p, e)
  <2>1. ProcessorInv(p)
    BY DEF RunInv
  <2> QED BY <1>2, <2>1, GoesOn DEF MissesReceipt, Working, ProcessorInv
<1>3. CASE LockBusy(p, e)
  BY <1>3, GoesOn DEF LockBusy, Working
<1> QED BY <1>1, <1>2, <1>3

LEMMA Picks == ASSUME RunInv, NEW p \in Processor, NEW e \in Event, Pick(p, e) PROVE RunInv'
<1> DEFINE here == [at |-> "picked", event |-> e]
<1>1. here \in Position
  BY Numbers DEF Position
<1>2. TypeOK'
  BY <1>1 DEF RunInv, TypeOK, Pick, Stays
<1>3. RowsStay
  BY DEF Pick, Stays, RowsStay
<1>4. ASSUME NEW q \in Processor PROVE ProcessorInv(q)'
  <2>1. ProcessorInv(q)
    BY DEF RunInv
  <2>2. processor'[q] = IF q = p THEN here ELSE processor[q]
    BY PositionFacts DEF Pick
  <2>3. ~Missing(e) /\ e = completed + 1 /\ completed \in Nat
    BY DEF RunInv, TypeOK, Pick, Due, Missing, IsNext, Waiting
  <2> QED BY <1>3, <2>1, <2>2, <2>3, Numbers DEF ProcessorInv, RowsStay, Missing, Completed
<1> QED BY <1>2, <1>3, <1>4, RowsInvStays DEF RunInv, RowsInv

-----------------------------------------------------------------------------
(* Steps that change the rows of one event.                                *)

EventInv(e) == ReceiptInv(e) /\ AccountInv(e) /\ AttemptInv(e)

\* The other events do not notice: only the next event of a run is being processed.
LEMMA OtherEvents ==
  ASSUME RunInv, TypeOK', NEW e \in Event, NEW d \in Event \ {e},
         receipt'[d] = receipt[d], failures'[d] = failures[d],
         attempts'[d] = attempts[d], quarantine'[d] = quarantine[d],
         lost \subseteq lost', completed' >= completed,
         \/ completed' = completed /\ blocked' \in {blocked, 0}
         \/ receipt[e].status = "running"
  PROVE  EventInv(d)'
<1>1. EventInv(d) /\ ReceiptInv(e)
  BY DEF RunInv, EventInv
<1>2. completed \in Nat /\ completed' \in Nat /\ d \in Nat /\ e \in Nat
  BY Numbers DEF RunInv, TypeOK
<1>3. ReceiptInv(d)'
  BY <1>1, <1>2 DEF EventInv, ReceiptInv
<1>4. AccountInv(d)' /\ AttemptInv(d)'
  BY <1>1 DEF EventInv, AccountInv, AttemptInv
<1> QED BY <1>3, <1>4 DEF EventInv

LEMMA Types ==
  ASSUME RunInv
  PROVE  /\ TypeOK
         /\ \A e \in Event : receipt[e] \in Row /\ EventInv(e)
         /\ \A p \in Processor : ProcessorInv(p)
         /\ completed \in Nat /\ blocked \in 0..MaxEvents
BY DEF RunInv, TypeOK, EventInv

\* The quarantine of an event that is known to be damaged.
LEMMA QuarantinesDamaged ==
  ASSUME RunInv, NEW e \in Event, Quarantines(e), e \in lost',
         lost \subseteq lost', lost' \subseteq Event,
         UNCHANGED <<tail, inbox, replays, handler>>,
         UNCHANGED processor \/ \E p \in Processor : Finishes(p)
  PROVE  RunInv'
<1>1. processor' \in [Processor -> Position]
  BY PositionFacts DEF RunInv, TypeOK, Finishes
<1>2. TypeOK'
  BY <1>1 DEF RunInv, TypeOK, Quarantines
<1>3. ASSUME NEW d \in Event \ {e} PROVE EventInv(d)'
  <2>1. attempts'[d] = attempts[d] /\ quarantine'[d] = quarantine[d]
    BY DEF RunInv, TypeOK, Quarantines
  <2> QED BY <1>2, <2>1, OtherEvents, Types DEF Quarantines
<1>4. EventInv(e)'
  <2>1. EventInv(e)
    BY Types
  <2> QED BY <2>1 DEF EventInv, ReceiptInv, AccountInv, AttemptInv, Quarantines
<1>5. ASSUME NEW q \in Processor PROVE ProcessorInv(q)'
  <2>1. CASE UNCHANGED processor
    BY <2>1, Types DEF Quarantines, ProcessorInv, Missing, Completed
  <2>2. CASE \E p \in Processor : Finishes(p)
    <3>1. PICK p \in Processor : Finishes(p)
      BY <2>2
    <3> QED BY <3>1, FinishedProcessors, Types DEF Quarantines, Missing
  <2> QED BY <2>1, <2>2
<1> QED BY <1>2, <1>3, <1>4, <1>5 DEF RunInv, EventInv, Quarantines, EffectsInOrder, BlockedInv

LEMMA Quarantining ==
  ASSUME RunInv, NEW p \in Processor, NEW e \in Event,
         ClaimQuarantines(p, e) \/ RaisesAlarm(p, e) \/ DeferQuarantines(p, e)
  PROVE  RunInv'
<1> USE Types
<1>1. CASE ClaimQuarantines(p, e)
  <2>1. e \in lost
    BY <1>1 DEF ClaimQuarantines, Candidate, ProcessorInv
  <2> QED BY <1>1, <2>1, QuarantinesDamaged DEF ClaimQuarantines, Stays, TypeOK
<1>2. CASE RaisesAlarm(p, e)
  <2>1. e \in lost
    BY <1>2 DEF RaisesAlarm, ProcessorInv
  <2> QED BY <1>2, <2>1, QuarantinesDamaged DEF RaisesAlarm, Stays, TypeOK
<1>3. CASE DeferQuarantines(p, e)
  <2>1. e \in lost
    BY <1>3 DEF DeferQuarantines, ProcessorInv
  <2> QED BY <1>3, <2>1, QuarantinesDamaged DEF DeferQuarantines, Stays, TypeOK
<1> QED BY <1>1, <1>2, <1>3

LEMMA Watching ==
  ASSUME RunInv, NEW e \in Event, Watchdog(e) \/ ReplayQuarantines(e) PROVE RunInv'
<1>1. e \in lost'
  BY Types DEF Watchdog, ReplayQuarantines, Stays, EventInv, AttemptInv, Missing
<1> QED BY <1>1, Types, QuarantinesDamaged DEF Watchdog, ReplayQuarantines, Stays, TypeOK

\* A step that writes one row and leaves the cursor and the dead letter alone.
LEMMA WritesRow ==
  ASSUME RunInv, TypeOK', NEW e \in Event, NEW r \in Row, Put(e, r), EventInv(e)',
         \A d \in Event \ {e} : /\ failures'[d] = failures[d]
                               /\ attempts'[d] = attempts[d]
                               /\ quarantine'[d] = quarantine[d],
         UNCHANGED <<completed, applied>>, blocked' \in {blocked, 0}, lost \subseteq lost',
         r.status = "absent" => receipt[e].status = "processed" \/ e \in lost',
         UNCHANGED processor \/ \E p \in Processor : Finishes(p)
  PROVE  RunInv'
<1>1. \A d \in Event \ {e} : receipt'[d] = receipt[d]
  BY PutFacts, Types
<1>2. ASSUME NEW d \in Event \ {e} PROVE EventInv(d)'
  BY <1>1, OtherEvents, Types
<1>3. \A d \in Event : Missing(d)' => Missing(d) \/ d \in lost' \/ d <= completed'
  <2>1. Missing(e)' => receipt[e].status = "processed" \/ e \in lost'
    BY PutFacts, Types DEF Missing
  <2>2. receipt[e].status = "processed" => e <= completed
    BY Types DEF EventInv, ReceiptInv
  <2> QED BY <1>1, <2>1, <2>2 DEF Missing
<1>4. ASSUME NEW q \in Processor PROVE ProcessorInv(q)'
  <2>1. CASE UNCHANGED processor
    <3>1. ProcessorInv(q)
      BY Types
    <3>2. CASE processor[q].at = "idle"
      BY <2>1, <3>2 DEF ProcessorInv
    <3>3. CASE processor[q].at # "idle"
      <4>1. PICK d \in Event : processor[q].event = d
        BY <3>1, <3>3 DEF ProcessorInv
      <4>2. d <= completed + 1 /\ (Missing(d)' /\ ~Completed(d)' => d \in lost')
             /\ (processor[q].at = "alarming" => d \in lost)
        BY <1>3, <3>1, <3>3, <4>1 DEF ProcessorInv, Completed
      <4> QED BY <2>1, <4>1, <4>2 DEF ProcessorInv, Missing, Completed
    <3> QED BY <3>2, <3>3
  <2>2. CASE \E p \in Processor : Finishes(p)
    <3>1. PICK p \in Processor : Finishes(p)
      BY <2>2
    <3> QED BY <1>3, <3>1, FinishedProcessors, Types
  <2> QED BY <2>1, <2>2
<1>5. BlockedInv' /\ EffectsInOrder'
  BY DEF RunInv, BlockedInv, EffectsInOrder
<1> QED BY <1>2, <1>4, <1>5 DEF RunInv, EventInv

LEMMA Inserts == ASSUME RunInv, NEW e \in Event, AcceptInserts(e) PROVE RunInv'
<1> USE Types
<1>1. CASE Missing(e)
  <2>1. Put(e, Received) /\ failures' = [failures EXCEPT ![e] = 0]
        /\ inbox' = 0 /\ UNCHANGED <<tail, completed, blocked, quarantine, attempts, replays,
                                     handler, processor, applied, lost>>
    BY <1>1 DEF AcceptInserts
  <2>2. receipt' \in [Event -> Row] /\ receipt'[e] = Received
    BY <2>1, NewRows, PutFacts
  <2>3. TypeOK'
    <3>1. failures' \in [Event -> 0..MaxAttempts]
      BY <2>1 DEF TypeOK
    <3>2. inbox' \in 0..MaxEvents
      BY <2>1
    <3> QED BY <2>1, <2>2, <3>1, <3>2 DEF TypeOK
  <2>4. failures'[e] = 0 /\ \A d \in Event \ {e} : failures'[d] = failures[d]
    BY <2>1 DEF TypeOK
  <2>5. EventInv(e)'
    <3>1. EventInv(e) /\ receipt[e].status = "absent"
      BY <1>1 DEF Missing
    <3>2. receipt'[e].status = "pending" /\ receipt'[e].attempts = 0 /\ failures'[e] = 0
      BY <2>2, <2>4, NewRows
    <3>3. ReceiptInv(e)' /\ AccountInv(e)'
      BY <3>2 DEF ReceiptInv, AccountInv, Waiting
    <3>4. AttemptInv(e)'
      BY <2>1, <3>1, <3>2 DEF EventInv, AttemptInv
    <3> QED BY <3>3, <3>4 DEF EventInv
  <2> QED BY <2>1, <2>3, <2>4, <2>5, NewRows, WritesRow
<1>2. CASE ~Missing(e)
  <2>1. RowsStay /\ UNCHANGED processor
    BY <1>2 DEF AcceptInserts, RowsStay
  <2>2. TypeOK'
    BY <1>2 DEF AcceptInserts, TypeOK
  <2> QED BY <2>1, <2>2, RowsInvStays, ProcessorsStay DEF RunInv, RowsInv
<1> QED BY <1>1, <1>2

LEMMA Awaits == ASSUME RunInv, NEW p \in Processor, NEW e \in Event, AwaitHandler(p, e) PROVE RunInv'
<1> USE Types
<1> DEFINE r == [receipt[e] EXCEPT !.status = "waiting_handler"]
<1>1. r \in Row /\ r.status = "waiting_handler" /\ r.attempts = receipt[e].attempts
  BY DEF Row, Waiting
<1>2. Put(e, r) /\ Finishes(p) /\ Stays /\ receipt[e].status \in Waiting
      /\ UNCHANGED <<completed, blocked, quarantine, attempts, applied, failures>>
  BY DEF AwaitHandler, Claimable
<1> HIDE DEF r
<1>3. receipt' \in [Event -> Row] /\ receipt'[e] = r
  BY <1>1, <1>2, PutFacts
<1>4. TypeOK'
  BY <1>2, <1>3, PositionFacts DEF TypeOK, Finishes, Stays
<1>5. EventInv(e)'
  BY <1>1, <1>2, <1>3 DEF EventInv, ReceiptInv, AccountInv, AttemptInv, Waiting, Stays
<1> QED BY <1>1, <1>2, <1>4, <1>5, WritesRow DEF Stays

LEMMA Expires == ASSUME RunInv, NEW e \in Event, LeaseExpires(e) PROVE RunInv'
<1> USE Types
<1> DEFINE r == [receipt[e] EXCEPT !.expired = TRUE]
<1>1. r \in Row /\ r.status = "running" /\ r.attempts = receipt[e].attempts
      /\ r.token = receipt[e].token
  BY DEF Row, LeaseExpires
<1>2. Put(e, r) /\ Stays /\ receipt[e].status = "running"
      /\ UNCHANGED <<completed, blocked, quarantine, attempts, processor, applied, failures>>
  BY DEF LeaseExpires
<1> HIDE DEF r
<1>3. receipt' \in [Event -> Row] /\ receipt'[e] = r
  BY <1>1, <1>2, PutFacts
<1>4. TypeOK'
  BY <1>2, <1>3 DEF TypeOK, Stays
<1>5. EventInv(e)'
  BY <1>1, <1>2, <1>3 DEF EventInv, ReceiptInv, AccountInv, AttemptInv, Waiting, Stays
<1> QED BY <1>1, <1>2, <1>4, <1>5, WritesRow DEF Stays

LEMMA Disappears ==
  ASSUME RunInv, NEW e \in Event, CleanReceipt(e) \/ LoseReceipt(e) PROVE RunInv'
<1> USE Types
<1>1. Put(e, NoReceipt) /\ lost' \in {lost, lost \cup {e}}
      /\ (receipt[e].status = "processed" \/ e \in lost')
      /\ UNCHANGED <<tail, inbox, completed, blocked, quarantine, attempts, replays, handler,
                     processor, applied, failures>>
  BY DEF CleanReceipt, LoseReceipt, Stays
<1>2. receipt' \in [Event -> Row] /\ receipt'[e] = NoReceipt
  BY <1>1, NewRows, PutFacts
<1>3. TypeOK'
  BY <1>1, <1>2 DEF TypeOK
<1>4. EventInv(e)'
  BY <1>1, <1>2, NewRows DEF EventInv, ReceiptInv, AccountInv, AttemptInv, Waiting
<1> QED BY <1>1, <1>3, <1>4, NewRows, WritesRow

-----------------------------------------------------------------------------
(* Claims, failures, deferrals and replays.                                *)

LEMMA RunningFacts ==
  ASSUME RunInv, NEW e \in Event, receipt[e].status = "running"
  PROVE  /\ EventInv(e) /\ e = completed + 1 /\ blocked = 0
         /\ receipt[e].attempts = failures[e] + 1 /\ failures[e] \in Nat
         /\ receipt[e].attempts \in 0..MaxAttempts
<1>1. EventInv(e) /\ failures[e] \in Nat
  BY Types DEF TypeOK
<1>2. receipt[e].attempts \in 0..MaxAttempts
  BY Types, RowFields
<1>3. e = completed + 1 /\ blocked = 0
  BY <1>1 DEF EventInv, ReceiptInv
<1>4. receipt[e].attempts = failures[e] + 1
  BY <1>1 DEF EventInv, AccountInv
<1> QED BY <1>1, <1>2, <1>3, <1>4

LEMMA Claiming == ASSUME RunInv, NEW p \in Processor, NEW e \in Event, Claim(p, e) PROVE RunInv'
<1> USE Types
<1> DEFINE r == [receipt[e] EXCEPT !.status = "running", !.version = handler, !.token = p,
                                   !.attempts = receipt[e].attempts + 1]
<1>1. /\ Put(e, r) /\ Goes(p, "claimed") /\ Stays
      /\ attempts' = [attempts EXCEPT ![e] = @ \cup {p}]
      /\ UNCHANGED <<completed, blocked, quarantine, applied, failures>>
  BY DEF Claim
<1>2. /\ processor[p] = [at |-> "picked", event |-> e] /\ e > completed /\ blocked = 0
      /\ receipt[e].status \in Waiting /\ handler # None
  BY DEF Claim, Claimable, Candidate, Completed, Handles, TypeOK, Event
<1>3. receipt[e].attempts + 1 \in 0..MaxAttempts
  BY <1>2, RowFields DEF EventInv, ReceiptInv
<1>4. r \in Row /\ r.status = "running" /\ r.attempts = receipt[e].attempts + 1 /\ r.token = p
  BY <1>3 DEF Row, TypeOK
<1> HIDE DEF r
<1>5. receipt' \in [Event -> Row] /\ receipt'[e] = r
      /\ \A d \in Event \ {e} : receipt'[d] = receipt[d]
  BY <1>1, <1>4, PutFacts
<1>6. TypeOK'
  <2>1. processor' \in [Processor -> Position]
    BY <1>1, PositionFacts DEF Goes
  <2>2. attempts' \in [Event -> SUBSET Processor]
    BY <1>1 DEF TypeOK
  <2> QED BY <1>1, <1>5, <2>1, <2>2 DEF TypeOK, Stays
<1>7. EventInv(e)'
  <2>1. EventInv(e) /\ receipt[e].status \notin {"absent", "processed", "running", "dead"}
    BY <1>2 DEF Waiting
  <2>2. e = completed + 1
    BY <1>2, Numbers DEF ProcessorInv
  <2>3. ReceiptInv(e)'
    BY <1>1, <1>2, <1>4, <1>5, <2>2 DEF ReceiptInv, Waiting
  <2>4. failures[e] \in Nat /\ receipt[e].attempts = failures[e]
    BY <2>1 DEF EventInv, AccountInv, TypeOK
  <2>5. AccountInv(e)'
    BY <1>1, <1>4, <1>5, <2>4 DEF AccountInv
  <2>6. attempts'[e] = attempts[e] \cup {p}
    BY <1>1 DEF TypeOK
  <2>7. AttemptInv(e)'
    BY <1>1, <1>4, <1>5, <2>1, <2>6 DEF EventInv, AttemptInv, Stays
  <2> QED BY <2>3, <2>5, <2>7 DEF EventInv
<1>8. ASSUME NEW d \in Event \ {e} PROVE EventInv(d)'
  <2>1. attempts'[d] = attempts[d]
    BY <1>1 DEF TypeOK
  <2> QED BY <1>1, <1>5, <1>6, <2>1, OtherEvents DEF Stays
<1>9. ASSUME NEW q \in Processor PROVE ProcessorInv(q)'
  <2>1. ProcessorInv(q)
    OBVIOUS
  <2>2. processor'[q].event = processor[q].event
        /\ processor'[q].at = IF q = p THEN "claimed" ELSE processor[q].at
    BY <1>1, PositionFacts DEF Goes, Position
  <2>3. processor[p].at # "idle"
    BY <1>2
  <2>4. CASE processor[q].at = "idle"
    BY <2>2, <2>3, <2>4 DEF ProcessorInv
  <2>5. CASE processor[q].at # "idle"
    <3>1. PICK d \in Event : processor[q].event = d
      BY <2>1, <2>5 DEF ProcessorInv
    <3>2. Missing(d)' => Missing(d)
      BY <1>4, <1>5 DEF Missing
    <3> QED BY <1>1, <2>1, <2>2, <2>5, <3>1, <3>2 DEF ProcessorInv, Missing, Completed, Stays
  <2> QED BY <2>4, <2>5
<1> QED BY <1>1, <1>6, <1>7, <1>8, <1>9 DEF RunInv, EventInv, BlockedInv, EffectsInOrder

LEMMA Failing ==
  ASSUME RunInv, NEW p \in Processor, NEW e \in Event, Abandon(p, e) \/ RecordFailure(p, e)
  PROVE  RunInv'
<1> USE Types
<1> DEFINE r == Failed(receipt[e])
<1>1. Fails(e) /\ Finishes(p) /\ Stays /\ receipt[e].status = "running"
  BY DEF Abandon, RecordFailure, Loads, OwnReceipt
<1>2. /\ Put(e, r) /\ blocked' = IF IsDead(receipt[e]) THEN e ELSE blocked
      /\ attempts' = [attempts EXCEPT ![e] = @ \ {receipt[e].token}]
      /\ failures' = [failures EXCEPT ![e] = @ + 1]
      /\ UNCHANGED <<completed, quarantine, applied>>
  BY <1>1 DEF Fails
<1>3. EventInv(e) /\ e = completed + 1 /\ blocked = 0
      /\ receipt[e].attempts = failures[e] + 1 /\ failures[e] \in Nat
      /\ receipt[e].attempts \in 0..MaxAttempts
  BY <1>1, RunningFacts
<1>4. r \in Row /\ r.attempts = receipt[e].attempts
      /\ r.status = IF receipt[e].attempts >= MaxAttempts THEN "dead" ELSE "retry"
  BY FailedRow DEF IsDead
<1> HIDE DEF r
<1>5. receipt' \in [Event -> Row] /\ receipt'[e] = r
      /\ \A d \in Event \ {e} : receipt'[d] = receipt[d]
  BY <1>2, <1>4, PutFacts
<1>6. failures'[e] = failures[e] + 1 /\ attempts'[e] = attempts[e] \ {receipt[e].token}
  BY <1>2 DEF TypeOK
<1>7. TypeOK'
  <2>1. failures' \in [Event -> 0..MaxAttempts]
    BY <1>2, <1>3 DEF TypeOK
  <2>2. attempts' \in [Event -> SUBSET Processor] /\ blocked' \in 0..MaxEvents
    BY <1>2, Numbers DEF TypeOK
  <2> QED BY <1>1, <1>2, <1>5, <2>1, <2>2, PositionFacts DEF TypeOK, Finishes, Stays
<1>8. EventInv(e)'
  <2>1. ReceiptInv(e)'
    BY <1>3, <1>4, <1>5 DEF ReceiptInv, Waiting
  <2>2. AccountInv(e)'
    BY <1>3, <1>4, <1>5, <1>6 DEF AccountInv
  <2>3. AttemptInv(e)'
    BY <1>1, <1>2, <1>3, <1>4, <1>5, <1>6 DEF EventInv, AttemptInv, Stays
  <2> QED BY <2>1, <2>2, <2>3 DEF EventInv
<1>9. ASSUME NEW d \in Event \ {e} PROVE EventInv(d)'
  <2>1. attempts'[d] = attempts[d] /\ failures'[d] = failures[d]
    BY <1>2 DEF TypeOK
  <2> QED BY <1>1, <1>2, <1>5, <1>7, <2>1, OtherEvents DEF Stays
<1>10. \A q \in Processor : ProcessorInv(q)'
  <2>1. \A d \in Event : Missing(d)' => Missing(d)
    BY <1>4, <1>5 DEF Missing
  <2> QED BY <1>1, <1>2, <2>1, FinishedProcessors DEF Stays
<1>11. BlockedInv' /\ EffectsInOrder'
  BY <1>2, <1>3 DEF RunInv, BlockedInv, EffectsInOrder
<1> QED BY <1>7, <1>8, <1>9, <1>10, <1>11 DEF RunInv, EventInv

LEMMA Defers == ASSUME RunInv, NEW p \in Processor, NEW e \in Event, Defer(p, e) PROVE RunInv'
<1> USE Types
<1> DEFINE r == Deferred(receipt[e])
<1>1. /\ Put(e, r) /\ Finishes(p) /\ Stays
      /\ attempts' = [attempts EXCEPT ![e] = @ \ {p}]
      /\ UNCHANGED <<completed, blocked, quarantine, applied, failures>>
      /\ receipt[e].status = "running" /\ receipt[e].token = p
  BY DEF Defer, OwnReceipt
<1>2. EventInv(e) /\ receipt[e].attempts = failures[e] + 1 /\ failures[e] \in Nat
      /\ receipt[e].attempts \in 0..MaxAttempts
  BY <1>1, RunningFacts
<1>3. r \in Row /\ r.attempts = receipt[e].attempts - 1 /\ r.status = "pending"
  BY <1>2, DeferredRow
<1> HIDE DEF r
<1>4. receipt' \in [Event -> Row] /\ receipt'[e] = r
  BY <1>1, <1>3, PutFacts
<1>5. attempts'[e] = attempts[e] \ {p}
      /\ \A d \in Event \ {e} : attempts'[d] = attempts[d]
  BY <1>1 DEF TypeOK
<1>6. TypeOK'
  <2>1. attempts' \in [Event -> SUBSET Processor]
    BY <1>1 DEF TypeOK
  <2> QED BY <1>1, <1>4, <2>1, PositionFacts DEF TypeOK, Finishes, Stays
<1>7. EventInv(e)'
  <2>1. ReceiptInv(e)' /\ AccountInv(e)'
    BY <1>1, <1>2, <1>3, <1>4 DEF ReceiptInv, AccountInv, Waiting
  <2>2. AttemptInv(e)'
    BY <1>1, <1>2, <1>3, <1>4, <1>5 DEF EventInv, AttemptInv, Stays
  <2> QED BY <2>1, <2>2 DEF EventInv
<1> QED BY <1>1, <1>3, <1>5, <1>6, <1>7, WritesRow DEF Stays

LEMMA Restarts ==
  ASSUME RunInv, NEW e \in Event, NEW g \in 1..MaxGeneration, Replays(e, g),
         quarantine' \in [Event -> {"none", "open", "resolved"}],
         \A d \in Event \ {e} : quarantine'[d] = quarantine[d],
         e \in lost \/ (receipt[e].status = "dead" /\ quarantine'[e] = quarantine[e])
  PROVE  RunInv'
<1> USE Types
<1> DEFINE r == Restarted(receipt[e], g)
<1>1. /\ Put(e, r) /\ blocked' = 0 /\ failures' = [failures EXCEPT ![e] = 0]
      /\ replays' = [replays EXCEPT ![e] = g]
      /\ UNCHANGED <<tail, inbox, completed, attempts, handler, processor, applied, lost>>
  BY DEF Replays
<1>2. r \in Row /\ r.attempts = 0 /\ r.status = "pending"
  BY RestartedRow
<1> HIDE DEF r
<1>3. receipt' \in [Event -> Row] /\ receipt'[e] = r
  BY <1>1, <1>2, PutFacts
<1>4. failures'[e] = 0 /\ \A d \in Event \ {e} : failures'[d] = failures[d]
  BY <1>1 DEF TypeOK
<1>5. TypeOK'
  <2>1. failures' \in [Event -> 0..MaxAttempts] /\ replays' \in [Event -> 0..MaxGeneration]
    BY <1>1 DEF TypeOK
  <2> QED BY <1>1, <1>3, <2>1 DEF TypeOK
<1>6. EventInv(e)'
  <2>1. ReceiptInv(e)' /\ AccountInv(e)'
    BY <1>1, <1>2, <1>3, <1>4 DEF ReceiptInv, AccountInv, Waiting
  <2>2. AttemptInv(e)'
    BY <1>1, <1>2, <1>3 DEF EventInv, AttemptInv
  <2> QED BY <2>1, <2>2 DEF EventInv
<1> QED BY <1>1, <1>2, <1>4, <1>5, <1>6, WritesRow

LEMMA Replaying ==
  ASSUME RunInv, NEW e \in Event, Replay(e) \/ ReplayQuarantine(e) PROVE RunInv'
<1> USE Types
<1>1. receipt[e].generation + 1 \in Nat \ {0} /\ replays[e] + 1 \in Nat \ {0}
  BY RowFields DEF TypeOK
<1>2. CASE Replay(e)
  <2> DEFINE g == receipt[e].generation + 1
  <2>1. Replays(e, g) /\ g \in 1..MaxGeneration /\ receipt[e].status = "dead"
        /\ UNCHANGED quarantine
    BY <1>1, <1>2 DEF Replay, MayReplay, Replays
  <2> HIDE DEF g
  <2> QED BY <2>1, Restarts DEF TypeOK
<1>3. CASE ReplayQuarantine(e)
  <2> DEFINE g == RestartGeneration(e)
  <2>1. g \in Nat \ {0}
    BY <1>1 DEF RestartGeneration
  <2>2. Replays(e, g) /\ g \in 1..MaxGeneration
    BY <1>3, <2>1 DEF ReplayQuarantine, Replays
  <2>3. e \in lost /\ quarantine' = [quarantine EXCEPT ![e] = "resolved"]
    BY <1>3 DEF ReplayQuarantine, MayReplayQuarantine, EventInv, AttemptInv
  <2> HIDE DEF g
  <2> QED BY <2>2, <2>3, Restarts DEF TypeOK
<1> QED BY <1>2, <1>3

\* The one step that moves the cursor.
LEMMA Applies == ASSUME RunInv, NEW p \in Processor, NEW e \in Event, Apply(p, e) PROVE RunInv'
<1> USE Types
<1> DEFINE r == [receipt[e] EXCEPT !.status = "processed", !.token = None, !.expired = FALSE]
<1>1. /\ Put(e, r) /\ completed' = e /\ Finishes(p) /\ applied' = Append(applied, e)
      /\ attempts' = [attempts EXCEPT ![e] = @ \ {p}]
      /\ tail' \in 0..MaxEvents
      /\ UNCHANGED <<inbox, blocked, quarantine, replays, handler, failures, lost>>
      /\ receipt[e].status = "running" /\ receipt[e].token = p
  BY DEF Apply, Loads, OwnReceipt, TypeOK
<1>2. EventInv(e) /\ e = completed + 1 /\ blocked = 0
  BY <1>1, RunningFacts
<1>3. r \in Row /\ r.status = "processed"
  BY DEF Row
<1> HIDE DEF r
<1>4. receipt' \in [Event -> Row] /\ receipt'[e] = r
      /\ \A d \in Event \ {e} : receipt'[d] = receipt[d]
  BY <1>1, <1>3, PutFacts
<1>5. attempts'[e] = attempts[e] \ {p}
      /\ \A d \in Event \ {e} : attempts'[d] = attempts[d]
  BY <1>1 DEF TypeOK
<1>6. TypeOK'
  <2>1. attempts' \in [Event -> SUBSET Processor]
    BY <1>1 DEF TypeOK
  <2>2. applied' \in Seq(Event) /\ completed' \in 0..MaxEvents
    BY <1>1, Numbers DEF TypeOK
  <2> QED BY <1>1, <1>4, <2>1, <2>2, PositionFacts DEF TypeOK, Finishes
<1>7. EventInv(e)'
  <2>1. ReceiptInv(e)' /\ AccountInv(e)'
    BY <1>1, <1>3, <1>4, Numbers DEF ReceiptInv, AccountInv, Waiting
  <2>2. AttemptInv(e)'
    BY <1>1, <1>2, <1>3, <1>4, <1>5 DEF EventInv, AttemptInv
  <2> QED BY <2>1, <2>2 DEF EventInv
<1>8. ASSUME NEW d \in Event \ {e} PROVE EventInv(d)'
  BY <1>1, <1>2, <1>4, <1>5, <1>6, OtherEvents
<1>9. \A q \in Processor : ProcessorInv(q)'
  <2>1. \A d \in Event : Missing(d)' => Missing(d)
    BY <1>3, <1>4 DEF Missing
  <2> QED BY <1>1, <1>2, <2>1, FinishedProcessors
<1>10. BlockedInv' /\ EffectsInOrder'
  <2>1. applied \in Seq(Event) /\ EffectsInOrder
    BY DEF RunInv, TypeOK
  <2>2. Len(applied') = Len(applied) + 1 /\ Len(applied) = completed
        /\ \A i \in 1..Len(applied') : applied'[i] = IF i <= Len(applied) THEN applied[i] ELSE e
    BY <1>1, <2>1 DEF EffectsInOrder
  <2>3. EffectsInOrder'
    BY <1>1, <1>2, <2>1, <2>2 DEF EffectsInOrder
  <2> QED BY <1>1, <1>2, <2>3 DEF BlockedInv
<1> QED BY <1>6, <1>7, <1>8, <1>9, <1>10 DEF RunInv, EventInv

-----------------------------------------------------------------------------
(* The invariant.                                                          *)

LEMMA InitRunInv == Init => RunInv
<1> SUFFICES ASSUME Init PROVE RunInv
  OBVIOUS
<1>1. TypeOK
  <2>1. Idle \in Position
    BY DEF Idle, Position
  <2>2. applied \in Seq(Event)
    BY DEF Init
  <2> QED BY <2>1, <2>2, NewRows DEF Init, TypeOK
<1>2. ASSUME NEW e \in Event PROVE EventInv(e)
  <2>1. receipt[e].status = "absent" /\ attempts[e] = {} /\ quarantine[e] = "none"
    BY NewRows DEF Init
  <2> QED BY <2>1 DEF EventInv, ReceiptInv, AccountInv, AttemptInv, Waiting
<1>3. ASSUME NEW p \in Processor PROVE ProcessorInv(p)
  BY DEF Init, Idle, ProcessorInv
<1>4. EffectsInOrder /\ BlockedInv
  BY DEF Init, EffectsInOrder, BlockedInv
<1> QED BY <1>1, <1>2, <1>3, <1>4 DEF RunInv, EventInv

LEMMA StepRunInv == RunInv /\ [Next]_vars => RunInv'
<1> SUFFICES ASSUME RunInv, [Next]_vars PROVE RunInv'
  OBVIOUS
<1>1. CASE Emit
  BY <1>1, Emits
<1>2. CASE AcceptFails
  BY <1>2, Receives
<1>3. ASSUME NEW e \in Event,
             \/ AcceptReads(e) \/ AcceptInserts(e) \/ LeaseExpires(e) \/ CleanReceipt(e)
             \/ LoseReceipt(e) \/ Replay(e) \/ ReplayQuarantine(e)
      PROVE  RunInv'
  BY <1>3, Receives, Inserts, Expires, Disappears, Replaying
<1>4. ASSUME NEW e \in Event, Watchdog(e) \/ ReplayQuarantines(e) PROVE RunInv'
  BY <1>4, Watching
<1>5. ASSUME NEW p \in Processor, NEW e \in Event, Claims(p, e) PROVE RunInv'
  BY <1>5, Picks, Quarantining, Failing, Awaits, Claiming DEF Claims
<1>6. ASSUME NEW p \in Processor, NEW e \in Event, Executes(p, e) PROVE RunInv'
  BY <1>6, Applies, Proceeds, Failing, Leaves, Quarantining, Defers DEF Executes
<1>7. ASSUME NEW p \in Processor, LetsGo(p) \/ DeferGivesUp(p) \/ Dies(p) PROVE RunInv'
  BY <1>7, LeavesOnly DEF LetsGo, DeferGivesUp, Dies
<1>8. ASSUME NEW v \in Version \cup {None}, Deploy(v) PROVE RunInv'
  BY <1>8, Deploys
<1>9. CASE UNCHANGED vars
  BY <1>9 DEF vars, RunInv, TypeOK, EffectsInOrder, BlockedInv, ReceiptInv, AccountInv,
             AttemptInv, ProcessorInv, Missing, Completed
<1> QED BY <1>1, <1>2, <1>3, <1>4, <1>5, <1>6, <1>7, <1>8, <1>9 DEF Next, Operates

-----------------------------------------------------------------------------
(* Nothing knows of an event before it is committed.                       *)

Known(e) == ~Missing(e) \/ e \in lost

\* The three ways in which a step keeps that.
LEMMA StillCommitted ==
  ASSUME RunInv, CommittedInv, tail' >= tail, tail' \in 0..MaxEvents, inbox' \in {0, inbox},
         \A e \in Event : Known(e)' => Known(e) \/ e <= tail,
         \A p \in Processor : processor'[p].event \in {0, processor[p].event}
  PROVE  CommittedInv'
<1>1. tail \in Nat /\ tail' \in Nat /\ inbox \in Nat /\ inbox' <= tail
  BY Types DEF TypeOK, CommittedInv
<1>2. ASSUME NEW e \in Event, Known(e)' PROVE e <= tail'
  <2>1. e \in Nat /\ e <= tail
    BY <1>2, Numbers DEF CommittedInv, Known
  <2> QED BY <1>1, <2>1
<1>3. ASSUME NEW p \in Processor PROVE processor'[p].event <= tail'
  <2>1. processor[p].event <= tail
    BY DEF CommittedInv
  <2>2. processor[p].event \in 0..MaxEvents
    BY PositionFacts DEF Position
  <2> QED BY <1>1, <2>1, <2>2
<1> QED BY <1>1, <1>2, <1>3 DEF CommittedInv, Known

LEMMA ProcessorEvents ==
  ASSUME RunInv, NEW p \in Processor, NEW q \in Processor,
         \/ UNCHANGED processor \/ Finishes(p)
         \/ \E at \in {"claimed", "failing", "alarming", "deferring"} : Goes(p, at)
  PROVE  processor'[q].event \in {0, processor[q].event}
<1>1. CASE Finishes(p)
  BY <1>1, FinishingPosition DEF Idle
<1>2. ASSUME NEW at \in {"claimed", "failing", "alarming", "deferring"}, Goes(p, at)
      PROVE  processor'[q].event \in {0, processor[q].event}
  <2>1. processor'[q] = IF q = p THEN [processor[p] EXCEPT !.at = at] ELSE processor[q]
    BY <1>2, PositionFacts DEF Goes
  <2>2. [processor[p] EXCEPT !.at = at].event = processor[p].event
    BY PositionFacts DEF Position
  <2> QED BY <2>1, <2>2
<1> QED BY <1>1, <1>2

LEMMA ClaimsCommitted ==
  ASSUME RunInv, CommittedInv, NEW p \in Processor, NEW e \in Event, Claims(p, e)
  PROVE  CommittedInv'
<1> USE Types
<1>1. CASE Pick(p, e)
  <2>1. ~Missing(e) /\ e <= tail
    BY <1>1 DEF Pick, Due, Waiting, Missing, CommittedInv
  <2>2. ASSUME NEW q \in Processor PROVE processor'[q].event <= tail
    <3>1. processor'[q] = IF q = p THEN [at |-> "picked", event |-> e] ELSE processor[q]
      BY <1>1, PositionFacts DEF Pick
    <3> QED BY <2>1, <3>1 DEF CommittedInv
  <2> QED BY <1>1, <2>2 DEF Pick, Stays, CommittedInv, Missing
<1>2. CASE ~Pick(p, e)
  <2>1. e <= tail
    <3>1. processor[p].event = e
      BY <1>2 DEF Claims, ClaimQuarantines, Abandon, AwaitHandler, Claim, Claimable, Candidate
    <3> QED BY <3>1 DEF CommittedInv
  <2>2. \A d \in Event \ {e} : receipt'[d] = receipt[d]
    BY <1>2 DEF Claims, ClaimQuarantines, Abandon, AwaitHandler, Claim, Quarantines, Fails,
                Put, TypeOK
  <2>3. Stays
    BY <1>2 DEF Claims, ClaimQuarantines, Abandon, AwaitHandler, Claim
  <2>4. \A q \in Processor : processor'[q].event \in {0, processor[q].event}
    BY <1>2, ProcessorEvents DEF Claims, ClaimQuarantines, Abandon, AwaitHandler, Claim
  <2>5. \A d \in Event : Known(d)' => Known(d) \/ d <= tail
    BY <2>1, <2>2, <2>3 DEF Known, Missing, Stays
  <2> QED BY <2>3, <2>4, <2>5, StillCommitted DEF Stays, TypeOK
<1> QED BY <1>1, <1>2

LEMMA ExecutesCommitted ==
  ASSUME RunInv, CommittedInv, NEW p \in Processor, NEW e \in Event, Executes(p, e)
  PROVE  CommittedInv'
<1> USE Types
<1>1. e <= tail
  <2>1. processor[p].event = e
    BY DEF Executes, Apply, HandlerFails, RecordFailure, Stale, MissesReceipt, RaisesAlarm,
           LockBusy, Defer, DeferQuarantines, Working
  <2> QED BY <2>1 DEF CommittedInv
<1>2. \A d \in Event \ {e} : receipt'[d] = receipt[d]
  BY DEF Executes, Apply, HandlerFails, RecordFailure, Stale, MissesReceipt, RaisesAlarm,
         LockBusy, Defer, DeferQuarantines, Quarantines, Fails, Put, TypeOK
<1>3. /\ tail' \in 0..MaxEvents /\ tail' >= tail /\ UNCHANGED <<inbox, lost>>
  <2>1. CASE Apply(p, e)
    BY <2>1 DEF Apply, TypeOK
  <2>2. CASE ~Apply(p, e)
    <3>1. Stays
      BY <2>2 DEF Executes, HandlerFails, RecordFailure, Stale, MissesReceipt, RaisesAlarm,
                  LockBusy, Defer, DeferQuarantines
    <3> QED BY <3>1 DEF Stays, TypeOK
  <2> QED BY <2>1, <2>2
<1>4. \A q \in Processor : processor'[q].event \in {0, processor[q].event}
  <2>1. Finishes(p) \/ \E at \in {"failing", "alarming", "deferring"} : Goes(p, at)
    BY DEF Executes, Apply, HandlerFails, RecordFailure, Stale, MissesReceipt, RaisesAlarm,
           LockBusy, Defer, DeferQuarantines
  <2> QED BY <2>1, ProcessorEvents
<1>5. \A d \in Event : Known(d)' => Known(d) \/ d <= tail
  BY <1>1, <1>2, <1>3 DEF Known, Missing
<1> QED BY <1>3, <1>4, <1>5, StillCommitted

LEMMA OthersCommitted ==
  ASSUME RunInv, CommittedInv, NEW e \in Event,
         \/ AcceptReads(e) \/ AcceptInserts(e) \/ LeaseExpires(e) \/ CleanReceipt(e)
         \/ LoseReceipt(e) \/ Operates(e)
  PROVE  CommittedInv'
<1> USE Types
<1>1. CASE AcceptReads(e)
  BY <1>1 DEF AcceptReads, CommittedInv, Missing
<1>2. CASE ~AcceptReads(e)
  <2>1. e <= tail
    <3>1. CASE AcceptInserts(e)
      BY <3>1 DEF AcceptInserts, CommittedInv
    <3>2. CASE LeaseExpires(e) \/ CleanReceipt(e) \/ LoseReceipt(e) \/ Replay(e)
      BY <3>2 DEF LeaseExpires, CleanReceipt, LoseReceipt, Replay, MayReplay, CommittedInv, Missing
    <3>3. CASE Watchdog(e) \/ ReplayQuarantine(e)
      <4>1. e \in lost
        BY <3>3 DEF Watchdog, ReplayQuarantine, MayReplayQuarantine, EventInv, AttemptInv, Missing
      <4> QED BY <4>1 DEF CommittedInv
    <3>4. CASE ReplayQuarantines(e)
      BY <3>4 DEF ReplayQuarantines
    <3> QED BY <1>2, <3>1, <3>2, <3>3, <3>4 DEF Operates
  <2>2. \A d \in Event \ {e} : receipt'[d] = receipt[d] /\ (d \in lost' => d \in lost)
    <3>1. CASE UNCHANGED receipt
      BY <1>2, <3>1 DEF AcceptInserts, LeaseExpires, CleanReceipt, LoseReceipt, Operates,
                        Watchdog, Replay, ReplayQuarantines, ReplayQuarantine, Replays, Stays
    <3>2. CASE \E r : Put(e, r)
      BY <1>2, <3>2 DEF AcceptInserts, LeaseExpires, CleanReceipt, LoseReceipt, Operates,
                        Watchdog, Replay, ReplayQuarantines, ReplayQuarantine, Replays, Stays,
                        Put, TypeOK
    <3> QED BY <1>2, <3>1, <3>2
            DEF AcceptInserts, LeaseExpires, CleanReceipt, LoseReceipt, Operates,
                Watchdog, Replay, ReplayQuarantines, ReplayQuarantine, Replays, Quarantines
  <2>3. UNCHANGED <<tail, processor>> /\ inbox' \in {0, inbox}
    BY <1>2 DEF AcceptInserts, LeaseExpires, CleanReceipt, LoseReceipt, Operates,
                Watchdog, Replay, ReplayQuarantines, ReplayQuarantine, Replays, Stays
  <2>4. \A d \in Event : Known(d)' => Known(d) \/ d <= tail
    BY <2>1, <2>2 DEF Known, Missing
  <2> QED BY <2>3, <2>4, StillCommitted DEF TypeOK
<1> QED BY <1>1, <1>2

LEMMA StepCommitted == RunInv /\ CommittedInv /\ [Next]_vars => CommittedInv'
<1> SUFFICES ASSUME RunInv, CommittedInv, [Next]_vars PROVE CommittedInv'
  OBVIOUS
<1> USE Types
<1>1. ASSUME UNCHANGED <<receipt, lost>>, tail' \in {tail, tail + 1} \cap 0..MaxEvents,
             inbox' \in {0, inbox}, \A p \in Processor : processor'[p].event \in {0, processor[p].event}
      PROVE  CommittedInv'
  BY <1>1, StillCommitted DEF Known, Missing, TypeOK
<1>2. CASE Emit \/ AcceptFails \/ (\E v \in Version \cup {None} : Deploy(v)) \/ UNCHANGED vars
  <2>1. UNCHANGED <<receipt, lost, processor>> /\ inbox' \in {0, inbox}
    BY <1>2 DEF Emit, AcceptFails, Deploy, vars
  <2>2. tail' \in {tail, tail + 1} \cap 0..MaxEvents
    BY <1>2 DEF Emit, AcceptFails, Deploy, vars, TypeOK
  <2> QED BY <1>1, <2>1, <2>2
<1>3. ASSUME NEW p \in Processor, LetsGo(p) \/ DeferGivesUp(p) \/ Dies(p) PROVE CommittedInv'
  <2>1. Finishes(p) /\ Stays /\ UNCHANGED receipt
    BY <1>3 DEF LetsGo, DeferGivesUp, Dies
  <2> QED BY <1>1, <2>1, ProcessorEvents DEF Stays, TypeOK
<1>4. ASSUME NEW p \in Processor, NEW e \in Event, Claims(p, e) \/ Executes(p, e) PROVE CommittedInv'
  BY <1>4, ClaimsCommitted, ExecutesCommitted
<1>5. ASSUME NEW e \in Event,
             \/ AcceptReads(e) \/ AcceptInserts(e) \/ LeaseExpires(e) \/ CleanReceipt(e)
             \/ LoseReceipt(e) \/ Operates(e)
      PROVE  CommittedInv'
  BY <1>5, OthersCommitted
<1> QED BY <1>2, <1>3, <1>4, <1>5 DEF Next

LEMMA InitEInv == Init => EInv
<1> SUFFICES ASSUME Init PROVE EInv
  OBVIOUS
<1>1. \A e \in Event : Missing(e)
  BY NewRows DEF Init, Missing
<1>2. CommittedInv
  BY <1>1 DEF Init, CommittedInv, Idle
<1> QED BY <1>2, InitRunInv DEF EInv

LEMMA StepEInv == EInv /\ [Next]_vars => EInv'
BY StepRunInv, StepCommitted DEF EInv

\* The inductive invariant holds in every reachable state.
THEOREM EventsInvariance == Spec => []EInv
BY InitEInv, StepEInv, PTL DEF Spec

\* Rows, positions and histories keep their types and bounds.
THEOREM EventsTypeCorrectness == Spec => []TypeOK
<1>1. EInv => TypeOK
  BY DEF EInv, RunInv
<1> QED BY <1>1, EventsInvariance, PTL

\* The effects of a run's events are committed in order and once each.
THEOREM OrderedEffects == Spec => []EffectsInOrder
<1>1. EInv => EffectsInOrder
  BY DEF EInv, RunInv
<1> QED BY <1>1, EventsInvariance, PTL

\* Contention and replays cost no attempts, dead letters had max_attempts failures.
THEOREM Accounting == Spec => []AttemptsAccounted
<1>1. EInv => AttemptsAccounted
  BY DEF EInv, RunInv, AccountInv, AttemptsAccounted
<1> QED BY <1>1, EventsInvariance, PTL

\* The running attempts are those of the running receipts.
THEOREM MatchingAttempts == Spec => []AttemptsMatchReceipts
<1>1. EInv => AttemptsMatchReceipts
  BY DEF EInv, RunInv, AttemptInv, AttemptsMatchReceipts
<1> QED BY <1>1, EventsInvariance, PTL

\* Nothing but damage is ever quarantined.
THEOREM QuarantineIsForDamage == Spec => []QuarantineNeedsDamage
<1>1. EInv => QuarantineNeedsDamage
  BY DEF EInv, RunInv, AttemptInv, QuarantineNeedsDamage
<1> QED BY <1>1, EventsInvariance, PTL

\* While a run is blocked nothing of it completes, and only an audited replay of
\* the dead letter unblocks it.
THEOREM DeadLettersHold == Spec => DeadLetterHoldsTheRun
<1> DEFINE Holds == blocked # 0 => /\ completed' = completed
                                   /\ blocked' # blocked => replays'[blocked] > replays[blocked]
<1>1. EInv /\ [Next]_vars => [Holds]_vars
  <2> SUFFICES ASSUME EInv, Next, blocked # 0
               PROVE  /\ completed' = completed
                      /\ blocked' # blocked => replays'[blocked] > replays[blocked]
    OBVIOUS
  <2>1. \A e \in Event : receipt[e].status # "running"
    BY RunningFacts DEF EInv
  <2>2. CASE UNCHANGED <<completed, blocked>>
    BY <2>2
  <2>3. ASSUME NEW e \in Event, NEW g \in Nat, Replays(e, g), blocked = e, g > replays[e]
        PROVE  completed' = completed /\ replays'[blocked] > replays[blocked]
    BY <2>3, Types DEF EInv, Replays, TypeOK
  <2>4. ASSUME NEW e \in Event, Replay(e) \/ ReplayQuarantine(e)
        PROVE  completed' = completed /\ replays'[blocked] > replays[blocked]
    <3>1. receipt[e].generation + 1 \in Nat /\ replays[e] + 1 \in Nat
      BY Types, RowFields DEF EInv, TypeOK
    <3>2. CASE Replay(e)
      BY <2>3, <3>1, <3>2 DEF Replay, MayReplay, Unaudited
    <3>3. CASE ReplayQuarantine(e)
      <4>1. blocked = e
        BY <3>3 DEF EInv, RunInv, BlockedInv, ReplayQuarantine, MayReplayQuarantine, IsNext
      <4>2. RestartGeneration(e) \in Nat
        BY <3>1 DEF RestartGeneration
      <4> QED BY <2>3, <3>3, <4>1, <4>2 DEF ReplayQuarantine, MayReplayQuarantine, Unaudited
    <3> QED BY <2>4, <3>2, <3>3
  <2>5. ASSUME NEW p \in Processor, NEW e \in Event, Claims(p, e) \/ Executes(p, e)
        PROVE  UNCHANGED <<completed, blocked>>
    BY <2>1, <2>5
    DEF Claims, Executes, Pick, ClaimQuarantines, Abandon, AwaitHandler, Claim, Apply,
        HandlerFails, RecordFailure, Stale, MissesReceipt, RaisesAlarm, LockBusy, Defer,
        DeferQuarantines, Quarantines, Loads, OwnReceipt
  <2>6. ASSUME NEW e \in Event,
               \/ AcceptReads(e) \/ AcceptInserts(e) \/ LeaseExpires(e) \/ CleanReceipt(e)
               \/ LoseReceipt(e) \/ Watchdog(e) \/ ReplayQuarantines(e)
        PROVE  UNCHANGED <<completed, blocked>>
    BY <2>6 DEF AcceptReads, AcceptInserts, LeaseExpires, CleanReceipt, LoseReceipt, Watchdog,
                ReplayQuarantines, Quarantines
  <2>7. ASSUME NEW p \in Processor, LetsGo(p) \/ DeferGivesUp(p) \/ Dies(p)
        PROVE  UNCHANGED <<completed, blocked>>
    BY <2>7 DEF LetsGo, DeferGivesUp, Dies
  <2>8. ASSUME Emit \/ AcceptFails \/ \E v \in Version \cup {None} : Deploy(v)
        PROVE  UNCHANGED <<completed, blocked>>
    BY <2>8 DEF Emit, AcceptFails, Deploy
  <2> QED BY <2>2, <2>4, <2>5, <2>6, <2>7, <2>8 DEF Next, Operates
<1> QED BY <1>1, EventsInvariance, PTL DEF Spec, DeadLetterHoldsTheRun
-----------------------------------------------------------------------------
(* The refinement: every step is a step of OrderedDelivery or none.        *)

StrikesOf == [e \in Event |-> Strikes(e)]
Suspended == {e \in Event : quarantine[e] = "open"}

LEMMA MappedVars ==
  ASSUME UNCHANGED <<tail, applied, blocked, quarantine, lost, replays>>, StrikesOf' = StrikesOf
  PROVE  UNCHANGED Delivery!vars
BY DEF Delivery!vars, StrikesOf

\* Only the strikes of the event whose row is written can change.
LEMMA OneStrike ==
  ASSUME EInv, NEW e \in Event,
         \A d \in Event \ {e} : receipt'[d] = receipt[d] /\ failures'[d] = failures[d],
         completed' = completed \/ (completed' = e /\ e = completed + 1)
  PROVE  StrikesOf' = [StrikesOf EXCEPT ![e] = Strikes(e)']
<1>1. completed \in Nat /\ Event \subseteq Nat
  BY Types, Numbers DEF EInv
<1>2. ASSUME NEW d \in Event \ {e} PROVE Strikes(d)' = Strikes(d)
  BY <1>1, <1>2 DEF Strikes, Completed, Missing
<1> QED BY <1>2 DEF StrikesOf

LEMMA OtherRows ==
  ASSUME EInv, NEW e \in Event, NEW r, Put(e, r) \/ UNCHANGED receipt
  PROVE  \A d \in Event \ {e} : receipt'[d] = receipt[d]
BY DEF EInv, RunInv, TypeOK, Put

\* A row is written and its event keeps the strikes it has.
LEMMA KeepsStrikes ==
  ASSUME EInv, NEW e \in Event, UNCHANGED <<tail, applied, completed, blocked, quarantine, lost, replays>>,
         \A d \in Event \ {e} : receipt'[d] = receipt[d] /\ failures'[d] = failures[d],
         Strikes(e)' = Strikes(e)
  PROVE  UNCHANGED Delivery!vars
<1>1. StrikesOf' = [StrikesOf EXCEPT ![e] = Strikes(e)]
  BY OneStrike
<1>2. StrikesOf' = StrikesOf
  BY <1>1 DEF StrikesOf
<1> QED BY <1>2, MappedVars

LEMMA Turns == ASSUME EInv PROVE Delivery!Turn = completed + 1
BY DEF EInv, RunInv, EffectsInOrder, Delivery!Turn

MappedStays == UNCHANGED <<tail, applied, completed, blocked, quarantine, lost, replays>>

\* The event is known before and after, or completed anyway.
LEMMA RowWritten ==
  ASSUME EInv, MappedStays, NEW e \in Event, NEW r \in Row, Put(e, r), UNCHANGED failures,
         ~Missing(e), r.status # "absent" \/ Completed(e)
  PROVE  UNCHANGED Delivery!vars
<1>1. \A d \in Event \ {e} : receipt'[d] = receipt[d]
  BY OtherRows
<1>2. receipt'[e] = r
  BY PutFacts, Types DEF EInv
<1>3. Strikes(e)' = Strikes(e)
  BY <1>2 DEF MappedStays, Strikes, Completed, Missing
<1> QED BY <1>1, <1>3, KeepsStrikes DEF MappedStays

LEMMA NothingWritten ==
  ASSUME EInv, MappedStays, UNCHANGED <<receipt, failures>>
  PROVE  UNCHANGED Delivery!vars
<1>1. StrikesOf' = StrikesOf
  BY DEF MappedStays, StrikesOf, Strikes, Completed, Missing
<1> QED BY <1>1, MappedVars DEF MappedStays

LEMMA ReceiverStutters ==
  ASSUME EInv, NEW e \in Event,
         AcceptReads(e) \/ AcceptInserts(e) \/ LeaseExpires(e) \/ CleanReceipt(e)
  PROVE  UNCHANGED Delivery!vars
<1> USE Types DEF EInv
<1>1. MappedStays
  BY DEF AcceptReads, AcceptInserts, LeaseExpires, CleanReceipt, Stays, MappedStays
<1>2. CASE AcceptReads(e) \/ (AcceptInserts(e) /\ ~Missing(e))
  BY <1>1, <1>2, NothingWritten DEF AcceptReads, AcceptInserts
<1>3. CASE AcceptInserts(e) /\ Missing(e)
  <2>1. Put(e, Received) /\ failures' = [failures EXCEPT ![e] = 0]
    BY <1>3 DEF AcceptInserts
  <2>2. \A d \in Event \ {e} : receipt'[d] = receipt[d] /\ failures'[d] = failures[d]
    BY <2>1, OtherRows DEF TypeOK
  <2>3. Strikes(e)' = 0 /\ Strikes(e) = 0
    BY <1>3, <2>1 DEF Strikes, TypeOK
  <2> QED BY <1>1, <2>2, <2>3, KeepsStrikes DEF MappedStays
<1>4. CASE LeaseExpires(e)
  <2>1. [receipt[e] EXCEPT !.expired = TRUE] \in Row
        /\ [receipt[e] EXCEPT !.expired = TRUE].status = receipt[e].status
    BY DEF Row
  <2> QED BY <1>1, <1>4, <2>1, RowWritten DEF LeaseExpires, Missing
<1>5. CASE CleanReceipt(e)
  <2>1. Completed(e) /\ ~Missing(e)
    BY <1>5 DEF CleanReceipt, EventInv, ReceiptInv, Completed, Missing
  <2> QED BY <1>1, <1>5, <2>1, NewRows, RowWritten DEF CleanReceipt
<1> QED BY <1>2, <1>3, <1>4, <1>5

LEMMA ProcessorStutters ==
  ASSUME EInv, NEW p \in Processor, NEW e \in Event,
         \/ Pick(p, e) \/ AwaitHandler(p, e) \/ Claim(p, e) \/ HandlerFails(p, e) \/ Stale(p, e)
         \/ MissesReceipt(p, e) \/ LockBusy(p, e) \/ Defer(p, e)
  PROVE  UNCHANGED Delivery!vars
<1> USE Types DEF EInv
<1>1. MappedStays
  BY DEF Pick, AwaitHandler, Claim, HandlerFails, Stale, MissesReceipt, LockBusy, Defer, Stays,
         MappedStays
<1>2. CASE AwaitHandler(p, e)
  <2>1. [receipt[e] EXCEPT !.status = "waiting_handler"] \in Row
        /\ [receipt[e] EXCEPT !.status = "waiting_handler"].status = "waiting_handler"
    BY DEF Row, Waiting
  <2> QED BY <1>1, <1>2, <2>1, RowWritten DEF AwaitHandler, Claimable, Waiting, Missing
<1>3. CASE Claim(p, e)
  <2> DEFINE r == [receipt[e] EXCEPT !.status = "running", !.version = handler, !.token = p,
                                     !.attempts = receipt[e].attempts + 1]
  <2>1. receipt[e].status \in Waiting /\ receipt[e].attempts < MaxAttempts /\ receipt[e].attempts \in Nat
    BY <1>3, RowFields DEF Claim, Claimable, EventInv, ReceiptInv
  <2>2. r \in Row /\ r.status = "running"
    <3>1. handler \in Version \cup {None} /\ receipt[e].attempts + 1 \in 0..MaxAttempts
      BY <2>1 DEF TypeOK
    <3> QED BY <3>1 DEF Row
  <2>3. Put(e, r) /\ UNCHANGED failures
    BY <1>3 DEF Claim
  <2> HIDE DEF r
  <2> QED BY <1>1, <2>1, <2>2, <2>3, RowWritten DEF Missing, Waiting
<1>4. CASE Defer(p, e)
  <2>1. receipt[e].status = "running" /\ receipt[e].attempts > 0
    BY <1>4, RunningFacts DEF Defer, OwnReceipt
  <2>2. Deferred(receipt[e]) \in Row /\ Deferred(receipt[e]).status = "pending"
    BY <2>1, DeferredRow
  <2> QED BY <1>1, <1>4, <2>1, <2>2, RowWritten DEF Defer, Missing
<1> QED BY <1>1, <1>2, <1>3, <1>4, NothingWritten
        DEF Pick, HandlerFails, Stale, MissesReceipt, LockBusy

\* The commit of a handler's effects delivers the event whose turn it is.
LEMMA Delivers ==
  ASSUME EInv, NEW p \in Processor, NEW e \in Event, Apply(p, e) PROVE Delivery!Deliver
<1> USE Types DEF EInv
<1>1. /\ completed' = e /\ applied' = Append(applied, e) /\ tail' \in {tail, tail + 1}
      /\ UNCHANGED <<blocked, quarantine, replays, failures, lost>>
      /\ receipt[e].status = "running" /\ quarantine[e] # "open"
  BY DEF Apply, Loads, OwnReceipt, TypeOK
<1>2. e = completed + 1 /\ blocked = 0 /\ e <= tail
  <2>1. ~Missing(e)
    BY <1>1 DEF Missing
  <2> QED BY <1>1, <2>1, RunningFacts DEF CommittedInv
<1>3. Strikes(e)' = 0
  BY <1>1, Numbers DEF Strikes, Completed
<1>4. StrikesOf' = [StrikesOf EXCEPT ![e] = 0]
  <2>1. \A d \in Event \ {e} : receipt'[d] = receipt[d] /\ failures'[d] = failures[d]
    BY <1>1, OtherRows DEF Apply
  <2> QED BY <1>1, <1>2, <1>3, <2>1, OneStrike
<1>5. Delivery!Turn = e
  BY <1>2, Turns
<1> QED BY <1>1, <1>2, <1>4, <1>5 DEF Delivery!Deliver, StrikesOf

\* A recorded failure is one strike more; the last one makes a dead letter.
LEMMA FailureStrikes ==
  ASSUME EInv, NEW p \in Processor, NEW e \in Event, Abandon(p, e) \/ RecordFailure(p, e)
  PROVE  Delivery!Fail
<1> USE Types DEF EInv
<1>1. Fails(e) /\ Stays /\ receipt[e].status = "running"
  BY DEF Abandon, RecordFailure, Loads, OwnReceipt
<1>2. /\ Put(e, Failed(receipt[e])) /\ blocked' = IF IsDead(receipt[e]) THEN e ELSE blocked
      /\ failures' = [failures EXCEPT ![e] = failures[e] + 1]
      /\ UNCHANGED <<completed, quarantine, applied>>
  BY <1>1 DEF Fails
<1>3. /\ e = completed + 1 /\ blocked = 0 /\ receipt[e].attempts = failures[e] + 1
      /\ failures[e] \in Nat /\ receipt[e].attempts \in 0..MaxAttempts
  BY <1>1, RunningFacts
<1>4. e <= tail /\ ~Missing(e)
  BY <1>1 DEF Missing, CommittedInv
<1>5. receipt'[e] = Failed(receipt[e]) /\ Failed(receipt[e]).status # "absent"
  BY <1>2, FailedRow, PutFacts
<1>6. failures'[e] = failures[e] + 1 /\ \A d \in Event \ {e} : failures'[d] = failures[d]
  BY <1>2 DEF TypeOK
<1>7. Strikes(e) = failures[e] /\ Strikes(e)' = failures[e] + 1
  BY <1>2, <1>3, <1>4, <1>5, <1>6 DEF Strikes, Completed, Missing
<1>8. StrikesOf' = [StrikesOf EXCEPT ![e] = StrikesOf[e] + 1]
  <2>1. StrikesOf' = [StrikesOf EXCEPT ![e] = Strikes(e)']
    BY <1>2, <1>6, OneStrike, OtherRows
  <2> QED BY <1>7, <2>1 DEF StrikesOf
<1>9. blocked' = IF StrikesOf[e] + 1 = MaxAttempts THEN e ELSE 0
  BY <1>2, <1>3, <1>7 DEF StrikesOf, IsDead
<1>10. Delivery!Turn = e
  BY <1>3, Turns
<1> QED BY <1>1, <1>2, <1>3, <1>4, <1>8, <1>9, <1>10 DEF Delivery!Fail, StrikesOf, Stays

\* What is quarantined was damaged.
LEMMA Suspends ==
  ASSUME EInv, NEW e \in Event, Quarantines(e), e \in lost, UNCHANGED <<tail, replays, lost>>
  PROVE  Delivery!Suspend(e)
<1>1. StrikesOf' = StrikesOf
  BY DEF Quarantines, StrikesOf, Strikes, Completed, Missing
<1>2. Suspended' = Suspended \cup {e}
  BY Types DEF EInv, TypeOK, Quarantines, Suspended
<1> QED BY <1>1, <1>2 DEF Delivery!Suspend, Quarantines, StrikesOf, Suspended

LEMMA Damages == ASSUME EInv, NEW e \in Event, LoseReceipt(e) PROVE Delivery!Damage(e)
<1> USE Types DEF EInv
<1>1. Put(e, NoReceipt) /\ lost' = lost \cup {e} /\ e \notin lost /\ ~Missing(e)
      /\ UNCHANGED <<tail, completed, blocked, quarantine, replays, applied, failures>>
  BY DEF LoseReceipt, Missing
<1>2. Strikes(e)' = 0
  BY <1>1, PutFacts, NewRows DEF Strikes, Missing
<1>3. StrikesOf' = [StrikesOf EXCEPT ![e] = 0]
  BY <1>1, <1>2, OneStrike, OtherRows
<1>4. e <= tail
  BY <1>1 DEF CommittedInv
<1> QED BY <1>1, <1>3, <1>4 DEF Delivery!Damage, StrikesOf

LEMMA Accuses == ASSUME EInv, NEW e \in Event, ReplayQuarantines(e) PROVE Delivery!Accuse(e)
<1> USE Types DEF EInv
<1>1. StrikesOf' = StrikesOf /\ StrikesOf[e] = 0
  BY DEF ReplayQuarantines, Quarantines, StrikesOf, Strikes, Completed, Missing
<1>2. Suspended' = Suspended \cup {e}
  BY DEF TypeOK, Quarantines, Suspended, ReplayQuarantines
<1>3. Delivery!Turn <= e
  BY Turns, Numbers DEF ReplayQuarantines, Completed
<1> QED BY <1>1, <1>2, <1>3 DEF Delivery!Accuse, ReplayQuarantines, Quarantines, StrikesOf, Suspended

\* An audited replay is a fresh start for the event that stops the run.
LEMMA Grants ==
  ASSUME EInv, NEW e \in Event, Replay(e) \/ ReplayQuarantine(e) PROVE Delivery!Grant
<1> USE Types DEF EInv
<1>1. PICK g \in Nat : Replays(e, g) /\ g > replays[e]
  <2>1. receipt[e].generation + 1 \in Nat /\ replays[e] + 1 \in Nat
    BY RowFields DEF TypeOK
  <2>2. RestartGeneration(e) \in Nat
    BY <2>1 DEF RestartGeneration
  <2> QED BY <2>1, <2>2 DEF Replay, MayReplay, ReplayQuarantine, MayReplayQuarantine, Unaudited
<1>2. /\ e = completed + 1
      /\ blocked = e \/ e \in Suspended
      /\ Suspended' = Suspended \ {e}
  <2>1. CASE Replay(e)
    BY <2>1 DEF Replay, MayReplay, RunInv, BlockedInv, Suspended, TypeOK
  <2>2. CASE ReplayQuarantine(e)
    BY <2>2 DEF ReplayQuarantine, MayReplayQuarantine, IsNext, Suspended, TypeOK
  <2> QED BY <2>1, <2>2
<1>3. /\ Put(e, Restarted(receipt[e], g)) /\ blocked' = 0
      /\ failures' = [failures EXCEPT ![e] = 0]
      /\ replays' = [replays EXCEPT ![e] = g]
      /\ UNCHANGED <<tail, completed, applied, lost>>
  BY <1>1 DEF Replays
<1>4. failures'[e] = 0 /\ (\A d \in Event \ {e} : failures'[d] = failures[d]) /\ replays'[e] = g
  BY <1>3 DEF TypeOK
<1>5. StrikesOf' = [StrikesOf EXCEPT ![e] = 0]
  <2>1. Strikes(e)' = 0
    BY <1>4 DEF Strikes
  <2> QED BY <1>3, <1>4, <2>1, OneStrike, OtherRows
<1>6. Delivery!Turn = e
  BY <1>2, Turns
<1> QED BY <1>1, <1>2, <1>3, <1>4, <1>5, <1>6 DEF Delivery!Grant, StrikesOf, Suspended

LEMMA DeliveryStep == ASSUME EInv, [Next]_vars PROVE [Delivery!Next]_(Delivery!vars)
<1> USE DEF EInv
<1>1. CASE Emit
  <2>1. StrikesOf' = StrikesOf
    BY <1>1 DEF Emit, StrikesOf, Strikes, Completed, Missing
  <2>2. Delivery!Emit
    BY <1>1, <2>1 DEF Emit, Delivery!Emit, StrikesOf
  <2> QED BY <2>2 DEF Delivery!Next
<1>3. CASE AcceptFails \/ (\E v \in Version \cup {None} : Deploy(v)) \/ UNCHANGED vars
           \/ \E p \in Processor : LetsGo(p) \/ DeferGivesUp(p) \/ Dies(p)
  BY <1>3, NothingWritten DEF AcceptFails, Deploy, vars, LetsGo, DeferGivesUp, Dies, Stays, MappedStays
<1>4. ASSUME NEW e \in Event, AcceptReads(e) \/ AcceptInserts(e) \/ LeaseExpires(e) \/ CleanReceipt(e)
      PROVE  UNCHANGED Delivery!vars
  BY <1>4, ReceiverStutters
<1>5. ASSUME NEW p \in Processor, NEW e \in Event, Claims(p, e) \/ Executes(p, e)
      PROVE  [Delivery!Next]_(Delivery!vars)
  <2>1. CASE ClaimQuarantines(p, e) \/ RaisesAlarm(p, e) \/ DeferQuarantines(p, e)
    <3>1. e \in lost /\ Quarantines(e) /\ Stays
      BY <2>1, Types DEF ClaimQuarantines, RaisesAlarm, DeferQuarantines, Candidate, ProcessorInv
    <3> QED BY <3>1, Suspends DEF Stays, Delivery!Next
  <2>2. CASE Abandon(p, e) \/ RecordFailure(p, e)
    BY <2>2, FailureStrikes DEF Delivery!Next
  <2>3. CASE Apply(p, e)
    BY <2>3, Delivers DEF Delivery!Next
  <2> QED BY <1>5, <2>1, <2>2, <2>3, ProcessorStutters DEF Claims, Executes
<1>6. ASSUME NEW e \in Event, LoseReceipt(e) \/ Operates(e)
      PROVE  [Delivery!Next]_(Delivery!vars)
  <2>1. CASE Watchdog(e)
    <3>1. e \in lost /\ Quarantines(e) /\ Stays
      BY <2>1, Types DEF Watchdog, EventInv, AttemptInv, Missing
    <3> QED BY <3>1, Suspends DEF Stays, Delivery!Next
  <2> QED BY <1>6, <2>1, Damages, Accuses, Grants DEF Operates, Delivery!Next
<1> QED BY <1>1, <1>3, <1>4, <1>5, <1>6 DEF Next

\* The receiver, the processors, the watchdog and the replays implement ordered
\* delivery for any processors, versions, attempts and events.
THEOREM ImplementsDelivery == Spec => ImplementsOrderedDelivery
<1>1. Init => Delivery!Init
  <2> SUFFICES ASSUME Init PROVE Delivery!Init
    OBVIOUS
  <2>1. \A e \in Event : Strikes(e) = 0
    BY NewRows DEF Init, Strikes, Missing
  <2> QED BY <2>1 DEF Init, Delivery!Init
<1>2. EInv /\ [Next]_vars => [Delivery!Next]_(Delivery!vars)
  BY DeliveryStep
<1> QED BY <1>1, <1>2, EventsInvariance, PTL DEF Spec, ImplementsOrderedDelivery, Delivery!Spec
=============================================================================
