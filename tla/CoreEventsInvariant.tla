------------------------ MODULE CoreEventsInvariant ------------------------
(***************************************************************************)
(* Why CoreEvents is right: what its rows say of each other in every       *)
(* reachable state.                                                        *)
(***************************************************************************)
EXTENDS CoreEvents

\* The row of an event, between the cursor, the dead letter and the histories.
ReceiptInv(e) ==
  LET row == receipt[e] IN
  /\ row.status = "processed" => e <= completed
  /\ row.status = "running" => e = completed + 1 /\ blocked = 0
  /\ row.status \in Waiting => row.attempts < MaxAttempts

\* Attempts and failures of an event agree, the dead have used up theirs.
AccountInv(e) ==
  LET row == receipt[e] IN
  row.status \notin {"absent", "processed"} =>
    /\ row.attempts = failures[e] + IF row.status = "running" THEN 1 ELSE 0
    /\ row.status = "dead" => failures[e] = MaxAttempts

\* Without damage the running attempts are those of the receipts.
AttemptInv(e) ==
  e \notin lost =>
    /\ attempts[e] = IF receipt[e].status = "running" THEN {receipt[e].token} ELSE {}
    /\ quarantine[e] = "none"

\* An event is taken up in its turn and while it has a receipt: if it is still
\* uncompleted and has none, that one got lost.
ProcessorInv(p) ==
  LET e == processor[p].event IN
  processor[p].at # "idle" =>
    /\ e \in Event
    /\ e <= completed + 1
    /\ Missing(e) /\ ~Completed(e) => e \in lost
    /\ processor[p].at = "alarming" => e \in lost

\* A dead letter is the next event of its run.
BlockedInv == blocked # 0 => blocked = completed + 1

\* The rows of the events and the cursor agree.
RunInv ==
  /\ TypeOK
  /\ EffectsInOrder
  /\ BlockedInv
  /\ \A e \in Event : ReceiptInv(e) /\ AccountInv(e) /\ AttemptInv(e)
  /\ \A p \in Processor : ProcessorInv(p)

\* Nothing knows of an event before it is committed.
CommittedInv ==
  /\ inbox <= tail
  /\ \A e \in Event : ~Missing(e) \/ e \in lost => e <= tail
  /\ \A p \in Processor : processor[p].event <= tail

EInv == RunInv /\ CommittedInv
=============================================================================
