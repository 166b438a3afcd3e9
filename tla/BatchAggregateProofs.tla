------------------------ MODULE BatchAggregateProofs ------------------------
(***************************************************************************)
(* Proofs about BatchAggregate, for any batches, children and sessions:    *)
(* a committed batch agrees with its committed children, its verdict is    *)
(* final, and the sessions never wait for one another in a circle.         *)
(***************************************************************************)
EXTENDS BatchAggregate, FiniteSetTheorems, WellFoundedInduction, TLAPS

-----------------------------------------------------------------------------
(* Least and greatest rows.                                                *)

LEMMA LeastNumber ==
  ASSUME NEW S, S \subseteq Nat, S # {}
  PROVE  \E m \in S : \A n \in S : m <= n
<1>1. PICK m \in S : \A n \in S : <<n, m>> \notin OpToRel(<, Nat)
  BY NatLessThanWellFounded, WFMin
<1>2. \A n \in S : ~(n < m)
  BY <1>1 DEF OpToRel
<1>3. \A n \in S : m <= n
  BY <1>2
<1> QED BY <1>3

\* The greatest number is the one with the fewest above it.
LEMMA GreatestNumber ==
  ASSUME NEW S, S \subseteq Nat, S # {}, IsFiniteSet(S)
  PROVE  \E m \in S : \A n \in S : n <= m
<1> DEFINE Above(x) == {y \in S : x < y}
           Counts == {Cardinality(Above(x)) : x \in S}
<1>1. \A x \in S : IsFiniteSet(Above(x)) /\ Cardinality(Above(x)) \in Nat
  BY FS_Subset, FS_CardinalityType
<1>2. PICK k \in Counts : \A n \in Counts : k <= n
  <2>1. Counts \subseteq Nat /\ Counts # {}
    BY <1>1
  <2> HIDE DEF Counts
  <2> QED BY <2>1, LeastNumber
<1>3. PICK m \in S : k = Cardinality(Above(m))
  OBVIOUS
<1>4. ASSUME NEW n \in S, m < n
      PROVE  FALSE
  <2>1. Above(n) \in SUBSET Above(m)
    <3>1. \A y \in S : n < y => m < y
      BY <1>4
    <3> QED BY <3>1
  <2>2. n \in Above(m) /\ n \notin Above(n)
    BY <1>4
  <2>3. Cardinality(Above(n)) \in Counts
    OBVIOUS
  <2>4. k <= Cardinality(Above(n))
    BY <1>2, <2>3
  <2> HIDE DEF Above
  <2>5. \A A, B : IsFiniteSet(A) /\ B \in SUBSET A =>
          Cardinality(B) <= Cardinality(A) /\ (Cardinality(A) = Cardinality(B) => A = B)
    BY FS_Subset
  <2> QED BY <1>1, <1>3, <2>1, <2>2, <2>4, <2>5
<1>5. \A n \in S : n <= m
  BY <1>4
<1> QED BY <1>5

LEMMA Ids ==
  /\ \A c \in Child : c \in Nat /\ BatchOf[c] \in Batch /\ BatchOf[c] \in Nat
  /\ \A b \in Batch : b \in Nat
  /\ Free \notin Transaction
BY ConstantsAssumption

\* The order of the sweeps is total: the first row of a set is well defined.
LEMMA FirstIsFirst ==
  ASSUME NEW S, S \subseteq Child, S # {}
  PROVE  First(S) \in S /\ \A d \in S \ {First(S)} : Before(First(S), d)
<1>1. PICK b \in {BatchOf[c] : c \in S} : \A x \in {BatchOf[c] : c \in S} : b <= x
  <2>1. {BatchOf[c] : c \in S} \subseteq Nat /\ {BatchOf[c] : c \in S} # {}
    BY Ids
  <2> QED BY <2>1, LeastNumber
<1>2. PICK c \in {x \in S : BatchOf[x] = b} : \A d \in {x \in S : BatchOf[x] = b} : c <= d
  <2>1. {x \in S : BatchOf[x] = b} \subseteq Nat /\ {x \in S : BatchOf[x] = b} # {}
    BY Ids
  <2> QED BY <2>1, LeastNumber
<1>3. \A d \in S \ {c} : Before(c, d)
  <2> SUFFICES ASSUME NEW d \in S \ {c} PROVE Before(c, d)
    OBVIOUS
  <2>1. BatchOf[d] \in Nat /\ b \in Nat /\ b <= BatchOf[d] /\ c \in Nat /\ d \in Nat
    BY <1>1, Ids
  <2>2. CASE BatchOf[d] = b
    BY <1>2, <2>1, <2>2 DEF Before
  <2>3. CASE BatchOf[d] # b
    BY <1>2, <2>1, <2>3 DEF Before
  <2> QED BY <2>2, <2>3
<1>4. c \in S
  OBVIOUS
<1> QED BY <1>3, <1>4 DEF First

LEMMA BatchInOrder ==
  ASSUME NEW c \in Child, NEW d \in Child, Before(c, d)
  PROVE  BatchOf[c] <= BatchOf[d]
BY Ids DEF Before

-----------------------------------------------------------------------------
(* Records.                                                                *)

LEMMA RowFields ==
  ASSUME TypeOK
  PROVE  /\ \A c \in Child : /\ child[c].status \in Status /\ child[c].draft \in Status
                             /\ child[c].lock \in Transaction \cup {Free}
         /\ \A b \in Batch : /\ batch[b].status \in Status /\ batch[b].draft \in Status
                             /\ batch[b].lock \in Transaction \cup {Free}
         /\ \A t \in Transaction : tx[t].todo \subseteq Child
BY DEF TypeOK

LEMMA AggregateIsStatus ==
  ASSUME NEW S
  PROVE  Aggregate(S) \in Status
<1>1. CASE S \cap {"queued", "running"} # {}
  BY <1>1 DEF Aggregate, Status, Final
<1>2. CASE S \cap {"queued", "running"} = {} /\ "unknown" \in S
  BY <1>2 DEF Aggregate, Status, Final
<1>3. CASE S \cap {"queued", "running"} = {} /\ "unknown" \notin S
  BY <1>3 DEF Aggregate, Status, Final
<1> QED BY <1>1, <1>2, <1>3

\* A verdict on the batch is a verdict on every child.
LEMMA VerdictOnAll ==
  ASSUME NEW S, S \subseteq Status, NEW v \in Final, Agrees(v, S)
  PROVE  S \subseteq Final /\ v = Aggregate(S)
<1>1. v = Aggregate(S)
  BY DEF Agrees, Final
<1>2. S \cap {"queued", "running"} = {}
  BY <1>1 DEF Aggregate, Final
<1>3. "unknown" \notin S
  BY <1>1, <1>2 DEF Aggregate, Final
<1> QED BY <1>1, <1>2, <1>3 DEF Status

LEMMA Moving ==
  ASSUME NEW s \in Status
  PROVE  Moves(s) \subseteq Status
BY DEF Moves, Status, Final

-----------------------------------------------------------------------------
(* Types.                                                                  *)

Row == [status : Status, draft : Status, lock : Transaction \cup {Free}]

LEMMA RowChanges ==
  ASSUME NEW r \in Row, NEW t \in Transaction
  PROVE  /\ Lock(t, r) = [status |-> r.status, draft |-> r.status, lock |-> t]
         /\ Release(t, r) = IF r.lock = t
                              THEN [status |-> r.status, draft |-> r.status, lock |-> Free] ELSE r
         /\ Publish(t, r) = IF r.lock = t
                              THEN [status |-> r.draft, draft |-> r.draft, lock |-> Free] ELSE r
         /\ Lock(t, r) \in Row /\ Release(t, r) \in Row /\ Publish(t, r) \in Row
<1>1. Lock(t, r) = [status |-> r.status, draft |-> r.status, lock |-> t]
  BY DEF Lock
<1>2. Release(t, r) = IF r.lock = t
                        THEN [status |-> r.status, draft |-> r.status, lock |-> Free] ELSE r
  BY DEF Release
<1>3. Publish(t, r) = IF r.lock = t
                        THEN [status |-> r.draft, draft |-> r.draft, lock |-> Free] ELSE r
  BY DEF Publish
<1>4. r.status \in Status /\ r.draft \in Status
  BY DEF Row
<1> QED BY <1>1, <1>2, <1>3, <1>4 DEF Row

LEMMA TypeInvariance ==
  ASSUME TypeOK, NEW t \in Transaction, Step(t)
  PROVE  TypeOK'
<1>0. /\ child \in [Child -> Row] /\ batch \in [Batch -> Row]
      /\ tx \in [Transaction -> [at : {"idle", "lock", "write", "batch", "aggregate", "commit", "cancel"},
                                 todo : SUBSET Child]]
  BY DEF TypeOK, Row
<1>1. tx[t].todo \in SUBSET Child
  BY <1>0
<1>5. /\ \A c \in Child : /\ Lock(t, child[c]) \in Row /\ Release(t, child[c]) \in Row
                           /\ Publish(t, child[c]) \in Row
      /\ \A b \in Batch : /\ Lock(t, batch[b]) \in Row /\ Release(t, batch[b]) \in Row
                           /\ Publish(t, batch[b]) \in Row
  BY <1>0, RowChanges
<1>2. child' \in [Child -> Row]
  <2>1. CASE LockChild(t)
    <3>1. child' = child \/ \E c \in Child : child' = [child EXCEPT ![c] = Lock(t, @)]
      BY <1>1, <2>1 DEF LockChild
    <3> QED BY <1>0, <1>5, <3>1
  <2>2. CASE BeginSweep(t)
    BY <1>0, <1>5, <2>2 DEF BeginSweep
  <2>3. CASE Write(t)
    <3> DEFINE c == First(tx[t].todo)
    <3>1. PICK s \in Moves(child[c].draft) : child' = [child EXCEPT ![c].draft = s]
      BY <2>3 DEF Write
    <3>2. CASE c \in Child
      <4>1. child[c] \in Row /\ child[c].draft \in Status
        BY <1>0, <3>2 DEF Row
      <4>2. s \in Status
        BY <4>1, Moving
      <4>3. [child[c] EXCEPT !.draft = s] \in Row
        BY <4>1, <4>2 DEF Row
      <4> QED BY <1>0, <3>1, <4>3
    <3>3. CASE c \notin Child
      BY <1>0, <3>1, <3>3
    <3> QED BY <3>2, <3>3
  <2>4. CASE Commit(t) \/ Rollback(t)
    BY <1>5, <2>4 DEF Commit, Rollback
  <2>5. CASE CancelLocks(t)
    <3> DEFINE c == First(tx[t].todo)
    <3>1. child' = [child EXCEPT ![c] = Lock(t, @)]
      BY <2>5 DEF CancelLocks
    <3>2. CASE c \in Child
      BY <1>0, <1>5, <3>1, <3>2
    <3>3. CASE c \notin Child
      BY <1>0, <3>1, <3>3
    <3> QED BY <3>2, <3>3
  <2>6. CASE BeginEvent(t) \/ LockBatch(t) \/ ReadSiblings(t) \/ BeginCancel(t) \/ CancelLocksBatch(t)
    BY <1>0, <2>6 DEF BeginEvent, LockBatch, ReadSiblings, BeginCancel, CancelLocksBatch
  <2> QED BY <2>1, <2>2, <2>3, <2>4, <2>5, <2>6 DEF Step
<1>3. batch' \in [Batch -> Row]
  <2>1. CASE LockBatch(t)
    <3> DEFINE b == BatchOf[First(tx[t].todo)]
    <3>1. batch' = [batch EXCEPT ![b] = IF @.lock = Free THEN Lock(t, @) ELSE @]
      BY <2>1 DEF LockBatch
    <3>2. CASE b \in Batch
      BY <1>0, <1>5, <3>1, <3>2
    <3>3. CASE b \notin Batch
      BY <1>0, <3>1, <3>3
    <3> QED BY <3>2, <3>3
  <2>2. CASE ReadSiblings(t)
    <3> DEFINE b == BatchOf[First(tx[t].todo)]
               v == Aggregate({Seen(t, child[d]) : d \in ChildrenOf(b)})
    <3>1. batch' = [batch EXCEPT ![b].draft = v] /\ v \in Status
      BY <2>2, AggregateIsStatus DEF ReadSiblings
    <3> HIDE DEF v
    <3>2. CASE b \in Batch
      BY <1>0, <3>1, <3>2 DEF Row
    <3>3. CASE b \notin Batch
      BY <1>0, <3>1, <3>3
    <3> QED BY <3>2, <3>3
  <2>3. CASE Commit(t) \/ Rollback(t)
    BY <1>5, <2>3 DEF Commit, Rollback
  <2>4. CASE CancelLocksBatch(t)
    <3>1. \E b \in Batch : batch' = [batch EXCEPT ![b] = Lock(t, @)]
      BY <2>4 DEF CancelLocksBatch
    <3> QED BY <1>0, <1>5, <3>1
  <2>5. CASE BeginEvent(t) \/ LockChild(t) \/ BeginSweep(t) \/ Write(t) \/ BeginCancel(t) \/ CancelLocks(t)
    BY <1>0, <2>5 DEF BeginEvent, LockChild, BeginSweep, Write, BeginCancel, CancelLocks
  <2> QED BY <2>1, <2>2, <2>3, <2>4, <2>5 DEF Step
<1>4. tx' \in [Transaction -> [at : {"idle", "lock", "write", "batch", "aggregate", "commit", "cancel"},
                               todo : SUBSET Child]]
  <2>1. \A b \in Batch : ChildrenOf(b) \in SUBSET Child
    BY DEF ChildrenOf
  <2>2. CASE BeginEvent(t) \/ BeginSweep(t) \/ BeginCancel(t)
    <3>1. \E at \in {"lock", "write", "cancel"}, S \in SUBSET Child : Begins(t, at, S)
      BY <2>1, <2>2 DEF BeginEvent, BeginSweep, BeginCancel
    <3> QED BY <1>0, <3>1 DEF Begins
  <2>3. CASE Commit(t) \/ Rollback(t) \/ LockChild(t)
    <3>1. Ends(t) \/ Continues(t, "write")
      BY <2>3 DEF Commit, Rollback, LockChild
    <3> QED BY <1>0, <3>1 DEF Ends, Continues
  <2>4. CASE Write(t) \/ LockBatch(t) \/ CancelLocksBatch(t)
    <3>1. \E at \in {"batch", "aggregate", "commit"} : Continues(t, at)
      BY <2>4 DEF Write, LockBatch, CancelLocksBatch
    <3> QED BY <1>0, <3>1 DEF Continues
  <2>5. CASE ReadSiblings(t)
    <3>1. \E at \in {"commit", "write"}, S \in SUBSET Child :
            tx' = [tx EXCEPT ![t] = [at |-> at, todo |-> S]]
      BY <1>1, <2>5 DEF ReadSiblings
    <3> QED BY <1>0, <3>1
  <2>6. CASE CancelLocks(t)
    <3>1. \E S \in SUBSET Child : tx' = [tx EXCEPT ![t].todo = S]
      BY <1>0, <1>1, <2>6 DEF CancelLocks
    <3> QED BY <1>0, <3>1
  <2> QED BY <2>2, <2>3, <2>4, <2>5, <2>6 DEF Step
<1> QED BY <1>2, <1>3, <1>4 DEF TypeOK, Row

-----------------------------------------------------------------------------
(* What a step of one session leaves to the others.                        *)

\* The step of t touches only rows that are its own or free.
OwnRows(t) ==
  /\ \A c \in Child : /\ child[c].lock \notin {Free, t} => child'[c] = child[c]
                      /\ child[c].lock \in {Free, t} => child'[c].lock \in {Free, t}
  /\ \A b \in Batch : /\ batch[b].lock \notin {Free, t} => batch'[b] = batch[b]
                      /\ batch[b].lock \in {Free, t} => batch'[b].lock \in {Free, t}

\* And it commits nothing.
OnlyOwnRows(t) ==
  /\ OwnRows(t)
  /\ \A c \in Child : child'[c].status = child[c].status
  /\ \A b \in Batch : batch'[b].status = batch[b].status

LEMMA StatusesKeep ==
  ASSUME BatchAgreesWithChildren,
         \A c \in Child : child'[c].status = child[c].status,
         \A b \in Batch : batch'[b].status = batch[b].status
  PROVE  BatchAgreesWithChildren'
<1> SUFFICES ASSUME NEW b \in Batch
             PROVE  Agrees(batch'[b].status, {child'[c].status : c \in ChildrenOf(b)})
  BY DEF BatchAgreesWithChildren
<1>1. {child'[c].status : c \in ChildrenOf(b)} = {child[c].status : c \in ChildrenOf(b)}
  BY DEF ChildrenOf
<1> QED BY <1>1 DEF BatchAgreesWithChildren

LEMMA OthersKeep ==
  ASSUME TypeOK, NEW t \in Transaction, OwnRows(t),
         NEW u \in Transaction, u # t, tx'[u] = tx[u], LocksInOrder(u), DraftsAgree(u),
         \A b \in BatchesOf(u) : \A c \in ChildrenOf(b) : Seen(u, child'[c]) = Seen(u, child[c])
  PROVE  LocksInOrder(u)' /\ DraftsAgree(u)'
<1>1. /\ \A c \in Child : /\ child'[c].lock = u <=> child[c].lock = u
                          /\ child[c].lock = u => child'[c] = child[c]
      /\ \A b \in Batch : /\ batch'[b].lock = u <=> batch[b].lock = u
                          /\ batch[b].lock = u => batch'[b] = batch[b]
  BY Ids DEF OwnRows
<1>2. HeldBy(u)' = HeldBy(u) /\ BatchesOf(u)' = BatchesOf(u) /\ AtEvent(u)' = AtEvent(u)
  BY <1>1 DEF HeldBy, BatchesOf, AtEvent
<1>3. AtEvent(u) => First(tx[u].todo) \in HeldBy(u) /\ BatchOf[First(tx[u].todo)] \in Batch
  BY FirstIsFirst, RowFields, Ids DEF LocksInOrder, HeldBy
<1>4. LocksInOrder(u)'
  <2>1. tx[u].at = "aggregate" => batch'[BatchOf[First(tx[u].todo)]].lock = u
    BY <1>1, <1>3 DEF LocksInOrder, AtEvent
  <2> QED BY <1>1, <1>2, <2>1 DEF LocksInOrder
<1>6. \A b \in BatchesOf(u) :
        {Seen(u, child'[c]) : c \in ChildrenOf(b)} = {Seen(u, child[c]) : c \in ChildrenOf(b)}
  OBVIOUS
<1>7. \A c \in HeldBy(u) : child'[c].draft # child'[c].status =>
        /\ child'[c].status \notin Final
        /\ \/ batch'[BatchOf[c]].lock = u
           \/ tx'[u].at = "batch" /\ c = First(tx'[u].todo)
  BY <1>1, Ids DEF DraftsAgree, HeldBy
<1>8. \A b \in BatchesOf(u) :
        \/ Agrees(batch'[b].draft, {Seen(u, child'[c]) : c \in ChildrenOf(b)})
        \/ tx'[u].at \in {"batch", "aggregate"} /\ b = BatchOf[First(tx'[u].todo)]
  BY <1>1, <1>6 DEF DraftsAgree, BatchesOf
<1>9. AtEvent(u) => \A c \in tx[u].todo : child'[c].status \notin Final
  <2> SUFFICES ASSUME AtEvent(u), NEW c \in tx[u].todo PROVE child'[c].status \notin Final
    OBVIOUS
  <2>1. c \in Child /\ child[c].lock = u
    BY DEF LocksInOrder, HeldBy
  <2>2. child[c].status \notin Final
    BY DEF DraftsAgree
  <2> QED BY <1>1, <2>1, <2>2
<1>10. tx[u].at = "cancel" => \A c \in HeldBy(u) : child'[c].draft = child'[c].status
  BY <1>1 DEF DraftsAgree, HeldBy
<1> QED BY <1>2, <1>4, <1>7, <1>8, <1>9, <1>10 DEF DraftsAgree

\* It remains to look at the session itself.
LEMMA SessionKeeps ==
  ASSUME BatchInv, NEW t \in Transaction, Step(t), OnlyOwnRows(t),
         \A u \in Transaction \ {t} : tx'[u] = tx[u],
         FreeRowsAreClean', LocksInOrder(t)', DraftsAgree(t)'
  PROVE  BatchInv'
<1>1. TypeOK'
  BY TypeInvariance DEF BatchInv
<1>2. BatchAgreesWithChildren'
  BY StatusesKeep DEF BatchInv, OnlyOwnRows
<1>3. \A u \in Transaction : LocksInOrder(u)' /\ DraftsAgree(u)'
  <2> SUFFICES ASSUME NEW u \in Transaction, u # t PROVE LocksInOrder(u)' /\ DraftsAgree(u)'
    OBVIOUS
  <2>1. \A c \in Child : Seen(u, child'[c]) = Seen(u, child[c])
    BY Ids DEF OnlyOwnRows, OwnRows, Seen
  <2>2. \A b \in BatchesOf(u) : \A c \in ChildrenOf(b) : Seen(u, child'[c]) = Seen(u, child[c])
    BY <2>1 DEF ChildrenOf
  <2> QED BY <2>2, OthersKeep DEF BatchInv, OnlyOwnRows
<1> QED BY <1>1, <1>2, <1>3 DEF BatchInv

-----------------------------------------------------------------------------
(* One step at a time.                                                     *)

LEMMA NextStatement ==
  ASSUME TypeOK, NEW t \in Transaction
  PROVE  /\ \A at, S : Begins(t, at, S) => /\ tx[t].at = "idle" /\ tx'[t].at = at /\ tx'[t].todo = S
                                           /\ \A u \in Transaction \ {t} : tx'[u] = tx[u]
         /\ \A at : Continues(t, at) => /\ tx'[t].at = at /\ tx'[t].todo = tx[t].todo
                                        /\ \A u \in Transaction \ {t} : tx'[u] = tx[u]
         /\ Ends(t) => /\ tx'[t].at = "idle" /\ tx'[t].todo = {}
                       /\ \A u \in Transaction \ {t} : tx'[u] = tx[u]
BY DEF TypeOK, Begins, Continues, Ends

\* A session that is about to begin, or that only waits, holds nothing.
LEMMA NothingHeld ==
  ASSUME NEW t \in Transaction, HeldBy(t)' = {}, BatchesOf(t)' = {}, ~AtEvent(t)',
         tx'[t].at = "lock" => \E c \in Child : tx'[t].todo = {c}
  PROVE  LocksInOrder(t)' /\ DraftsAgree(t)'
<1>1. LocksInOrder(t)'
  BY DEF LocksInOrder, AtEvent
<1>2. DraftsAgree(t)'
  BY DEF DraftsAgree, AtEvent
<1> QED BY <1>1, <1>2

LEMMA BeginKeeps ==
  ASSUME BatchInv, NEW t \in Transaction, BeginEvent(t) \/ BeginCancel(t)
  PROVE  BatchInv'
<1>0. TypeOK /\ LocksInOrder(t) /\ UNCHANGED <<child, batch>>
  BY DEF BatchInv, BeginEvent, BeginCancel
<1>1. \/ \E c \in Child : Begins(t, "lock", {c})
      \/ \E b \in Batch : Begins(t, "cancel", ChildrenOf(b))
  BY DEF BeginEvent, BeginCancel
<1>2. /\ tx[t].at = "idle" /\ \A u \in Transaction \ {t} : tx'[u] = tx[u]
      /\ \/ tx'[t].at = "lock" /\ \E c \in Child : tx'[t].todo = {c}
         \/ tx'[t].at = "cancel"
  BY <1>0, <1>1, NextStatement
<1>3. HeldBy(t)' = {} /\ BatchesOf(t)' = {} /\ ~AtEvent(t)'
  BY <1>0, <1>2 DEF LocksInOrder, HeldBy, BatchesOf, AtEvent
<1>4. LocksInOrder(t)' /\ DraftsAgree(t)'
  BY <1>2, <1>3, NothingHeld
<1>5. OnlyOwnRows(t) /\ FreeRowsAreClean'
  BY <1>0 DEF BatchInv, OnlyOwnRows, OwnRows, FreeRowsAreClean
<1> QED BY <1>2, <1>4, <1>5, SessionKeeps DEF Step

\* A session that holds no batch and has changed nothing may lock live rows.
LEMMA LockedRows ==
  ASSUME TypeOK, FreeRowsAreClean, NEW t \in Transaction, BatchesOf(t) = {}, NEW S \in SUBSET Child,
         S # {}, \A c \in S : child[c].lock = Free /\ child[c].status \notin Final,
         HeldBy(t) = {}, tx'[t].at = "write", tx'[t].todo = S, batch' = batch,
         child' = [c \in Child |-> IF c \in S THEN Lock(t, child[c]) ELSE child[c]]
  PROVE  /\ LocksInOrder(t)' /\ DraftsAgree(t)'
         /\ OnlyOwnRows(t) /\ FreeRowsAreClean'
<1>1. /\ \A c \in S : /\ child'[c].lock = t /\ child'[c].draft = child'[c].status
                      /\ child'[c].status = child[c].status
      /\ \A c \in Child \ S : child'[c] = child[c]
  BY DEF Lock
<1>2. HeldBy(t)' = S /\ BatchesOf(t)' = {} /\ AtEvent(t)'
  BY <1>1 DEF HeldBy, BatchesOf, AtEvent
<1>3. LocksInOrder(t)'
  BY <1>2 DEF LocksInOrder
<1>4. DraftsAgree(t)'
  BY <1>1, <1>2 DEF DraftsAgree
<1>5. OnlyOwnRows(t)
  BY <1>1, Ids DEF OnlyOwnRows, OwnRows
<1>6. FreeRowsAreClean'
  BY <1>1, Ids DEF FreeRowsAreClean
<1> QED BY <1>3, <1>4, <1>5, <1>6

LEMMA BeginSweepKeeps ==
  ASSUME BatchInv, NEW t \in Transaction, BeginSweep(t)
  PROVE  BatchInv'
<1>0. TypeOK /\ LocksInOrder(t) /\ FreeRowsAreClean /\ batch' = batch
  BY DEF BatchInv, BeginSweep
<1>1. PICK S \in SUBSET {c \in Child : child[c].lock = Free /\ child[c].status \notin Final} :
        /\ S # {}
        /\ Begins(t, "write", S)
        /\ child' = [c \in Child |-> IF c \in S THEN Lock(t, child[c]) ELSE child[c]]
  BY DEF BeginSweep
<1>2. /\ tx[t].at = "idle" /\ tx'[t].at = "write" /\ tx'[t].todo = S
      /\ \A u \in Transaction \ {t} : tx'[u] = tx[u]
  BY <1>0, <1>1, NextStatement
<1>3. HeldBy(t) = {} /\ BatchesOf(t) = {}
  BY <1>0, <1>2 DEF LocksInOrder
<1>4. /\ LocksInOrder(t)' /\ DraftsAgree(t)'
      /\ OnlyOwnRows(t) /\ FreeRowsAreClean'
  BY <1>0, <1>1, <1>2, <1>3, LockedRows
<1> QED BY <1>2, <1>4, SessionKeeps DEF Step

LEMMA LockChildKeeps ==
  ASSUME BatchInv, NEW t \in Transaction, LockChild(t)
  PROVE  BatchInv'
<1>0. /\ TypeOK /\ LocksInOrder(t) /\ FreeRowsAreClean /\ batch' = batch
      /\ tx[t].at = "lock"
  BY DEF BatchInv, LockChild
<1>1. PICK c \in Child : tx[t].todo = {c}
  BY <1>0 DEF LocksInOrder
<1>2. HeldBy(t) = {} /\ BatchesOf(t) = {}
  BY <1>0 DEF LocksInOrder
<1>3. CASE child[c].status \in Final
  <2>1. Ends(t) /\ child' = child
    BY <1>1, <1>3 DEF LockChild
  <2>2. tx'[t].at = "idle" /\ \A u \in Transaction \ {t} : tx'[u] = tx[u]
    BY <1>0, <2>1, NextStatement
  <2>3. HeldBy(t)' = {} /\ BatchesOf(t)' = {} /\ ~AtEvent(t)'
    BY <1>0, <1>2, <2>1, <2>2 DEF HeldBy, BatchesOf, AtEvent
  <2>4. LocksInOrder(t)' /\ DraftsAgree(t)'
    BY <2>2, <2>3, NothingHeld
  <2>5. OnlyOwnRows(t) /\ FreeRowsAreClean'
    BY <1>0, <2>1 DEF OnlyOwnRows, OwnRows, FreeRowsAreClean
  <2> QED BY <2>2, <2>4, <2>5, SessionKeeps DEF Step
<1>4. CASE child[c].status \notin Final
  <2>1. /\ child[c].lock = Free /\ Continues(t, "write")
        /\ child' = [child EXCEPT ![c] = Lock(t, @)]
    BY <1>1, <1>4 DEF LockChild
  <2>2. child' = [d \in Child |-> IF d \in {c} THEN Lock(t, child[d]) ELSE child[d]]
    BY <1>0, <2>1 DEF TypeOK
  <2>3. /\ tx'[t].at = "write" /\ tx'[t].todo = {c}
        /\ \A u \in Transaction \ {t} : tx'[u] = tx[u]
    BY <1>0, <1>1, <2>1, NextStatement
  <2>4. {c} \in SUBSET Child /\ {c} # {}
        /\ \A d \in {c} : child[d].lock = Free /\ child[d].status \notin Final
    BY <1>4, <2>1
  <2>5. /\ LocksInOrder(t)' /\ DraftsAgree(t)'
        /\ OnlyOwnRows(t) /\ FreeRowsAreClean'
    BY <1>0, <1>2, <2>2, <2>3, <2>4, LockedRows
  <2> QED BY <2>3, <2>5, SessionKeeps DEF Step
<1> QED BY <1>3, <1>4

\* The row an event is about: the first of those it has still to do.
LEMMA FirstHeld ==
  ASSUME BatchInv, NEW t \in Transaction, AtEvent(t)
  PROVE  /\ First(tx[t].todo) \in tx[t].todo
         /\ \A d \in tx[t].todo \ {First(tx[t].todo)} : Before(First(tx[t].todo), d)
         /\ First(tx[t].todo) \in Child /\ child[First(tx[t].todo)].lock = t
         /\ BatchOf[First(tx[t].todo)] \in Batch
         /\ child[First(tx[t].todo)].status \notin Final
<1>1. tx[t].todo # {} /\ tx[t].todo \subseteq HeldBy(t) /\ tx[t].todo \subseteq Child
  BY DEF BatchInv, LocksInOrder, HeldBy
<1>2. First(tx[t].todo) \in tx[t].todo
      /\ \A d \in tx[t].todo \ {First(tx[t].todo)} : Before(First(tx[t].todo), d)
  BY <1>1, FirstIsFirst
<1>3. First(tx[t].todo) \in Child /\ child[First(tx[t].todo)].lock = t
  BY <1>1, <1>2 DEF HeldBy
<1>4. child[First(tx[t].todo)].status \notin Final
  BY <1>2 DEF BatchInv, DraftsAgree
<1> QED BY <1>2, <1>3, <1>4, Ids

LEMMA WriteKeeps ==
  ASSUME BatchInv, NEW t \in Transaction, Write(t)
  PROVE  BatchInv'
<1>0. /\ TypeOK /\ LocksInOrder(t) /\ DraftsAgree(t) /\ FreeRowsAreClean /\ batch' = batch
      /\ tx[t].at = "write" /\ AtEvent(t) /\ Continues(t, "batch")
  BY DEF BatchInv, Write, AtEvent
<1>1. PICK c \in Child : c = First(tx[t].todo)
  BY <1>0, FirstHeld
<1>2. /\ c \in tx[t].todo /\ child[c].lock = t /\ BatchOf[c] \in Batch /\ child[c].status \notin Final
  BY <1>0, <1>1, FirstHeld
<1>3. PICK s : child' = [child EXCEPT ![c].draft = s]
  BY <1>1 DEF Write
<1>4. /\ \A d \in Child : child'[d].status = child[d].status /\ child'[d].lock = child[d].lock
      /\ \A d \in Child \ {c} : child'[d] = child[d]
  BY <1>0, <1>3 DEF TypeOK
<1>5. /\ tx'[t].at = "batch" /\ tx'[t].todo = tx[t].todo
      /\ \A u \in Transaction \ {t} : tx'[u] = tx[u]
  BY <1>0, NextStatement
<1>6. HeldBy(t)' = HeldBy(t) /\ BatchesOf(t)' = BatchesOf(t) /\ AtEvent(t)'
  BY <1>0, <1>4, <1>5 DEF HeldBy, BatchesOf, AtEvent
<1>7. LocksInOrder(t)'
  BY <1>0, <1>5, <1>6 DEF LocksInOrder
<1>8. DraftsAgree(t)'
  <2>1. \A d \in tx'[t].todo : child'[d].status \notin Final
    BY <1>0, <1>4, <1>5, RowFields DEF DraftsAgree
  <2>2. \A d \in HeldBy(t) : child'[d].draft # child'[d].status =>
          /\ child'[d].status \notin Final
          /\ \/ batch'[BatchOf[d]].lock = t
             \/ tx'[t].at = "batch" /\ d = First(tx'[t].todo)
    <3> SUFFICES ASSUME NEW d \in HeldBy(t), child'[d].draft # child'[d].status
                 PROVE  /\ child'[d].status \notin Final
                        /\ batch'[BatchOf[d]].lock = t \/ d = c
      BY <1>1, <1>5
    <3>1. CASE d = c
      BY <1>2, <1>4, <3>1
    <3>2. CASE d # c
      BY <1>0, <1>4, <3>2 DEF DraftsAgree, HeldBy
    <3> QED BY <3>1, <3>2
  <2>3. \A b \in BatchesOf(t) :
          \/ Agrees(batch'[b].draft, {Seen(t, child'[d]) : d \in ChildrenOf(b)})
          \/ tx'[t].at \in {"batch", "aggregate"} /\ b = BatchOf[First(tx'[t].todo)]
    <3> SUFFICES ASSUME NEW b \in BatchesOf(t), b # BatchOf[c]
                 PROVE  Agrees(batch'[b].draft, {Seen(t, child'[d]) : d \in ChildrenOf(b)})
      BY <1>1, <1>5
    <3>1. Agrees(batch[b].draft, {Seen(t, child[d]) : d \in ChildrenOf(b)})
      BY <1>0 DEF DraftsAgree
    <3>2. \A d \in ChildrenOf(b) : child'[d] = child[d]
      BY <1>4 DEF ChildrenOf
    <3>3. {Seen(t, child'[d]) : d \in ChildrenOf(b)} = {Seen(t, child[d]) : d \in ChildrenOf(b)}
      BY <3>2
    <3> QED BY <1>0, <3>1, <3>3
  <2> QED BY <1>5, <1>6, <2>1, <2>2, <2>3 DEF DraftsAgree
<1>9. OnlyOwnRows(t)
  BY <1>0, <1>2, <1>4, Ids DEF OnlyOwnRows, OwnRows
<1>10. FreeRowsAreClean'
  BY <1>0, <1>2, <1>4, Ids DEF FreeRowsAreClean
<1> QED BY <1>5, <1>7, <1>8, <1>9, <1>10, SessionKeeps DEF Step

LEMMA LockBatchKeeps ==
  ASSUME BatchInv, NEW t \in Transaction, LockBatch(t)
  PROVE  BatchInv'
<1>0. /\ TypeOK /\ LocksInOrder(t) /\ DraftsAgree(t) /\ FreeRowsAreClean /\ child' = child
      /\ tx[t].at = "batch" /\ AtEvent(t) /\ Continues(t, "aggregate")
  BY DEF BatchInv, LockBatch, AtEvent
<1>1. PICK c \in Child : c = First(tx[t].todo)
  BY <1>0, FirstHeld
<1>2. /\ c \in tx[t].todo /\ child[c].lock = t /\ BatchOf[c] \in Batch
      /\ \A d \in tx[t].todo \ {c} : Before(c, d)
  BY <1>0, <1>1, FirstHeld
<1>3. /\ batch[BatchOf[c]].lock \in {Free, t}
      /\ batch' = [batch EXCEPT ![BatchOf[c]] = IF @.lock = Free THEN Lock(t, @) ELSE @]
  BY <1>1 DEF LockBatch
<1>4. /\ \A b \in Batch : batch'[b].status = batch[b].status
      /\ batch'[BatchOf[c]].lock = t
      /\ \A b \in Batch \ {BatchOf[c]} : batch'[b] = batch[b]
  BY <1>0, <1>2, <1>3, Ids DEF TypeOK, Lock
<1>5. /\ tx'[t].at = "aggregate" /\ tx'[t].todo = tx[t].todo
      /\ \A u \in Transaction \ {t} : tx'[u] = tx[u]
  BY <1>0, NextStatement
<1>6. HeldBy(t)' = HeldBy(t) /\ BatchesOf(t)' = BatchesOf(t) \cup {BatchOf[c]} /\ AtEvent(t)'
  BY <1>0, <1>2, <1>4, <1>5 DEF HeldBy, BatchesOf, AtEvent
<1>7. LocksInOrder(t)'
  <2>1. \A d \in tx[t].todo : BatchOf[c] <= BatchOf[d]
    BY <1>0, <1>2, BatchInOrder, RowFields, Ids
  <2>2. \A b \in BatchesOf(t)', d \in tx'[t].todo : b <= BatchOf[d]
    BY <1>0, <1>5, <1>6, <2>1 DEF LocksInOrder
  <2> QED BY <1>0, <1>1, <1>4, <1>5, <1>6, <2>2 DEF LocksInOrder
<1>8. DraftsAgree(t)'
  <2>1. \A d \in HeldBy(t) : child[d].draft # child[d].status =>
          child[d].status \notin Final /\ batch'[BatchOf[d]].lock = t
    <3> SUFFICES ASSUME NEW d \in HeldBy(t), child[d].draft # child[d].status
                 PROVE  child[d].status \notin Final /\ batch'[BatchOf[d]].lock = t
      OBVIOUS
    <3>1. child[d].status \notin Final /\ (batch[BatchOf[d]].lock = t \/ d = c) /\ d \in Child
      BY <1>0, <1>1 DEF DraftsAgree, HeldBy
    <3> QED BY <1>4, <3>1, Ids
  <2>2. \A b \in BatchesOf(t)' :
          \/ Agrees(batch'[b].draft, {Seen(t, child'[d]) : d \in ChildrenOf(b)})
          \/ b = BatchOf[c]
    <3> SUFFICES ASSUME NEW b \in BatchesOf(t), b # BatchOf[c]
                 PROVE  Agrees(batch'[b].draft, {Seen(t, child'[d]) : d \in ChildrenOf(b)})
      BY <1>6
    <3>1. batch'[b] = batch[b]
      BY <1>4 DEF BatchesOf
    <3>2. {Seen(t, child'[d]) : d \in ChildrenOf(b)} = {Seen(t, child[d]) : d \in ChildrenOf(b)}
      BY <1>0
    <3> QED BY <1>0, <1>1, <3>1, <3>2 DEF DraftsAgree
  <2> QED BY <1>0, <1>1, <1>5, <1>6, <2>1, <2>2 DEF DraftsAgree
<1>9. OnlyOwnRows(t)
  BY <1>0, <1>2, <1>3, <1>4, Ids DEF OnlyOwnRows, OwnRows
<1>10. FreeRowsAreClean'
  BY <1>0, <1>2, <1>4, Ids DEF FreeRowsAreClean
<1> QED BY <1>5, <1>7, <1>8, <1>9, <1>10, SessionKeeps DEF Step

LEMMA ReadSiblingsKeeps ==
  ASSUME BatchInv, NEW t \in Transaction, ReadSiblings(t)
  PROVE  BatchInv'
<1>0. /\ TypeOK /\ LocksInOrder(t) /\ DraftsAgree(t) /\ FreeRowsAreClean /\ child' = child
      /\ tx[t].at = "aggregate" /\ AtEvent(t)
  BY DEF BatchInv, ReadSiblings, AtEvent
<1>1. PICK c \in Child : c = First(tx[t].todo)
  BY <1>0, FirstHeld
<1>2. PICK b0 \in Batch : b0 = BatchOf[c]
  BY Ids
<1>3. c \in tx[t].todo /\ batch[b0].lock = t
  BY <1>0, <1>1, <1>2, FirstHeld DEF LocksInOrder
<1>4. PICK v : /\ v = Aggregate({Seen(t, child[d]) : d \in ChildrenOf(b0)})
               /\ batch' = [batch EXCEPT ![b0].draft = v]
  BY <1>1, <1>2 DEF ReadSiblings
<1>5. /\ \A b \in Batch : batch'[b].status = batch[b].status /\ batch'[b].lock = batch[b].lock
      /\ batch'[b0].draft = v
      /\ \A b \in Batch \ {b0} : batch'[b] = batch[b]
  BY <1>0, <1>4 DEF TypeOK
<1>6. /\ tx'[t].at = IF tx[t].todo \ {c} = {} THEN "commit" ELSE "write"
      /\ tx'[t].todo = tx[t].todo \ {c}
      /\ \A u \in Transaction \ {t} : tx'[u] = tx[u]
  BY <1>0, <1>1 DEF ReadSiblings, TypeOK
<1>7. HeldBy(t)' = HeldBy(t) /\ BatchesOf(t)' = BatchesOf(t)
  BY <1>0, <1>5 DEF HeldBy, BatchesOf
<1>8. LocksInOrder(t)'
  <2>1. AtEvent(t)' => tx'[t].todo # {}
    BY <1>6 DEF AtEvent
  <2>2. tx'[t].todo \subseteq HeldBy(t) /\ \A b \in BatchesOf(t), d \in tx'[t].todo : b <= BatchOf[d]
    BY <1>0, <1>6 DEF LocksInOrder
  <2>3. tx'[t].at \in {"commit", "write"}
    BY <1>6
  <2> QED BY <1>7, <2>1, <2>2, <2>3 DEF LocksInOrder
<1>9. DraftsAgree(t)'
  <2>1. \A d \in HeldBy(t) : child'[d].draft # child'[d].status =>
          child'[d].status \notin Final /\ batch'[BatchOf[d]].lock = t
    BY <1>0, <1>5, Ids DEF DraftsAgree, HeldBy
  <2>2. \A b \in BatchesOf(t) : Agrees(batch'[b].draft, {Seen(t, child'[d]) : d \in ChildrenOf(b)})
    <3> SUFFICES ASSUME NEW b \in BatchesOf(t)
                 PROVE  Agrees(batch'[b].draft, {Seen(t, child'[d]) : d \in ChildrenOf(b)})
      OBVIOUS
    <3>1. {Seen(t, child'[d]) : d \in ChildrenOf(b)} = {Seen(t, child[d]) : d \in ChildrenOf(b)}
      BY <1>0
    <3>2. CASE b = b0
      BY <1>4, <1>5, <3>1, <3>2 DEF Agrees
    <3>3. CASE b # b0
      <4>1. batch'[b] = batch[b]
        BY <1>5, <3>3 DEF BatchesOf
      <4> QED BY <1>0, <1>1, <1>2, <3>1, <3>3, <4>1 DEF DraftsAgree
    <3> QED BY <3>2, <3>3
  <2>3. \A d \in tx'[t].todo : child'[d].status \notin Final
    BY <1>0, <1>6 DEF DraftsAgree
  <2>4. tx'[t].at # "cancel"
    BY <1>6
  <2> QED BY <1>7, <2>1, <2>2, <2>3, <2>4 DEF DraftsAgree
<1>10. OnlyOwnRows(t)
  BY <1>0, <1>3, <1>5, Ids DEF OnlyOwnRows, OwnRows
<1>11. FreeRowsAreClean'
  BY <1>0, <1>3, <1>5, Ids DEF FreeRowsAreClean
<1> QED BY <1>6, <1>8, <1>9, <1>10, <1>11, SessionKeeps DEF Step

LEMMA RollbackKeeps ==
  ASSUME BatchInv, NEW t \in Transaction, Rollback(t)
  PROVE  BatchInv'
<1>0. TypeOK /\ FreeRowsAreClean /\ Ends(t)
  BY DEF BatchInv, Rollback
<1>1. /\ \A c \in Child : /\ child'[c].status = child[c].status
                          /\ child[c].lock # t => child'[c] = child[c]
                          /\ child[c].lock = t => child'[c].lock = Free /\ child'[c].draft = child'[c].status
      /\ \A b \in Batch : /\ batch'[b].status = batch[b].status
                          /\ batch[b].lock # t => batch'[b] = batch[b]
                          /\ batch[b].lock = t => batch'[b].lock = Free /\ batch'[b].draft = batch'[b].status
  BY DEF Rollback, Release
<1>2. tx'[t].at = "idle" /\ \A u \in Transaction \ {t} : tx'[u] = tx[u]
  BY <1>0, NextStatement
<1>3. HeldBy(t)' = {} /\ BatchesOf(t)' = {} /\ ~AtEvent(t)'
  BY <1>1, <1>2, Ids DEF HeldBy, BatchesOf, AtEvent
<1>4. LocksInOrder(t)' /\ DraftsAgree(t)'
  BY <1>2, <1>3, NothingHeld
<1>5. OnlyOwnRows(t)
  BY <1>1 DEF OnlyOwnRows, OwnRows
<1>6. FreeRowsAreClean'
  BY <1>0, <1>1 DEF FreeRowsAreClean
<1> QED BY <1>2, <1>4, <1>5, <1>6, SessionKeeps DEF Step

LEMMA CancelLocksKeeps ==
  ASSUME BatchInv, NEW t \in Transaction, CancelLocks(t)
  PROVE  BatchInv'
<1>0. /\ TypeOK /\ LocksInOrder(t) /\ DraftsAgree(t) /\ FreeRowsAreClean /\ batch' = batch
      /\ tx[t].at = "cancel" /\ tx[t].todo # {} /\ tx[t].todo \subseteq Child
  BY RowFields DEF BatchInv, CancelLocks
<1>1. PICK c \in Child : c = First(tx[t].todo)
  BY <1>0, FirstIsFirst
<1>2. c \in tx[t].todo /\ \A d \in tx[t].todo \ {c} : Before(c, d)
  BY <1>0, <1>1, FirstIsFirst
<1>3. /\ child[c].lock = Free /\ child' = [child EXCEPT ![c] = Lock(t, @)]
      /\ tx' = [tx EXCEPT ![t].todo = @ \ {c}]
  BY <1>1 DEF CancelLocks
<1>4. /\ child'[c].lock = t /\ child'[c].draft = child'[c].status /\ child'[c].status = child[c].status
      /\ \A d \in Child \ {c} : child'[d] = child[d]
  BY <1>0, <1>3 DEF TypeOK, Lock
<1>5. /\ tx'[t].at = "cancel" /\ tx'[t].todo = tx[t].todo \ {c}
      /\ \A u \in Transaction \ {t} : tx'[u] = tx[u]
  BY <1>0, <1>3 DEF TypeOK
<1>6. HeldBy(t)' = HeldBy(t) \cup {c} /\ BatchesOf(t)' = {} /\ ~AtEvent(t)'
  BY <1>0, <1>4, <1>5 DEF HeldBy, BatchesOf, AtEvent, LocksInOrder
<1>7. LocksInOrder(t)'
  <2>1. \A x \in HeldBy(t)', d \in tx'[t].todo : Before(x, d)
    BY <1>0, <1>2, <1>5, <1>6 DEF LocksInOrder
  <2> QED BY <1>5, <1>6, <2>1 DEF LocksInOrder, AtEvent
<1>8. DraftsAgree(t)'
  <2>1. \A x \in HeldBy(t)' : child'[x].draft = child'[x].status
    BY <1>0, <1>4, <1>6 DEF DraftsAgree, HeldBy
  <2> QED BY <1>6, <2>1 DEF DraftsAgree, AtEvent
<1>9. OnlyOwnRows(t)
  BY <1>0, <1>3, <1>4, Ids DEF OnlyOwnRows, OwnRows
<1>10. FreeRowsAreClean'
  BY <1>0, <1>4, Ids DEF FreeRowsAreClean
<1> QED BY <1>5, <1>7, <1>8, <1>9, <1>10, SessionKeeps DEF Step

LEMMA CancelLocksBatchKeeps ==
  ASSUME BatchInv, NEW t \in Transaction, CancelLocksBatch(t)
  PROVE  BatchInv'
<1>0. /\ TypeOK /\ LocksInOrder(t) /\ DraftsAgree(t) /\ FreeRowsAreClean /\ child' = child
      /\ tx[t].at = "cancel" /\ Continues(t, "commit") /\ BatchAgreesWithChildren
  BY DEF BatchInv, CancelLocksBatch
<1>1. PICK b0 \in Batch : batch[b0].lock = Free /\ batch' = [batch EXCEPT ![b0] = Lock(t, @)]
  BY DEF CancelLocksBatch
<1>2. /\ \A b \in Batch : batch'[b].status = batch[b].status
      /\ batch'[b0].lock = t /\ batch'[b0].draft = batch[b0].status
      /\ \A b \in Batch \ {b0} : batch'[b] = batch[b]
  BY <1>0, <1>1 DEF TypeOK, Lock
<1>3. tx'[t].at = "commit" /\ \A u \in Transaction \ {t} : tx'[u] = tx[u]
  BY <1>0, NextStatement
<1>4. HeldBy(t)' = HeldBy(t) /\ BatchesOf(t)' = {b0} /\ ~AtEvent(t)'
  BY <1>0, <1>2, <1>3 DEF HeldBy, BatchesOf, AtEvent, LocksInOrder
<1>5. LocksInOrder(t)'
  BY <1>3, <1>4 DEF LocksInOrder, AtEvent
<1>6. DraftsAgree(t)'
  <2>1. \A c \in HeldBy(t) : child'[c].draft = child'[c].status
    BY <1>0 DEF DraftsAgree
  <2>2. \A c \in Child : Seen(t, child'[c]) = child[c].status
    BY <1>0, <2>1 DEF Seen, HeldBy
  <2>3. {Seen(t, child'[c]) : c \in ChildrenOf(b0)} = {child[c].status : c \in ChildrenOf(b0)}
    BY <2>2 DEF ChildrenOf
  <2>4. Agrees(batch'[b0].draft, {Seen(t, child'[c]) : c \in ChildrenOf(b0)})
    BY <1>0, <1>2, <2>3 DEF BatchAgreesWithChildren
  <2> QED BY <1>3, <1>4, <2>1, <2>4 DEF DraftsAgree
<1>7. OnlyOwnRows(t)
  BY <1>0, <1>1, <1>2, Ids DEF OnlyOwnRows, OwnRows
<1>8. FreeRowsAreClean'
  BY <1>0, <1>2, Ids DEF FreeRowsAreClean
<1> QED BY <1>3, <1>5, <1>6, <1>7, <1>8, SessionKeeps DEF Step

\* A commit publishes no change of a child without its batch.
LEMMA CommitKeeps ==
  ASSUME BatchInv, NEW t \in Transaction, Commit(t)
  PROVE  BatchInv'
<1>0. /\ TypeOK /\ LocksInOrder(t) /\ DraftsAgree(t) /\ FreeRowsAreClean /\ BatchAgreesWithChildren
      /\ tx[t].at = "commit" /\ Ends(t)
  BY DEF BatchInv, Commit
<1>1. /\ \A c \in Child : /\ child'[c].status = Seen(t, child[c])
                          /\ child[c].lock # t => child'[c] = child[c]
                          /\ child[c].lock = t => child'[c].lock = Free /\ child'[c].draft = child'[c].status
      /\ \A b \in Batch : /\ batch[b].lock # t => batch'[b] = batch[b]
                          /\ batch[b].lock = t =>
                               /\ batch'[b].status = batch[b].draft
                               /\ batch'[b].lock = Free /\ batch'[b].draft = batch'[b].status
  BY DEF Commit, Publish, Seen
<1>2. tx'[t].at = "idle" /\ \A u \in Transaction \ {t} : tx'[u] = tx[u]
  BY <1>0, NextStatement
<1>3. LocksInOrder(t)' /\ DraftsAgree(t)'
  <2>1. HeldBy(t)' = {} /\ BatchesOf(t)' = {} /\ ~AtEvent(t)'
    BY <1>1, <1>2, Ids DEF HeldBy, BatchesOf, AtEvent
  <2> QED BY <1>2, <2>1, NothingHeld
<1>4. \A b \in Batch : batch[b].lock # t =>
        \A c \in ChildrenOf(b) : child'[c].status = child[c].status
  <2> SUFFICES ASSUME NEW b \in Batch, batch[b].lock # t, NEW c \in ChildrenOf(b)
               PROVE  child'[c].status = child[c].status
    OBVIOUS
  <2>1. c \in Child /\ BatchOf[c] = b
    BY DEF ChildrenOf
  <2>2. CASE child[c].lock = t
    <3>1. child[c].draft = child[c].status
      BY <1>0, <2>1, <2>2 DEF DraftsAgree, HeldBy
    <3> QED BY <1>1, <2>1, <3>1 DEF Seen
  <2>3. CASE child[c].lock # t
    BY <1>1, <2>1, <2>3
  <2> QED BY <2>2, <2>3
<1>5. BatchAgreesWithChildren'
  <2> SUFFICES ASSUME NEW b \in Batch
               PROVE  Agrees(batch'[b].status, {child'[c].status : c \in ChildrenOf(b)})
    BY DEF BatchAgreesWithChildren
  <2>1. CASE batch[b].lock = t
    <3>1. Agrees(batch[b].draft, {Seen(t, child[c]) : c \in ChildrenOf(b)})
      BY <1>0, <2>1 DEF DraftsAgree, BatchesOf
    <3>2. {child'[c].status : c \in ChildrenOf(b)} = {Seen(t, child[c]) : c \in ChildrenOf(b)}
      BY <1>1 DEF ChildrenOf
    <3> QED BY <1>1, <2>1, <3>1, <3>2
  <2>2. CASE batch[b].lock # t
    <3>1. {child'[c].status : c \in ChildrenOf(b)} = {child[c].status : c \in ChildrenOf(b)}
      BY <1>4, <2>2
    <3> QED BY <1>0, <1>1, <2>2, <3>1 DEF BatchAgreesWithChildren
  <2> QED BY <2>1, <2>2
<1>6. \A u \in Transaction \ {t} : LocksInOrder(u)' /\ DraftsAgree(u)'
  <2> SUFFICES ASSUME NEW u \in Transaction \ {t} PROVE LocksInOrder(u)' /\ DraftsAgree(u)'
    OBVIOUS
  <2>1. OwnRows(t)
    BY <1>1 DEF OwnRows
  <2>2. \A b \in BatchesOf(u) : \A c \in ChildrenOf(b) : Seen(u, child'[c]) = Seen(u, child[c])
    BY <1>1, <1>4, Ids DEF BatchesOf, ChildrenOf, Seen
  <2> QED BY <1>0, <1>2, <2>1, <2>2, OthersKeep DEF BatchInv
<1>7. FreeRowsAreClean'
  BY <1>0, <1>1 DEF FreeRowsAreClean
<1>8. TypeOK'
  BY <1>0, TypeInvariance DEF Step
<1> QED BY <1>3, <1>5, <1>6, <1>7, <1>8 DEF BatchInv

-----------------------------------------------------------------------------
(* The theorems.                                                           *)

LEMMA InitHolds == Init => BatchInv
<1> SUFFICES ASSUME Init PROVE BatchInv
  OBVIOUS
<1>1. TypeOK
  BY DEF Init, TypeOK, Status
<1>2. BatchAgreesWithChildren
  <2> SUFFICES ASSUME NEW b \in Batch
               PROVE  Agrees(batch[b].status, {child[c].status : c \in ChildrenOf(b)})
    BY DEF BatchAgreesWithChildren
  <2>1. ChildrenOf(b) # {}
    BY BatchesHaveChildren DEF ChildrenOf
  <2>2. \A c \in ChildrenOf(b) : child[c].status = "queued"
    BY DEF Init, ChildrenOf
  <2>3. {child[c].status : c \in ChildrenOf(b)} = {"queued"}
    BY <2>1, <2>2
  <2> QED BY <2>3 DEF Init, Agrees
<1>3. FreeRowsAreClean
  BY DEF Init, FreeRowsAreClean
<1>4. \A t \in Transaction : tx[t].at = "idle" /\ HeldBy(t) = {} /\ BatchesOf(t) = {}
  BY Ids DEF Init, HeldBy, BatchesOf
<1>5. \A t \in Transaction : LocksInOrder(t) /\ DraftsAgree(t)
  BY <1>4 DEF LocksInOrder, DraftsAgree, AtEvent
<1> QED BY <1>1, <1>2, <1>3, <1>5 DEF BatchInv

LEMMA StepKeeps ==
  ASSUME BatchInv, [Next]_vars
  PROVE  BatchInv'
<1>1. ASSUME NEW t \in Transaction, Step(t)
      PROVE  BatchInv'
  BY <1>1, BeginKeeps, LockChildKeeps, BeginSweepKeeps, WriteKeeps, LockBatchKeeps, ReadSiblingsKeeps,
     CommitKeeps, RollbackKeeps, CancelLocksKeeps, CancelLocksBatchKeeps DEF Step
<1>2. CASE UNCHANGED vars
  <2>1. child' = child /\ batch' = batch /\ tx' = tx
    BY <1>2 DEF vars
  <2>2. TypeOK' /\ FreeRowsAreClean'
    BY <2>1 DEF BatchInv, TypeOK, FreeRowsAreClean
  <2>3. BatchAgreesWithChildren'
    BY <2>1, StatusesKeep DEF BatchInv
  <2>4. ASSUME NEW t \in Transaction
        PROVE  LocksInOrder(t)' /\ DraftsAgree(t)'
    <3>1. LocksInOrder(t) /\ DraftsAgree(t)
      BY DEF BatchInv
    <3>2. LocksInOrder(t)'
      BY <2>1, <3>1 DEF LocksInOrder, HeldBy, BatchesOf, AtEvent
    <3>3. \A b \in Batch :
            {Seen(t, child'[c]) : c \in ChildrenOf(b)} = {Seen(t, child[c]) : c \in ChildrenOf(b)}
      BY <2>1
    <3>4. DraftsAgree(t)'
      BY <2>1, <3>1, <3>3 DEF DraftsAgree, HeldBy, BatchesOf, AtEvent
    <3> QED BY <3>2, <3>4
  <2> QED BY <2>2, <2>3, <2>4 DEF BatchInv
<1> QED BY <1>1, <1>2 DEF Next

\* What holds after every statement of every transaction: no session has
\* changed a child without answering for its batch (ExecutionStore._event).
THEOREM BatchInvariance == Spec => []BatchInv
<1>1. BatchInv /\ [Next]_vars => BatchInv'
  BY StepKeeps
<1> QED BY <1>1, InitHolds, PTL DEF Spec

\* After every commit a batch says what its children say, however their
\* transactions interleave (the comment in ExecutionStore._event).
THEOREM BatchAgreement == Spec => []BatchAgreesWithChildren
<1>1. BatchInv => BatchAgreesWithChildren
  BY DEF BatchInv
<1> QED BY <1>1, BatchInvariance, PTL

\* When all its children are final, so are the drafts of a batch.
LEMMA VerdictKeeps ==
  ASSUME BatchInv, [Next]_vars, NEW b \in Batch, batch[b].status \in Final
  PROVE  batch'[b].status = batch[b].status
<1>1. \A c \in ChildrenOf(b) : child[c].status \in Final
  <2>1. {child[c].status : c \in ChildrenOf(b)} \subseteq Status
    BY RowFields DEF BatchInv, ChildrenOf
  <2>2. {child[c].status : c \in ChildrenOf(b)} \subseteq Final
    BY <2>1, VerdictOnAll DEF BatchInv, BatchAgreesWithChildren
  <2> QED BY <2>2
<1>2. ASSUME NEW t \in Transaction, Commit(t), batch[b].lock = t
      PROVE  batch'[b].status = batch[b].status
  <2>1. DraftsAgree(t) /\ tx[t].at = "commit"
    BY <1>2 DEF BatchInv, Commit
  <2>2. \A c \in ChildrenOf(b) : Seen(t, child[c]) = child[c].status
    BY <1>1, <2>1 DEF DraftsAgree, Seen, HeldBy, ChildrenOf
  <2>3. {Seen(t, child[c]) : c \in ChildrenOf(b)} = {child[c].status : c \in ChildrenOf(b)}
    BY <2>2
  <2>4. Agrees(batch[b].draft, {child[c].status : c \in ChildrenOf(b)})
    BY <1>2, <2>1, <2>3 DEF DraftsAgree, BatchesOf
  <2>5. batch[b].draft = Aggregate({child[c].status : c \in ChildrenOf(b)})
    <3>1. "queued" \notin {child[c].status : c \in ChildrenOf(b)}
      BY <1>1 DEF Final
    <3> QED BY <2>4, <3>1 DEF Agrees
  <2>6. batch[b].status = Aggregate({child[c].status : c \in ChildrenOf(b)})
    BY DEF BatchInv, BatchAgreesWithChildren, Agrees, Final
  <2>7. batch'[b].status = batch[b].draft
    BY <1>2 DEF Commit, Publish
  <2> QED BY <2>5, <2>6, <2>7
<1>3. ASSUME NEW t \in Transaction, Commit(t), batch[b].lock # t
      PROVE  batch'[b].status = batch[b].status
  BY <1>3 DEF Commit, Publish
<1>4. ASSUME NEW t \in Transaction, Step(t), ~Commit(t)
      PROVE  batch'[b].status = batch[b].status
  <2>1. CASE Rollback(t)
    BY <2>1 DEF Rollback, Release
  <2>2. CASE LockBatch(t) \/ CancelLocksBatch(t)
    <3>1. \/ batch' = batch
          \/ \E x \in Batch : batch' = [batch EXCEPT ![x] = Lock(t, @)]
      <4>1. CASE CancelLocksBatch(t)
        BY <4>1 DEF CancelLocksBatch
      <4>2. CASE LockBatch(t)
        <5>1. AtEvent(t)
          BY <4>2 DEF LockBatch, AtEvent
        <5>2. BatchOf[First(tx[t].todo)] \in Batch
          BY <5>1, FirstHeld
        <5> QED BY <4>2, <5>2 DEF LockBatch, BatchInv, TypeOK
      <4> QED BY <2>2, <4>1, <4>2
    <3> QED BY <3>1 DEF BatchInv, TypeOK, Lock
  <2>3. CASE ReadSiblings(t)
    <3>1. \E x, v : batch' = [batch EXCEPT ![x].draft = v]
      BY <2>3 DEF ReadSiblings
    <3> QED BY <3>1 DEF BatchInv, TypeOK
  <2>4. CASE batch' = batch
    BY <2>4
  <2> QED BY <1>4, <2>1, <2>2, <2>3, <2>4
        DEF Step, BeginEvent, LockChild, BeginSweep, Write, BeginCancel, CancelLocks
<1>5. CASE UNCHANGED vars
  BY <1>5 DEF vars
<1> QED BY <1>2, <1>3, <1>4, <1>5 DEF Next

\* A batch that was reported completed or failed never changes again.
THEOREM BatchVerdict == Spec => BatchVerdictIsFinal
<1>1. BatchInv /\ [Next]_vars =>
        [\A b \in Batch : batch[b].status \in Final => batch'[b].status = batch[b].status]_vars
  BY VerdictKeeps
<1> QED BY <1>1, BatchInvariance, PTL DEF Spec, BatchVerdictIsFinal

-----------------------------------------------------------------------------
(* Nobody waits in a circle.                                               *)

\* Who waits for a batch while it holds another waits for a later one, and
\* nobody who holds a batch waits for a child.
LEMMA BatchWaitsAscend ==
  ASSUME BatchInv, NEW u \in Transaction, NEW v \in Transaction, v # u, WaitsFor(u, v),
         NEW b \in Batch, batch[b].lock = u
  PROVE  \E d \in Batch : d > b /\ batch[d].lock = v
<1>1. LocksInOrder(u) /\ b \in BatchesOf(u)
  BY DEF BatchInv, BatchesOf
<1>2. tx[u].at = "batch" /\ AtEvent(u)
  BY <1>1 DEF LocksInOrder, WaitsFor, AtEvent
<1>3. PICK d \in Batch : d = BatchOf[First(tx[u].todo)]
  BY <1>2, FirstHeld
<1>4. First(tx[u].todo) \in tx[u].todo
  BY <1>2, FirstHeld
<1>5. b <= d
  BY <1>1, <1>2, <1>3, <1>4 DEF LocksInOrder
<1>6. batch[d].lock = v
  BY <1>2, <1>3 DEF WaitsFor
<1>7. b # d
  BY <1>6
<1>8. d > b
  BY <1>5, <1>7, Ids
<1> QED BY <1>6, <1>8

\* Whom a session waits for holds a batch, or a child after all its own.
LEMMA ChildWaitsAscend ==
  ASSUME BatchInv, NEW u \in Transaction, NEW v \in Transaction, v # u, WaitsFor(u, v)
  PROVE  \/ \E b \in Batch : batch[b].lock = v
         \/ \E d \in Child : child[d].lock = v /\ \A c \in HeldBy(u) : Before(c, d)
<1>1. LocksInOrder(u) /\ TypeOK
  BY DEF BatchInv
<1>2. CASE tx[u].at = "lock" /\ \E c \in tx[u].todo : child[c].lock = v
  <2>1. PICK d \in Child : child[d].lock = v
    BY <1>1, <1>2, RowFields
  <2>2. HeldBy(u) = {}
    BY <1>1, <1>2 DEF LocksInOrder
  <2> QED BY <2>1, <2>2
<1>3. CASE tx[u].at = "batch" /\ batch[BatchOf[First(tx[u].todo)]].lock = v
  <2>1. BatchOf[First(tx[u].todo)] \in Batch
    BY <1>3, FirstHeld DEF AtEvent
  <2> QED BY <1>3, <2>1
<1>4. CASE tx[u].at = "cancel" /\ tx[u].todo # {} /\ child[First(tx[u].todo)].lock = v
  <2>1. First(tx[u].todo) \in tx[u].todo /\ tx[u].todo \subseteq Child
    BY <1>1, <1>4, FirstIsFirst, RowFields
  <2>2. \A c \in HeldBy(u) : Before(c, First(tx[u].todo))
    BY <1>1, <1>4, <2>1 DEF LocksInOrder
  <2> QED BY <1>4, <2>1, <2>2
<1>5. CASE \E b \in Batch : batch[b].lock = v
  BY <1>5
<1> QED BY <1>2, <1>3, <1>4, <1>5 DEF WaitsFor

\* Of a circle, the session that holds the last row waits for none of it.
LEMMA NoCircle ==
  ASSUME BatchInv, NEW S \in SUBSET Transaction, S # {},
         \A t \in S : \E u \in S : u # t /\ WaitsFor(t, u)
  PROVE  FALSE
<1>1. {b \in Batch : batch[b].lock \in S} = {}
  <2> SUFFICES ASSUME {b \in Batch : batch[b].lock \in S} # {} PROVE FALSE
    OBVIOUS
  <2>1. /\ {b \in Batch : batch[b].lock \in S} \subseteq Nat
        /\ IsFiniteSet({b \in Batch : batch[b].lock \in S})
    BY Ids, FiniteRows, FS_Subset
  <2>2. PICK m \in {b \in Batch : batch[b].lock \in S} :
          \A n \in {b \in Batch : batch[b].lock \in S} : n <= m
    BY <2>1, GreatestNumber
  <2>3. PICK u \in S : batch[m].lock = u
    OBVIOUS
  <2>4. PICK v \in S : v # u /\ WaitsFor(u, v)
    OBVIOUS
  <2>5. PICK d \in Batch : d > m /\ batch[d].lock = v
    BY <2>3, <2>4, BatchWaitsAscend
  <2>6. d <= m
    BY <2>2, <2>5
  <2> QED BY <2>5, <2>6, Ids
<1> DEFINE C == {c \in Child : child[c].lock \in S}
<1>2. \A t \in S : \E v \in S, d \in Child :
        child[d].lock = v /\ \A c \in HeldBy(t) : Before(c, d)
  <2> SUFFICES ASSUME NEW t \in S
               PROVE  \E v \in S, d \in Child : child[d].lock = v /\ \A c \in HeldBy(t) : Before(c, d)
    OBVIOUS
  <2>1. PICK v \in S : v # t /\ WaitsFor(t, v)
    OBVIOUS
  <2>2. ~ \E b \in Batch : batch[b].lock = v
    BY <1>1
  <2> QED BY <2>1, <2>2, ChildWaitsAscend
<1>3. C # {} /\ C \subseteq Child /\ IsFiniteSet(C)
  BY <1>2, FiniteRows, FS_Subset
<1>4. \A c \in C : \E d \in C : Before(c, d)
  BY <1>2 DEF HeldBy
<1> HIDE DEF C
<1>5. PICK m \in {BatchOf[c] : c \in C} : \A n \in {BatchOf[c] : c \in C} : n <= m
  <2>1. {BatchOf[c] : c \in C} \in SUBSET Batch /\ {BatchOf[c] : c \in C} # {}
    BY <1>3, Ids
  <2>2. IsFiniteSet({BatchOf[c] : c \in C}) /\ {BatchOf[c] : c \in C} \subseteq Nat
    BY <2>1, FiniteRows, FS_Subset, Ids
  <2> QED BY <2>1, <2>2, GreatestNumber
<1>6. PICK c \in {x \in C : BatchOf[x] = m} : \A d \in {x \in C : BatchOf[x] = m} : d <= c
  <2>1. /\ {x \in C : BatchOf[x] = m} \in SUBSET C /\ {x \in C : BatchOf[x] = m} # {}
        /\ {x \in C : BatchOf[x] = m} \subseteq Nat
    BY <1>3, Ids
  <2>2. IsFiniteSet({x \in C : BatchOf[x] = m})
    BY <1>3, <2>1, FS_Subset
  <2> QED BY <2>1, <2>2, GreatestNumber
<1>7. PICK d \in C : Before(c, d)
  BY <1>4
<1>8. BatchOf[d] <= m /\ BatchOf[c] = m /\ BatchOf[d] \in Nat /\ m \in Nat /\ c \in Nat /\ d \in Nat
  BY <1>3, <1>5, Ids
<1>9. BatchOf[d] = m
  BY <1>7, <1>8 DEF Before
<1>10. d <= c
  BY <1>6, <1>9
<1> QED BY <1>7, <1>8, <1>9, <1>10 DEF Before

\* Sessions never wait for one another in a circle: children are locked
\* before batches, and batches in the order of their ids (recover_expired,
\* expire_due, cancel_request).
THEOREM NoCircularWait == Spec => []NoDeadlock
<1>1. BatchInv => NoDeadlock
  <2> SUFFICES ASSUME BatchInv, NEW S \in (SUBSET Transaction) \ {{}},
                      ~ \E t \in S : \A u \in S : u # t => ~WaitsFor(t, u)
               PROVE  FALSE
    BY DEF NoDeadlock
  <2>1. \A t \in S : \E u \in S : u # t /\ WaitsFor(t, u)
    OBVIOUS
  <2> QED BY <2>1, NoCircle
<1> QED BY <1>1, BatchInvariance, PTL
=============================================================================
