------------------------ MODULE CircuitBreakerProofs ------------------------
(***************************************************************************)
(* Proofs about CircuitBreaker, for any callers and times: at most one     *)
(* probe is in flight, outcomes of an earlier state have no effect.        *)
(***************************************************************************)
EXTENDS CircuitBreaker, FiniteSetTheorems, TLAPS

-----------------------------------------------------------------------------
(* Constants and records.                                                  *)

LEMMA Constants ==
  /\ None \notin Caller
  /\ Slack \in Nat \ {0} /\ Cooldown \in Nat \ {0} /\ Recovery \in Nat \ {0} /\ RampStep \in Nat \ {0}
  /\ WindowLength \in Nat \ {0} /\ MinCalls \in Nat \ {0}
  /\ Budget \in Nat /\ MaxRetryAfter \in Nat
BY ConstantsAssumption DEF ConstantsAssumption

LEMMA CallerCount == Cardinality(Caller) \in Nat
BY FiniteCallers, FS_CardinalityType

\* Some generation is neither the circuit's nor that of a permit.
LEMMA FreshIsNew ==
  ASSUME TypeOK
  PROVE  /\ Fresh \in Generation /\ Fresh # circuit.generation
         /\ \A c \in Caller : caller[c].generation # Fresh
<1> DEFINE used == {caller[c].generation : c \in Caller} \cup {circuit.generation}
<1>1. IsFiniteSet(used) /\ Cardinality(used) <= Cardinality(Caller) + 1
  <2> DEFINE held == {caller[c].generation : c \in Caller}
  <2>1. IsFiniteSet(held) /\ Cardinality(held) <= Cardinality(Caller)
    <3> DEFINE f == [c \in Caller |-> caller[c].generation]
    <3>1. f \in Surjection(Caller, held)
      BY DEF Surjection
    <3> HIDE DEF f, held
    <3> QED BY <3>1, FiniteCallers, FS_Surjection
  <2>2. IsFiniteSet(used) /\ (Cardinality(used) = Cardinality(held) \/ Cardinality(used) = Cardinality(held) + 1)
    BY <2>1, FS_AddElement
  <2>3. Cardinality(held) \in Nat
    BY <2>1, FS_CardinalityType
  <2> HIDE DEF held, used
  <2> QED BY <2>1, <2>2, <2>3, CallerCount
<1>2. IsFiniteSet(Generation) /\ Cardinality(Generation) = Cardinality(Caller) + 2
  <2>1. /\ IsFiniteSet(0..(Cardinality(Caller) + 1))
        /\ Cardinality(0..(Cardinality(Caller) + 1)) = IF 0 > Cardinality(Caller) + 1 THEN 0 ELSE (Cardinality(Caller) + 1) - 0 + 1
    BY FS_Interval, CallerCount
  <2> QED BY <2>1, CallerCount DEF Generation
<1>3. \E g \in Generation : g \notin used
  <2>1. SUFFICES ASSUME Generation \subseteq used PROVE FALSE
    OBVIOUS
  <2>2. Cardinality(Generation) <= Cardinality(used)
    BY <1>1, <2>1, FS_Subset
  <2>3. Cardinality(used) \in Nat
    BY <1>1, FS_CardinalityType
  <2> HIDE DEF used
  <2> QED BY <1>1, <1>2, <2>2, <2>3, CallerCount
<1> QED BY <1>3 DEF Fresh

LEMMA CircuitFields ==
  ASSUME TypeOK
  PROVE  /\ circuit.state \in {"closed", "open", "half"} /\ circuit.auth \in BOOLEAN
         /\ circuit.until \in 0..Larger(Cooldown, MaxRetryAfter) /\ circuit.generation \in Generation
         /\ circuit.probe \in Caller \cup {None} /\ circuit.probeUntil \in 0..(Budget + Slack)
         /\ circuit.ramp \in 0..Recovery /\ circuit.rampCalls \in 0..Recovery
BY DEF TypeOK, Circuit

LEMMA PermitFields ==
  ASSUME TypeOK, NEW c \in Caller
  PROVE  /\ caller[c] \in Permit
         /\ caller[c].at \in {"idle", "checked", "admitted", "calling", "reporting"}
         /\ caller[c].generation \in Generation /\ caller[c].probe \in BOOLEAN
         /\ caller[c].waited \in 0..Slack
         /\ caller[c].left \in 0..Budget /\ caller[c].outcome \in Outcome \cup {"none"}
         /\ caller[c].stale \in BOOLEAN
BY DEF TypeOK, Permit

LEMMA OpenedFields ==
  ASSUME TypeOK, NEW seconds \in 0..Larger(Cooldown, MaxRetryAfter)
  PROVE  /\ Opened(seconds) \in Circuit
         /\ Opened(seconds).generation = Fresh /\ Opened(seconds).state = "open"
BY FreshIsNew, CircuitFields DEF Opened, TypeOK, Circuit

\* The ramp admits no more calls than it has seconds.
LEMMA RampBound ==
  ASSUME TypeOK, circuit.ramp > 0
  PROVE  RampAllows \in Int /\ RampAllows <= Recovery
<1> DEFINE x == Recovery - circuit.ramp
<1>1. x \in Nat /\ x <= Recovery - 1 /\ Recovery \in Nat
  BY CircuitFields, Constants
<1>2. x \div RampStep \in Int /\ x \div RampStep <= x
  <2> DEFINE q == x \div RampStep
            r == x % RampStep
  <2>0. RampStep \in Nat /\ RampStep > 0
    BY Constants
  <2>1. q \in Int /\ r \in 0..(RampStep - 1) /\ x = RampStep * q + r
    BY <1>1, <2>0
  <2> HIDE DEF q, r, x
  <2>2. q <= x
    BY <1>1, <2>0, <2>1, SMTT(30)
  <2> QED BY <2>1, <2>2 DEF q
<1> QED BY <1>1, <1>2 DEF RampAllows

-----------------------------------------------------------------------------
(* The sorted sets of the window.                                          *)

LEMMA MembersAre ==
  ASSUME NEW count \in [Age -> Nat], NEW a, NEW i
  PROVE  <<a, i>> \in Members(count) <=> a \in Age /\ i \in 1..count[a]
<1>1. ASSUME a \in Age, i \in 1..count[a] PROVE <<a, i>> \in Members(count)
  <2>1. <<a, i>> \in {a} \X (1..count[a])
    BY <1>1
  <2> QED BY <1>1, <2>1 DEF Members
<1>2. ASSUME <<a, i>> \in Members(count) PROVE a \in Age /\ i \in 1..count[a]
  <2>1. PICK b \in Age : <<a, i>> \in {b} \X (1..count[b])
    BY <1>2 DEF Members
  <2> QED BY <2>1
<1> QED BY <1>1, <1>2

LEMMA MembersArePairs ==
  ASSUME NEW count \in [Age -> Nat], NEW e \in Members(count)
  PROVE  e = <<e[1], e[2]>> /\ e[1] \in Age /\ e[2] \in 1..count[e[1]]
<1>1. PICK a \in Age : e \in {a} \X (1..count[a])
  BY DEF Members
<1> QED BY <1>1

LEMMA MembersFinite ==
  ASSUME NEW count \in [Age -> Nat]
  PROVE  IsFiniteSet(Members(count)) /\ Cardinality(Members(count)) \in Nat
<1> DEFINE row(a) == {a} \X (1..count[a])
           rows == {row(a) : a \in Age}
<1>1. IsFiniteSet(Age)
  <2>1. 0 \in Int /\ WindowLength - 1 \in Int
    BY Constants
  <2> QED BY <2>1, FS_Interval DEF Age
<1>2. IsFiniteSet(rows)
  <2> DEFINE f == [a \in Age |-> row(a)]
  <2>1. f \in Surjection(Age, rows)
    BY DEF Surjection
  <2> HIDE DEF f, rows
  <2> QED BY <1>1, <2>1, FS_Surjection
<1>3. \A r \in rows : IsFiniteSet(r)
  <2>1. ASSUME NEW a \in Age PROVE IsFiniteSet(row(a))
    <3>1. IsFiniteSet({a})
      BY FS_Singleton
    <3>2. IsFiniteSet(1..count[a])
      BY FS_Interval
    <3> QED BY <3>1, <3>2, FS_Product
  <2> QED BY <2>1
<1>4. Members(count) = UNION rows
  BY DEF Members
<1>5. IsFiniteSet(Members(count))
  <2> HIDE DEF rows
  <2> QED BY <1>2, <1>3, <1>4, FS_UNION
<1> QED BY <1>5, FS_CardinalityType

\* A call more in this second is one member more (ZADD).
LEMMA OneMember ==
  ASSUME NEW count \in [Age -> Nat], NEW more \in [Age -> Nat],
         more = [count EXCEPT ![0] = count[0] + 1]
  PROVE  Cardinality(Members(more)) = Cardinality(Members(count)) + 1
<1> DEFINE new == <<0, count[0] + 1>>
<1>0. 0 \in Age /\ count[0] \in Nat /\ more[0] = count[0] + 1
  BY Constants DEF Age
<1>1. new \notin Members(count)
  BY <1>0, MembersAre
<1>2. Members(more) \subseteq Members(count) \cup {new}
  <2> SUFFICES ASSUME NEW e \in Members(more), e # new PROVE e \in Members(count)
    OBVIOUS
  <2>1. e = <<e[1], e[2]>> /\ e[1] \in Age /\ e[2] \in 1..more[e[1]]
    BY MembersArePairs
  <2>2. e[2] \in 1..count[e[1]]
    BY <1>0, <2>1
  <2>3. <<e[1], e[2]>> \in Members(count)
    BY <2>1, <2>2, MembersAre
  <2> QED BY <2>1, <2>3
<1>3. Members(count) \cup {new} \subseteq Members(more)
  <2>1. ASSUME NEW e \in Members(count) PROVE e \in Members(more)
    <3>1. e = <<e[1], e[2]>> /\ e[1] \in Age /\ e[2] \in 1..count[e[1]]
      BY MembersArePairs
    <3>2. e[2] \in 1..more[e[1]]
      BY <1>0, <3>1
    <3>3. <<e[1], e[2]>> \in Members(more)
      BY <3>1, <3>2, MembersAre
    <3> QED BY <3>1, <3>3
  <2>2. new \in Members(more)
    <3>1. count[0] + 1 \in 1..more[0]
      BY <1>0
    <3> QED BY <1>0, <3>1, MembersAre
  <2> QED BY <2>1, <2>2
<1>4. Members(more) = Members(count) \cup {new}
  BY <1>2, <1>3
<1>5. IsFiniteSet(Members(count))
  BY MembersFinite
<1> HIDE DEF new
<1> QED BY <1>1, <1>4, <1>5, FS_AddElement

\* A second later the window has lost its oldest members and gained none
\* (ZREMRANGEBYSCORE).
LEMMA FewerMembers ==
  ASSUME NEW count \in [Age -> Nat], NEW older \in [Age -> Nat],
         \A a \in Age : older[a] = IF a = 0 THEN 0 ELSE count[a - 1]
  PROVE  Cardinality(Members(older)) <= Cardinality(Members(count))
<1> DEFINE f == [e \in Members(older) |-> <<e[1] - 1, e[2]>>]
<1>1. ASSUME NEW e \in Members(older)
      PROVE  e = <<e[1], e[2]>> /\ e[1] \in Int /\ <<e[1] - 1, e[2]>> \in Members(count)
  <2>1. e = <<e[1], e[2]>> /\ e[1] \in Age /\ e[2] \in 1..older[e[1]]
    BY MembersArePairs
  <2>2. e[1] # 0
    BY <2>1
  <2>3. e[1] - 1 \in Age
    BY <2>1, <2>2, Constants DEF Age
  <2>4. e[2] \in 1..count[e[1] - 1]
    BY <2>1, <2>2
  <2>5. <<e[1] - 1, e[2]>> \in Members(count)
    BY <2>3, <2>4, MembersAre
  <2>6. e[1] \in Int
    BY <2>1 DEF Age
  <2> QED BY <2>1, <2>5, <2>6
<1>2. f \in [Members(older) -> Members(count)]
  BY <1>1
<1>3. ASSUME NEW d \in Members(older), NEW e \in Members(older), f[d] = f[e]
      PROVE  d = e
  <2>1. d[1] - 1 = e[1] - 1 /\ d[2] = e[2]
    BY <1>3
  <2>2. d[1] \in Int /\ e[1] \in Int
    BY <1>1
  <2>3. d[1] = e[1]
    BY <2>1, <2>2
  <2> QED BY <1>1, <2>1, <2>3
<1>4. f \in Injection(Members(older), Members(count))
  <2>1. \A d, e \in Members(older) : f[d] = f[e] => d = e
    BY <1>3
  <2> HIDE DEF f
  <2> QED BY <1>2, <2>1 DEF Injection, IsInjective
<1>5. IsFiniteSet(Members(count))
  BY MembersFinite
<1> HIDE DEF f
<1> QED BY <1>4, <1>5, FS_Injection

LEMMA NoMembers ==
  ASSUME NEW count \in [Age -> Nat], \A a \in Age : count[a] = 0
  PROVE  Cardinality(Members(count)) = 0
<1>1. ASSUME NEW e \in Members(count) PROVE FALSE
  BY MembersArePairs
<1>2. Members(count) = {}
  BY <1>1
<1> QED BY <1>2, FS_EmptySet

LEMMA CallsCount ==
  ASSUME TypeOK
  PROVE  [a \in Age |-> window[a].calls] \in [Age -> Nat] /\ Calls \in Nat
<1>1. [a \in Age |-> window[a].calls] \in [Age -> Nat]
  BY DEF TypeOK
<1> QED BY <1>1, MembersFinite DEF Calls

-----------------------------------------------------------------------------
(* What a step does to the permits.                                        *)

LEMMA NoPermitType == NoPermit \in Permit
BY CallerCount, Constants DEF NoPermit, Permit, Generation

\* A caller that is done leaves the others as they are.
LEMMA EndsPermits ==
  ASSUME TypeOK, NEW c \in Caller, Ends(c)
  PROVE  /\ caller' \in [Caller -> Permit]
         /\ caller'[c] = NoPermit
         /\ \A d \in Caller \ {c} : caller'[d] = caller[d]
BY NoPermitType DEF TypeOK, Ends

\* The other permits keep all but the mark that they are outdated.
LEMMA OutdatedPermits ==
  ASSUME TypeOK, NEW d \in Caller
  PROVE  /\ Outdated[d] \in Permit
         /\ Outdated[d].at = caller[d].at /\ Outdated[d].probe = caller[d].probe
         /\ Outdated[d].waited = caller[d].waited
         /\ Outdated[d].generation = caller[d].generation
         /\ Outdated[d].outcome = caller[d].outcome
<1> DEFINE out == caller[d].at \in {"admitted", "calling", "reporting"}
<1>1. Outdated[d] = [caller[d] EXCEPT !.stale = out]
  BY DEF Outdated
<1>2. out \in BOOLEAN /\ caller[d] \in Permit
  BY PermitFields
<1> HIDE DEF out
<1> QED BY <1>1, <1>2 DEF Permit

LEMMA EndsOutdatingPermits ==
  ASSUME TypeOK, NEW c \in Caller, EndsOutdating(c)
  PROVE  /\ caller' \in [Caller -> Permit]
         /\ caller'[c] = NoPermit
         /\ \A d \in Caller \ {c} : caller'[d] = Outdated[d]
<1>1. Outdated \in [Caller -> Permit]
  BY OutdatedPermits DEF Outdated
<1> QED BY <1>1, NoPermitType DEF EndsOutdating

LEMMA PermittedPermits ==
  ASSUME TypeOK, NEW others \in [Caller -> Permit], NEW c \in Caller,
         NEW generation \in Generation, NEW probe \in BOOLEAN
  PROVE  /\ Permitted(others, c, generation, probe) \in [Caller -> Permit]
         /\ Permitted(others, c, generation, probe)[c]
              = [at |-> "admitted", generation |-> generation, probe |-> probe,
                 waited |-> 0, left |-> Budget, outcome |-> "none", stale |-> FALSE]
         /\ \A d \in Caller \ {c} : Permitted(others, c, generation, probe)[d] = others[d]
<1>1. [at |-> "admitted", generation |-> generation, probe |-> probe,
       waited |-> 0, left |-> Budget, outcome |-> "none", stale |-> FALSE] \in Permit
  BY Constants DEF Permit
<1> QED BY <1>1 DEF Permitted

\* Once the circuit has a generation that nobody holds, every permit that is
\* marked is outdated indeed.
LEMMA NewGeneration ==
  ASSUME TypeOK, NEW c \in Caller, EndsOutdating(c), circuit'.generation = Fresh
  PROVE  \A d \in Caller : GenerationInv(d)'
<1> TAKE d \in Caller
<1>1. CASE d = c
  BY <1>1, EndsOutdatingPermits DEF GenerationInv, NoPermit
<1>2. CASE d # c
  BY <1>2, EndsOutdatingPermits, OutdatedPermits, FreshIsNew DEF GenerationInv
<1> QED BY <1>1, <1>2

\* When the circuit accepts a report, no probe is out in time.
LEMMA NoOtherProbe ==
  ASSUME BreakerInv, NEW c \in Caller, caller[c].at = "reporting", ~Fenced(c)
  PROVE  \A d \in Caller : ~InTime(d)
BY DEF BreakerInv, InTime, Out, ProbeInv, InTime, Out, Fenced

LEMMA NoProbeAfterwards ==
  ASSUME BreakerInv, NEW c \in Caller, caller[c].at = "reporting", ~Fenced(c), EndsOutdating(c)
  PROVE  \A d \in Caller : ProbeInv(d)'
<1> TAKE d \in Caller
<1>1. CASE d = c
  BY <1>1, EndsOutdatingPermits DEF BreakerInv, InTime, Out, ProbeInv, NoPermit
<1>2. CASE d # c
  BY <1>2, EndsOutdatingPermits, OutdatedPermits, NoOtherProbe DEF BreakerInv, InTime, Out, ProbeInv
<1> QED BY <1>1, <1>2

\* A caller that ends without moving the circuit's probe and generation keeps
\* the invariant of the others.
LEMMA EndsKeeps ==
  ASSUME BreakerInv, NEW c \in Caller, Ends(c),
         circuit'.state = circuit.state, circuit'.probe = circuit.probe,
         circuit'.probeUntil = circuit.probeUntil, circuit'.generation = circuit.generation
  PROVE  \A d \in Caller : ProbeInv(d)' /\ GenerationInv(d)' /\ OutcomeInv(d)'
<1> TAKE d \in Caller
<1>1. CASE d = c
  BY <1>1, EndsPermits DEF BreakerInv, InTime, Out, ProbeInv, GenerationInv, OutcomeInv, NoPermit
<1>2. CASE d # c
  BY <1>2, EndsPermits DEF BreakerInv, InTime, Out, ProbeInv, GenerationInv, OutcomeInv
<1> QED BY <1>1, <1>2

LEMMA OutcomesAfterwards ==
  ASSUME BreakerInv, NEW c \in Caller, EndsOutdating(c)
  PROVE  \A d \in Caller : OutcomeInv(d)'
<1> TAKE d \in Caller
<1>1. CASE d = c
  BY <1>1, EndsOutdatingPermits DEF BreakerInv, OutcomeInv, NoPermit
<1>2. CASE d # c
  BY <1>2, EndsOutdatingPermits, OutdatedPermits DEF BreakerInv, OutcomeInv
<1> QED BY <1>1, <1>2

LEMMA SameWindow ==
  ASSUME RecentInv, UNCHANGED <<window, recorded>>
  PROVE  RecentInv'
BY DEF RecentInv, Calls, Members, Age

-----------------------------------------------------------------------------
(* The invariant, one step per action.                                     *)

LEMMA InitBreaker == Init => BreakerInv
<1> SUFFICES ASSUME Init PROVE BreakerInv
  OBVIOUS
<1>1. circuit \in Circuit
  BY CallerCount, Constants DEF Init, Circuit, Generation, Larger
<1>2. window \in [Age -> [calls : Nat, failures : Nat]] /\ caller \in [Caller -> Permit]
  BY NoPermitType DEF Init, NoCalls
<1>3. paused \in BOOLEAN /\ repaired \in BOOLEAN
  BY Zenon DEF Init
<1>5. recorded \in 0..MinCalls
  BY Constants DEF Init
<1>4. TypeOK
  BY <1>1, <1>2, <1>3, <1>5 DEF TypeOK
<1>6. RecentInv
  <2> DEFINE count == [a \in Age |-> window[a].calls]
  <2>1. count \in [Age -> Nat] /\ \A a \in Age : count[a] = 0
    BY DEF Init, NoCalls
  <2>2. Cardinality(Members(count)) = 0
    <3> HIDE DEF count
    <3> QED BY <2>1, NoMembers
  <2>3. Calls = 0 /\ recorded = 0
    BY <2>2 DEF Calls, Init
  <2> QED BY <2>3 DEF RecentInv
<1> QED BY <1>4, <1>6 DEF Init, BreakerInv, InTime, Out, ProbeInv, GenerationInv, OutcomeInv, NoPermit

\* The steps that leave the circuit's probe and generation alone and end a call.
LEMMA QuietEnds ==
  ASSUME BreakerInv, NEW c \in Caller, Ends(c), UNCHANGED <<window, paused, repaired, recorded>>,
         circuit' = circuit \/ circuit' = [circuit EXCEPT !.auth = TRUE]
  PROVE  BreakerInv'
<1>1. TypeOK
  BY DEF BreakerInv
<1>2. circuit' \in Circuit /\ circuit'.state = circuit.state /\ circuit'.probe = circuit.probe
      /\ circuit'.probeUntil = circuit.probeUntil /\ circuit'.generation = circuit.generation
  BY <1>1, CircuitFields DEF TypeOK, Circuit
<1>3. TypeOK'
  BY <1>1, <1>2, EndsPermits DEF TypeOK
<1>4. RecentInv'
  BY SameWindow DEF BreakerInv
<1> QED BY <1>2, <1>3, <1>4, EndsKeeps DEF BreakerInv

\* The steps that accept a report and give the circuit a new generation.
LEMMA NewCircuit ==
  ASSUME BreakerInv, NEW c \in Caller, caller[c].at = "reporting", ~Fenced(c), EndsOutdating(c),
         circuit' \in Circuit, circuit'.generation = Fresh,
         window' \in [Age -> [calls : Nat, failures : Nat]], recorded' \in 0..MinCalls,
         RecentInv', UNCHANGED <<paused, repaired>>
  PROVE  BreakerInv'
<1>1. TypeOK
  BY DEF BreakerInv
<1>2. TypeOK'
  BY <1>1, EndsOutdatingPermits DEF TypeOK
<1> QED BY <1>1, <1>2, NewGeneration, NoProbeAfterwards, OutcomesAfterwards DEF BreakerInv

LEMMA AcquireProbeKeeps ==
  ASSUME BreakerInv, NEW c \in Caller, AcquireProbe(c)
  PROVE  BreakerInv'
<1>1. TypeOK
  BY DEF BreakerInv
<1>2. circuit' \in Circuit /\ circuit'.state = "half" /\ circuit'.probe = c
      /\ circuit'.probeUntil = Budget + Slack /\ circuit'.generation = Fresh
  <2>1. ProbeTime \in 0..(Budget + Slack) /\ ProbeTime = Budget + Slack
    BY Constants DEF ProbeTime
  <2> QED BY <1>1, <2>1, CircuitFields, FreshIsNew DEF AcquireProbe, Circuit, TypeOK
<1>3. Outdated \in [Caller -> Permit]
  BY <1>1, OutdatedPermits DEF Outdated
<1>4. /\ caller' \in [Caller -> Permit]
      /\ caller'[c] = [at |-> "admitted", generation |-> Fresh, probe |-> TRUE,
                       waited |-> 0, left |-> Budget, outcome |-> "none", stale |-> FALSE]
      /\ \A d \in Caller \ {c} : caller'[d] = Outdated[d]
  <2> DEFINE p == TRUE
  <2>1. caller' = Permitted(Outdated, c, Fresh, p)
    BY DEF AcquireProbe
  <2>2. Fresh \in Generation /\ p \in BOOLEAN
    BY <1>1, FreshIsNew
  <2> HIDE DEF p
  <2>3. /\ caller' \in [Caller -> Permit]
        /\ caller'[c] = [at |-> "admitted", generation |-> Fresh, probe |-> p,
                         waited |-> 0, left |-> Budget, outcome |-> "none", stale |-> FALSE]
        /\ \A d \in Caller \ {c} : caller'[d] = Outdated[d]
    BY <1>1, <1>3, <2>1, <2>2, PermittedPermits
  <2> QED BY <2>3 DEF p
<1>5. TypeOK'
  BY <1>1, <1>2, <1>4 DEF TypeOK, AcquireProbe
<1>6. ASSUME NEW d \in Caller PROVE ~InTime(d)
  <2>1. ProbeInv(d) /\ caller[d].left \in Nat /\ caller[d].waited \in Nat /\ Slack \in Nat
    BY <1>1, PermitFields, Constants DEF BreakerInv
  <2> QED BY <2>1 DEF AcquireProbe, MayProbe, ProbeInv, InTime
<1>7. ASSUME NEW d \in Caller PROVE ProbeInv(d)' /\ GenerationInv(d)' /\ OutcomeInv(d)'
  <2>1. CASE d = c
    BY <1>2, <1>4, <2>1, Constants DEF InTime, Out, ProbeInv, GenerationInv, OutcomeInv
  <2>2. CASE d # c
    BY <1>1, <1>2, <1>4, <1>6, <2>2, OutdatedPermits, FreshIsNew
       DEF BreakerInv, InTime, Out, ProbeInv, GenerationInv, OutcomeInv
  <2> QED BY <2>1, <2>2
<1>8. RecentInv'
  BY SameWindow DEF BreakerInv, AcquireProbe
<1> QED BY <1>5, <1>7, <1>8 DEF BreakerInv

LEMMA AcquireClosedKeeps ==
  ASSUME BreakerInv, NEW c \in Caller, AcquireClosed(c)
  PROVE  BreakerInv'
<1>1. TypeOK /\ caller \in [Caller -> Permit]
  BY DEF BreakerInv, TypeOK
<1>2. circuit' \in Circuit /\ circuit'.state = circuit.state /\ circuit'.probe = circuit.probe
      /\ circuit'.probeUntil = circuit.probeUntil /\ circuit'.generation = circuit.generation
  <2>1. CASE circuit.ramp > 0
    <3>1. circuit.rampCalls + 1 \in 0..Recovery
      BY <1>1, <2>1, RampBound, CircuitFields, Constants DEF AcquireClosed
    <3> QED BY <1>1, <2>1, <3>1, CircuitFields DEF AcquireClosed, Circuit, TypeOK
  <2>2. CASE ~(circuit.ramp > 0)
    BY <1>1, <2>2, CircuitFields DEF AcquireClosed, TypeOK
  <2> QED BY <2>1, <2>2
<1>3. /\ caller' \in [Caller -> Permit]
      /\ caller'[c] = [at |-> "admitted", generation |-> circuit.generation, probe |-> FALSE,
                       waited |-> 0, left |-> Budget, outcome |-> "none", stale |-> FALSE]
      /\ \A d \in Caller \ {c} : caller'[d] = caller[d]
  <2> DEFINE p == FALSE
  <2>1. caller' = Permitted(caller, c, circuit.generation, p)
    BY DEF AcquireClosed
  <2>2. circuit.generation \in Generation /\ p \in BOOLEAN
    BY <1>1, CircuitFields
  <2> HIDE DEF p
  <2>3. /\ caller' \in [Caller -> Permit]
        /\ caller'[c] = [at |-> "admitted", generation |-> circuit.generation, probe |-> p,
                         waited |-> 0, left |-> Budget, outcome |-> "none", stale |-> FALSE]
        /\ \A d \in Caller \ {c} : caller'[d] = caller[d]
    BY <1>1, <2>1, <2>2, PermittedPermits
  <2> QED BY <2>3 DEF p
<1>4. TypeOK'
  BY <1>1, <1>2, <1>3 DEF TypeOK, AcquireClosed
<1>5. ASSUME NEW d \in Caller PROVE ProbeInv(d)' /\ GenerationInv(d)' /\ OutcomeInv(d)'
  <2>1. CASE d = c
    BY <1>3, <2>1 DEF InTime, Out, ProbeInv, GenerationInv, OutcomeInv
  <2>2. CASE d # c
    BY <1>2, <1>3, <2>2 DEF BreakerInv, InTime, Out, ProbeInv, GenerationInv, OutcomeInv
  <2> QED BY <2>1, <2>2
<1>6. RecentInv'
  BY SameWindow DEF BreakerInv, AcquireClosed
<1> QED BY <1>4, <1>5, <1>6 DEF BreakerInv

\* The steps of a caller that touch nothing but its own permit, which is no probe
\* out in time unless it was one before, and is not marked unless it was before.
LEMMA OwnStepKeeps ==
  ASSUME BreakerInv, NEW c \in Caller, NEW p \in Permit,
         caller' = [caller EXCEPT ![c] = p],
         p.at \in {"admitted", "calling"} =>
           Out(c) /\ p.probe = caller[c].probe /\ p.waited = caller[c].waited /\ p.left = caller[c].left,
         p.outcome # "none" => p.at = "reporting",
         p.stale => caller[c].stale /\ p.generation = caller[c].generation,
         UNCHANGED <<circuit, window, recorded>>, paused' \in BOOLEAN, repaired' \in BOOLEAN
  PROVE  BreakerInv'
<1>1. TypeOK
  BY DEF BreakerInv
<1>2. caller' \in [Caller -> Permit] /\ caller'[c] = p /\ \A d \in Caller \ {c} : caller'[d] = caller[d]
  BY <1>1 DEF TypeOK
<1>3. TypeOK'
  BY <1>1, <1>2 DEF TypeOK
<1>4. ASSUME NEW d \in Caller PROVE ProbeInv(d)' /\ GenerationInv(d)' /\ OutcomeInv(d)'
  <2>1. CASE d = c
    BY <1>2, <2>1 DEF BreakerInv, InTime, Out, ProbeInv, GenerationInv, OutcomeInv
  <2>2. CASE d # c
    BY <1>2, <2>2 DEF BreakerInv, InTime, Out, ProbeInv, GenerationInv, OutcomeInv
  <2> QED BY <2>1, <2>2
<1>5. RecentInv'
  BY SameWindow DEF BreakerInv
<1> QED BY <1>3, <1>4, <1>5 DEF BreakerInv

LEMMA AcquireDeferredKeeps ==
  ASSUME BreakerInv, NEW c \in Caller, AcquireDeferred(c)
  PROVE  BreakerInv'
<1>1. NoPermit \in Permit /\ NoPermit.at = "idle" /\ ~NoPermit.stale /\ NoPermit.outcome = "none"
  BY NoPermitType DEF NoPermit
<1>2. paused' \in BOOLEAN /\ repaired' \in BOOLEAN
  BY Zenon DEF BreakerInv, TypeOK, AcquireDeferred
<1> QED BY <1>1, <1>2, OwnStepKeeps DEF AcquireDeferred

LEMMA AcquireKeeps ==
  ASSUME BreakerInv, NEW c \in Caller, Acquire(c)
  PROVE  BreakerInv'
BY AcquireProbeKeeps, AcquireClosedKeeps, AcquireDeferredKeeps DEF Acquire

\* A recorded call adds one to the calls that count.
LEMMA CallRecorded ==
  ASSUME TypeOK, NEW c \in Caller, RecordCall(c)
  PROVE  Calls' = Calls + 1 /\ Calls \in Nat
<1> DEFINE count == [a \in Age |-> window[a].calls]
           more == [a \in Age |-> window'[a].calls]
<1>1. count \in [Age -> Nat] /\ 0 \in Age
  BY Constants DEF TypeOK, Age
<1>2. PICK failed \in {0, 1} :
        window' = [window EXCEPT ![0] = [calls |-> window[0].calls + 1,
                                         failures |-> window[0].failures + failed]]
  BY DEF RecordCall
<1>3. window \in [Age -> [calls : Nat, failures : Nat]]
  BY DEF TypeOK
<1>4. more = [count EXCEPT ![0] = count[0] + 1] /\ more \in [Age -> Nat]
  <2>1. ASSUME NEW a \in Age PROVE more[a] = IF a = 0 THEN count[0] + 1 ELSE count[a]
    BY <1>1, <1>2, <1>3
  <2>2. more \in [Age -> Nat]
    BY <1>1, <2>1
  <2> HIDE DEF count, more
  <2> QED BY <1>1, <2>1, <2>2
<1>5. Calls' = Cardinality(Members(more)) /\ Calls = Cardinality(Members(count))
  BY DEF Calls, Members, Age
<1> HIDE DEF count, more
<1> QED BY <1>1, <1>4, <1>5, OneMember, MembersFinite

LEMMA RecordKeeps ==
  ASSUME BreakerInv, NEW c \in Caller, Record(c)
  PROVE  BreakerInv'
<1>1. TypeOK
  BY DEF BreakerInv
<1>2. Cooldown \in 0..Larger(Cooldown, MaxRetryAfter)
      /\ \A retryAfter \in 0..MaxRetryAfter : retryAfter \in 0..Larger(Cooldown, MaxRetryAfter)
  BY Constants DEF Larger
<1>3. CASE RecordFenced(c)
  BY <1>3, QuietEnds DEF RecordFenced
<1>4. CASE RecordAuth(c)
  BY <1>4, QuietEnds DEF RecordAuth
<1>5. CASE RecordRate(c)
  <2>1. PICK retryAfter \in 0..MaxRetryAfter : circuit' = Opened(retryAfter)
    BY <1>5 DEF RecordRate
  <2>2. circuit' \in Circuit /\ circuit'.generation = Fresh
    BY <1>1, <1>2, <2>1, OpenedFields
  <2>3. RecentInv'
    BY <1>5, SameWindow DEF BreakerInv, RecordRate
  <2> QED BY <1>1, <1>5, <2>2, <2>3, NewCircuit DEF RecordRate, Reports, TypeOK
<1>6. CASE RecordProbe(c)
  <2> DEFINE settled == [circuit EXCEPT !.generation = Fresh, !.probe = None, !.probeUntil = 0]
  <2>1. settled \in Circuit /\ settled.generation = Fresh
    <3>1. Fresh \in Generation /\ circuit \in Circuit /\ 0 \in 0..(Budget + Slack)
      BY <1>1, FreshIsNew, Constants DEF TypeOK
    <3> QED BY <3>1 DEF Circuit
  <2> HIDE DEF settled
  <2>2. CASE caller[c].outcome = "success"
    <3>1. circuit' = [settled EXCEPT !.state = "closed", !.ramp = Recovery]
          /\ window' = NoCalls /\ recorded' = 0
      BY <1>6, <2>2 DEF RecordProbe, Recovered, settled
    <3>2. circuit' \in Circuit /\ circuit'.generation = Fresh
      <4>1. Recovery \in 0..Recovery
        BY Constants
      <4> QED BY <2>1, <3>1, <4>1 DEF Circuit
    <3>3. window' \in [Age -> [calls : Nat, failures : Nat]] /\ recorded' \in 0..MinCalls
      BY <3>1, Constants DEF NoCalls
    <3>4. RecentInv'
      <4> DEFINE count == [a \in Age |-> window'[a].calls]
      <4>1. count \in [Age -> Nat] /\ \A a \in Age : count[a] = 0
        BY <3>1 DEF NoCalls
      <4>2. Calls' = Cardinality(Members(count))
        BY DEF Calls, Members, Age
      <4>3. Calls' = 0
        <5> HIDE DEF count
        <5> QED BY <4>1, <4>2, NoMembers
      <4> QED BY <3>1, <4>3 DEF RecentInv
    <3> QED BY <1>6, <3>2, <3>3, <3>4, NewCircuit DEF RecordProbe
  <2>3. CASE caller[c].outcome # "success"
    <3>1. circuit' = [settled EXCEPT !.state = "open", !.until = Cooldown]
          /\ UNCHANGED <<window, recorded>>
      BY <1>6, <2>3 DEF RecordProbe, settled
    <3>2. circuit' \in Circuit /\ circuit'.generation = Fresh
      BY <1>2, <2>1, <3>1 DEF Circuit
    <3>3. RecentInv'
      BY <3>1, SameWindow DEF BreakerInv
    <3> QED BY <1>1, <1>6, <3>1, <3>2, <3>3, NewCircuit DEF RecordProbe, TypeOK
  <2> QED BY <2>2, <2>3
<1>7. CASE RecordIgnored(c)
  BY <1>7, QuietEnds DEF RecordIgnored
<1>8. CASE RecordCall(c)
  <2>1. window' \in [Age -> [calls : Nat, failures : Nat]]
    <3>1. window \in [Age -> [calls : Nat, failures : Nat]]
      BY <1>1 DEF TypeOK
    <3>2. PICK failed \in {0, 1} :
            window' = [window EXCEPT ![0] = [calls |-> @.calls + 1, failures |-> @.failures + failed]]
      BY <1>8 DEF RecordCall
    <3>3. 0 \in Age
      BY Constants DEF Age
    <3>4. [calls |-> window[0].calls + 1, failures |-> window[0].failures + failed]
            \in [calls : Nat, failures : Nat]
      BY <3>1, <3>3
    <3> QED BY <3>1, <3>2, <3>4
  <2>2. recorded' \in 0..MinCalls
    BY <1>1, <1>8, Constants DEF RecordCall, TypeOK
  <2>5. RecentInv'
    <3>1. Calls' = Calls + 1 /\ Calls \in Nat
      BY <1>1, <1>8, CallRecorded
    <3> QED BY <1>1, <1>8, <3>1, Constants DEF BreakerInv, RecentInv, RecordCall, TypeOK
  <2>3. CASE circuit' = Opened(Cooldown) /\ EndsOutdating(c)
    <3>1. circuit' \in Circuit /\ circuit'.generation = Fresh
      BY <1>1, <1>2, <2>3, OpenedFields
    <3> QED BY <1>8, <2>1, <2>2, <2>3, <2>5, <3>1, NewCircuit DEF RecordCall
  <2>4. CASE UNCHANGED circuit /\ Ends(c)
    <3>1. TypeOK'
      BY <1>1, <1>8, <2>1, <2>2, <2>4, EndsPermits DEF TypeOK, RecordCall
    <3> QED BY <2>4, <2>5, <3>1, EndsKeeps DEF BreakerInv
  <2> QED BY <1>8, <2>3, <2>4 DEF RecordCall
<1> QED BY <1>3, <1>4, <1>5, <1>6, <1>7, <1>8 DEF Record

LEMMA CallKeeps ==
  ASSUME BreakerInv, NEW c \in Caller,
         \/ CheckCredential(c) \/ KeyMissing(c) \/ GivenUp(c) \/ BeginCall(c)
         \/ CallEnds(c) \/ CallRejected(c) \/ PermitLost(c)
  PROVE  BreakerInv'
<1>1. TypeOK
  BY DEF BreakerInv
<1>2. paused' \in BOOLEAN /\ repaired' \in BOOLEAN
  BY <1>1, Zenon DEF TypeOK, CheckCredential, KeyMissing, GivenUp, BeginCall, CallEnds, CallRejected, PermitLost
<1>3. CASE CheckCredential(c)
  <2>1. caller' = [caller EXCEPT ![c] = [caller[c] EXCEPT !.at = "checked"]]
    BY <1>3 DEF CheckCredential
  <2>2. [caller[c] EXCEPT !.at = "checked"] \in Permit
    BY <1>1, PermitFields DEF Permit
  <2>3. caller[c].outcome = "none"
    BY <1>3 DEF CheckCredential, BreakerInv, OutcomeInv
  <2> QED BY <1>1, <1>2, <1>3, <2>1, <2>2, <2>3, PermitFields, OwnStepKeeps DEF CheckCredential, Permit
<1>4. CASE KeyMissing(c)
  <2>1. caller' = caller /\ circuit' = circuit
    BY <1>4 DEF KeyMissing
  <2>2. TypeOK'
    BY <1>1, <1>2, <1>4 DEF TypeOK, KeyMissing
  <2>3. RecentInv'
    BY <1>4, SameWindow DEF BreakerInv, KeyMissing
  <2> QED BY <2>1, <2>2, <2>3 DEF BreakerInv, InTime, Out, ProbeInv, GenerationInv, OutcomeInv
<1>5. ASSUME NEW outcome \in Outcome, caller' = Reporting(c, outcome),
             UNCHANGED <<circuit, window, recorded>>
      PROVE  BreakerInv'
  <2> DEFINE p == [caller[c] EXCEPT !.at = "reporting", !.outcome = outcome, !.waited = 0, !.left = 0]
  <2>1. caller' = [caller EXCEPT ![c] = p]
    BY <1>1, <1>5 DEF TypeOK, Reporting
  <2>2. p \in Permit /\ p.at = "reporting" /\ p.generation = caller[c].generation
        /\ p.stale = caller[c].stale
    <3>1. caller[c] \in Permit /\ 0 \in 0..Slack /\ 0 \in 0..Budget
      BY <1>1, PermitFields, Constants
    <3> QED BY <3>1 DEF Permit
  <2> HIDE DEF p
  <2> QED BY <1>2, <1>5, <2>1, <2>2, OwnStepKeeps
<1>6. CASE CallEnds(c)
  BY <1>5, <1>6 DEF CallEnds
<1>7. CASE CallRejected(c)
  BY <1>5, <1>7 DEF CallRejected, Outcome
<1>8. CASE PermitLost(c)
  BY <1>1, <1>8, QuietEnds DEF PermitLost
<1>9. CASE GivenUp(c)
  BY <1>5, <1>9 DEF GivenUp, Outcome
<1>10. CASE BeginCall(c)
  <2> DEFINE p == [caller[c] EXCEPT !.at = "calling"]
  <2>1. caller' = [caller EXCEPT ![c] = p]
    BY <1>1, <1>10 DEF TypeOK, BeginCall
  <2>2. /\ p \in Permit /\ p.at = "calling" /\ p.probe = caller[c].probe /\ p.waited = caller[c].waited
        /\ p.left = caller[c].left /\ p.generation = caller[c].generation /\ p.stale = caller[c].stale
        /\ p.outcome = caller[c].outcome
    BY <1>1, PermitFields DEF Permit
  <2>3. Out(c) /\ p.outcome = "none"
    BY <1>10, <2>2 DEF BeginCall, BreakerInv, OutcomeInv, Out
  <2> HIDE DEF p
  <2>4. UNCHANGED <<circuit, window, recorded>>
    BY <1>10 DEF BeginCall
  <2>5. p.outcome # "none" => p.at = "reporting"
    BY <2>3
  <2>6. p.stale => caller[c].stale /\ p.generation = caller[c].generation
    BY <2>2
  <2> QED BY <1>2, <2>1, <2>2, <2>3, <2>4, <2>5, <2>6, OwnStepKeeps
<1> QED BY <1>3, <1>4, <1>6, <1>7, <1>8, <1>9, <1>10

LEMMA TickKeeps ==
  ASSUME BreakerInv, Tick
  PROVE  BreakerInv'
<1>1. TypeOK
  BY DEF BreakerInv
<1>2. \A n \in Nat : Less(n) \in 0..n /\ (n > 0 => Less(n) = n - 1)
  BY DEF Less
<1>3. /\ circuit' \in Circuit /\ circuit'.state = circuit.state
      /\ circuit'.generation = circuit.generation /\ circuit'.probe = circuit.probe
      /\ circuit'.probeUntil = Less(circuit.probeUntil)
  <2>1. /\ Less(circuit.until) \in 0..Larger(Cooldown, MaxRetryAfter)
        /\ Less(circuit.probeUntil) \in 0..(Budget + Slack)
        /\ Less(circuit.ramp) \in 0..Recovery /\ 0 \in 0..Recovery
    <3>1. Larger(Cooldown, MaxRetryAfter) \in Nat /\ Budget + Slack \in Nat /\ Recovery \in Nat
      BY Constants DEF Larger
    <3> HIDE DEF Less, Larger
    <3> QED BY <1>1, <1>2, <3>1, CircuitFields
  <2>2. circuit' = [circuit EXCEPT !.until = Less(circuit.until), !.probeUntil = Less(circuit.probeUntil),
                                   !.ramp = Less(circuit.ramp), !.rampCalls = 0]
    BY DEF Tick
  <2> QED BY <1>1, <2>1, <2>2, CircuitFields DEF TypeOK, Circuit
<1>4. window' \in [Age -> [calls : Nat, failures : Nat]]
  BY <1>1, Constants DEF Tick, TypeOK, Age
<1>5. /\ caller' \in [Caller -> Permit]
      /\ \A c \in Caller : /\ caller'[c].at = caller[c].at /\ caller'[c].probe = caller[c].probe
                           /\ caller'[c].generation = caller[c].generation
                           /\ caller'[c].stale = caller[c].stale
                           /\ caller'[c].outcome = caller[c].outcome
                           /\ caller[c].at = "calling" =>
                                caller'[c].waited = caller[c].waited /\ caller'[c].left = Less(caller[c].left)
                           /\ caller[c].at = "admitted" /\ caller[c].probe /\ caller[c].waited < Slack =>
                                caller'[c].waited = caller[c].waited + 1 /\ caller'[c].left = caller[c].left
                           /\ caller[c].at = "admitted" /\ caller[c].probe /\ ~(caller[c].waited < Slack) =>
                                caller'[c].waited = caller[c].waited
  <2>1. caller' = [c \in Caller |-> Aged(caller[c])]
    BY DEF Tick
  <2>2. ASSUME NEW c \in Caller
        PROVE  /\ Less(caller[c].left) \in 0..Budget
               /\ caller[c].waited < Slack => caller[c].waited + 1 \in 0..Slack
    BY <1>1, <1>2, PermitFields, Constants
  <2>3. ASSUME NEW c \in Caller
        PROVE  /\ Aged(caller[c]) \in Permit /\ Aged(caller[c]).at = caller[c].at
               /\ Aged(caller[c]).probe = caller[c].probe
               /\ Aged(caller[c]).generation = caller[c].generation
               /\ Aged(caller[c]).stale = caller[c].stale /\ Aged(caller[c]).outcome = caller[c].outcome
               /\ caller[c].at = "calling" => /\ Aged(caller[c]).waited = caller[c].waited
                                              /\ Aged(caller[c]).left = Less(caller[c].left)
               /\ caller[c].at = "admitted" /\ caller[c].probe /\ caller[c].waited < Slack =>
                    /\ Aged(caller[c]).waited = caller[c].waited + 1
                    /\ Aged(caller[c]).left = caller[c].left
               /\ caller[c].at = "admitted" /\ caller[c].probe /\ ~(caller[c].waited < Slack) =>
                    Aged(caller[c]).waited = caller[c].waited
    <3>1. caller[c] \in Permit
      BY <1>1, PermitFields
    <3>2. CASE caller[c].at = "admitted" /\ caller[c].probe /\ caller[c].waited < Slack
      <4>1. Aged(caller[c]) = [caller[c] EXCEPT !.waited = caller[c].waited + 1]
        BY <3>2 DEF Aged
      <4> QED BY <2>2, <3>1, <3>2, <4>1 DEF Permit
    <3>3. CASE caller[c].at = "calling"
      <4>1. Aged(caller[c]) = [caller[c] EXCEPT !.left = Less(caller[c].left)]
        BY <3>3 DEF Aged
      <4> HIDE DEF Less
      <4> QED BY <2>2, <3>1, <3>3, <4>1 DEF Permit
    <3>4. CASE ~(caller[c].at = "admitted" /\ caller[c].probe /\ caller[c].waited < Slack)
               /\ caller[c].at # "calling"
      <4>1. Aged(caller[c]) = caller[c]
        BY <3>4 DEF Aged
      <4> QED BY <3>1, <3>4, <4>1
    <3> QED BY <3>2, <3>3, <3>4
  <2> QED BY <2>1, <2>3
<1>6. TypeOK'
  BY <1>1, <1>3, <1>4, <1>5 DEF TypeOK, Tick
<1>7. ASSUME NEW c \in Caller PROVE ProbeInv(c)'
  <2>1. SUFFICES ASSUME InTime(c)'
                 PROVE  /\ circuit'.state = "half" /\ circuit'.probe = c
                        /\ circuit'.probeUntil = caller'[c].left + Slack - caller'[c].waited
    BY DEF ProbeInv
  <2>2. /\ caller[c].left \in Nat /\ caller[c].waited \in Nat /\ Slack \in Nat
        /\ caller[c].at = "calling" => caller[c].left > 0
    BY <1>1, PermitFields, Constants DEF Tick
  <2>3. caller[c].at \in {"admitted", "calling"} /\ caller[c].probe /\ caller'[c].waited < Slack
    BY <1>5, <2>1 DEF InTime, Out
  <2>4. /\ caller[c].waited < Slack
        /\ \/ caller'[c].waited = caller[c].waited /\ caller'[c].left = caller[c].left - 1
           \/ caller'[c].waited = caller[c].waited + 1 /\ caller'[c].left = caller[c].left
    BY <1>2, <1>5, <2>2, <2>3
  <2>5. /\ circuit.state = "half" /\ circuit.probe = c
        /\ circuit.probeUntil = caller[c].left + Slack - caller[c].waited
    BY <2>3, <2>4 DEF BreakerInv, InTime, Out, ProbeInv
  <2>6. circuit'.probeUntil = circuit.probeUntil - 1
    <3>1. circuit.probeUntil \in Nat /\ circuit.probeUntil > 0
      BY <2>2, <2>4, <2>5
    <3> QED BY <1>2, <1>3, <3>1
  <2> QED BY <1>3, <2>2, <2>4, <2>5, <2>6
<1>8. ASSUME NEW c \in Caller PROVE GenerationInv(c)' /\ OutcomeInv(c)'
  BY <1>3, <1>5 DEF BreakerInv, GenerationInv, OutcomeInv
<1>9. RecentInv'
  <2> DEFINE count == [a \in Age |-> window[a].calls]
             older == [a \in Age |-> window'[a].calls]
  <2>1. count \in [Age -> Nat] /\ older \in [Age -> Nat]
    BY <1>1, <1>4, CallsCount
  <2>2. ASSUME NEW a \in Age PROVE older[a] = IF a = 0 THEN 0 ELSE count[a - 1]
    <3>1. a # 0 => a - 1 \in Age
      BY Constants DEF Age
    <3> QED BY <3>1 DEF Tick
  <2>3. Calls = Cardinality(Members(count)) /\ Calls' = Cardinality(Members(older))
    BY DEF Calls, Members, Age
  <2>4. Calls' <= Calls /\ Calls \in Nat /\ Calls' \in Nat
    <3> HIDE DEF count, older
    <3> QED BY <2>1, <2>2, <2>3, FewerMembers, MembersFinite
  <2>5. recorded' = recorded /\ recorded \in Nat
    BY <1>1, Constants DEF Tick, TypeOK
  <2> QED BY <2>4, <2>5 DEF BreakerInv, RecentInv
<1> QED BY <1>6, <1>7, <1>8, <1>9 DEF BreakerInv

LEMMA NextKeeps == BreakerInv /\ [Next]_vars => BreakerInv'
<1> SUFFICES ASSUME BreakerInv, [Next]_vars PROVE BreakerInv'
  OBVIOUS
<1>1. ASSUME NEW c \in Caller, CallerStep(c) PROVE BreakerInv'
  BY <1>1, AcquireKeeps, RecordKeeps, CallKeeps DEF CallerStep
<1>2. CASE UnpauseCredential
  <2>1. TypeOK'
    BY <1>2 DEF BreakerInv, TypeOK, UnpauseCredential
  <2>2. RecentInv'
    BY <1>2, SameWindow DEF BreakerInv, UnpauseCredential
  <2> QED BY <1>2, <2>1, <2>2 DEF UnpauseCredential, BreakerInv, InTime, Out, ProbeInv, GenerationInv, OutcomeInv
<1>3. CASE Tick
  BY <1>3, TickKeeps
<1>4. CASE UNCHANGED vars
  <2>1. TypeOK'
    BY <1>4 DEF BreakerInv, TypeOK, vars
  <2>2. RecentInv'
    BY <1>4, SameWindow DEF BreakerInv, vars
  <2> QED BY <1>4, <2>1, <2>2 DEF vars, BreakerInv, InTime, Out, ProbeInv, GenerationInv, OutcomeInv
<1> QED BY <1>1, <1>2, <1>3, <1>4 DEF Next

-----------------------------------------------------------------------------
(* Theorems.                                                               *)

\* The inductive invariant holds for any callers and times (ACQUIRE, RECORD).
THEOREM BreakerInvariance == Spec => []BreakerInv
BY InitBreaker, NextKeeps, PTL DEF Spec

\* Type correctness for any callers and times: the ramp never admits more calls
\* than Recovery, and there is always a generation that nobody holds.
THEOREM TypeCorrectness == Spec => []TypeOK
<1>1. BreakerInv => TypeOK
  BY DEF BreakerInv
<1> QED BY <1>1, BreakerInvariance, PTL

\* Two probes talk to the provider at once only when one of them has waited for
\* Slack before its call (ACQUIRE gives a probe the operation's budget and Slack
\* before it admits another, and the budget runs from bounded_call).
THEOREM OneProbe == Spec => []OneProbeInFlight
<1>1. BreakerInv => OneProbeInFlight
  <2>1. SUFFICES ASSUME BreakerInv, NEW c \in Caller, Probing(c), caller[c].waited # Slack
                 PROVE  circuit.probe = c
    BY DEF OneProbeInFlight
  <2>2. caller[c].waited < Slack
    BY <2>1, PermitFields, Constants DEF BreakerInv
  <2> QED BY <2>1, <2>2 DEF BreakerInv, InTime, Out, ProbeInv, Probing
<1> QED BY <1>1, BreakerInvariance, PTL

\* What a call reports after the circuit changed its mind moves neither the
\* circuit nor its window (RECORD compares the generation).
THEOREM StaleOutcomes == Spec => StaleOutcomesAreIgnored
<1> DEFINE A == \A c \in Caller :
                 caller[c].at = "reporting" /\ caller[c].stale /\ caller'[c].at = "idle"
                   => UNCHANGED <<circuit, window>>
<1>1. BreakerInv /\ [Next]_vars => [A]_vars
  <2> SUFFICES ASSUME BreakerInv, Next,
                      NEW c \in Caller, caller[c].at = "reporting", caller[c].stale,
                      caller'[c].at = "idle"
               PROVE  UNCHANGED <<circuit, window>>
    OBVIOUS
  <2>1. TypeOK /\ Fenced(c)
    BY DEF BreakerInv, GenerationInv, Fenced
  <2>3. ASSUME NEW d \in Caller, Record(d) PROVE d = c
    <3>1. SUFFICES ASSUME d # c PROVE FALSE
      OBVIOUS
    <3>2. (Ends(d) \/ EndsOutdating(d))
      BY <2>3 DEF Record, RecordFenced, RecordAuth, RecordRate, RecordProbe, RecordIgnored, RecordCall
    <3>3. CASE Ends(d)
      BY <2>1, <3>1, <3>3, EndsPermits
    <3>4. CASE EndsOutdating(d)
      BY <2>1, <3>1, <3>4, EndsOutdatingPermits, OutdatedPermits
    <3> QED BY <3>2, <3>3, <3>4
  <2>4. ASSUME NEW d \in Caller, CallerStep(d) PROVE UNCHANGED <<circuit, window>>
    <3>1. CASE Record(d)
      BY <2>1, <2>3, <3>1 DEF Record, RecordFenced, RecordAuth, RecordRate, RecordProbe, RecordIgnored, RecordCall
    <3>2. CASE Acquire(d)
      <4>1. CASE AcquireProbe(d)
        <5>1. d # c /\ caller' = Permitted(Outdated, d, Fresh, TRUE)
          BY <4>1 DEF AcquireProbe
        <5>2. caller'[c] = Outdated[c]
          BY <5>1 DEF Permitted, Outdated
        <5> QED BY <2>1, <5>2, OutdatedPermits
      <4>2. CASE AcquireClosed(d)
        <5>1. d # c /\ caller' = Permitted(caller, d, circuit.generation, FALSE)
          BY <4>2 DEF AcquireClosed
        <5>2. caller'[c] = caller[c]
          BY <2>1, <5>1 DEF Permitted, TypeOK
        <5> QED BY <5>2
      <4>3. CASE AcquireDeferred(d)
        BY <4>3 DEF AcquireDeferred
      <4> QED BY <3>2, <4>1, <4>2, <4>3 DEF Acquire
    <3>3. CASE \/ CheckCredential(d) \/ KeyMissing(d) \/ GivenUp(d) \/ BeginCall(d)
               \/ CallEnds(d) \/ CallRejected(d) \/ PermitLost(d)
      BY <3>3 DEF CheckCredential, KeyMissing, GivenUp, BeginCall, CallEnds, CallRejected, PermitLost
    <3> QED BY <2>4, <3>1, <3>2, <3>3 DEF CallerStep
  <2>5. CASE UnpauseCredential
    BY <2>5 DEF UnpauseCredential
  <2>6. CASE Tick
    <3>1. caller'[c].at = caller[c].at
      BY <2>1, <2>6, PermitFields DEF Tick, Permit, Aged
    <3> QED BY <3>1
  <2> QED BY <2>4, <2>5, <2>6 DEF Next
<1> QED BY <1>1, BreakerInvariance, PTL DEF Spec, StaleOutcomesAreIgnored

\* What trips the circuit is MinCalls calls made since it closed: the window
\* counts no call from before the recovery (RECORD).
THEOREM RecentTrips == Spec => TripsOnRecentCalls
<1> DEFINE A == (/\ circuit.state = "closed" /\ circuit'.state = "open"
                 /\ \E c \in Caller : caller[c].outcome \in {"success", "failure"} /\ caller'[c].at = "idle")
                  => recorded' = MinCalls
<1>1. BreakerInv /\ [Next]_vars => [A]_vars
  <2> SUFFICES ASSUME BreakerInv, Next, circuit.state = "closed", circuit'.state = "open",
                      NEW c \in Caller, caller[c].outcome \in {"success", "failure"},
                      caller'[c].at = "idle"
               PROVE  recorded' = MinCalls
    OBVIOUS
  <2>1. TypeOK /\ caller[c].at = "reporting"
    BY DEF BreakerInv, OutcomeInv
  <2>2. ASSUME NEW d \in Caller, RecordCall(d) PROVE recorded' = MinCalls
    <3>1. Trips(Calls + 1, Failures + 1) \/ Trips(Calls + 1, Failures + 0)
      BY <2>1, <2>2 DEF RecordCall
    <3>2. Calls + 1 >= MinCalls /\ Calls \in Nat
      BY <2>1, <3>1, CallsCount DEF Trips
    <3>3. recorded \in 0..MinCalls /\ (Calls <= recorded \/ recorded = MinCalls)
      BY <2>1 DEF BreakerInv, TypeOK, RecentInv
    <3> QED BY <2>2, <3>2, <3>3, Constants DEF RecordCall
  <2>3. ASSUME NEW d \in Caller, RecordRate(d) PROVE FALSE
    <3>1. d # c
      BY <2>3 DEF RecordRate, Reports
    <3>2. caller'[c].at = caller[c].at
      BY <2>1, <2>3, <3>1, EndsOutdatingPermits, OutdatedPermits DEF RecordRate
    <3> QED BY <2>1, <3>2
  <2>4. ASSUME NEW d \in Caller,
               RecordFenced(d) \/ RecordAuth(d) \/ RecordProbe(d) \/ RecordIgnored(d)
        PROVE  FALSE
    <3>1. circuit \in Circuit
      BY <2>1 DEF TypeOK
    <3> QED BY <2>4, <3>1 DEF RecordFenced, RecordAuth, RecordProbe, RecordIgnored, Circuit
  <2>5. ASSUME NEW d \in Caller, Acquire(d) PROVE FALSE
    <3>1. circuit \in Circuit
      BY <2>1 DEF TypeOK
    <3>2. CASE AcquireProbe(d)
      BY <3>1, <3>2 DEF AcquireProbe, MayProbe
    <3>3. CASE AcquireClosed(d)
      <4>1. circuit'.state = circuit.state
        BY <3>1, <3>3 DEF AcquireClosed, Circuit
      <4> QED BY <4>1
    <3>4. CASE AcquireDeferred(d)
      BY <3>4 DEF AcquireDeferred
    <3> QED BY <2>5, <3>2, <3>3, <3>4 DEF Acquire
  <2>6. ASSUME NEW d \in Caller,
               \/ CheckCredential(d) \/ KeyMissing(d) \/ GivenUp(d) \/ BeginCall(d)
               \/ CallEnds(d) \/ CallRejected(d) \/ PermitLost(d)
        PROVE  FALSE
    BY <2>6 DEF CheckCredential, KeyMissing, GivenUp, BeginCall, CallEnds, CallRejected, PermitLost
  <2>7. ~UnpauseCredential
    BY DEF UnpauseCredential
  <2>8. CASE Tick
    <3>1. circuit \in Circuit
      BY <2>1 DEF TypeOK
    <3>2. circuit'.state = circuit.state
      BY <2>8, <3>1 DEF Tick, Circuit
    <3> QED BY <3>2
  <2> QED BY <2>2, <2>3, <2>4, <2>5, <2>6, <2>7, <2>8 DEF Next, CallerStep, Record
<1> QED BY <1>1, BreakerInvariance, PTL DEF Spec, TripsOnRecentCalls
=============================================================================
