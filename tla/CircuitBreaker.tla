--------------------------- MODULE CircuitBreaker ---------------------------
(***************************************************************************)
(* The circuit breaker of one scope (endpoint, credential, model and       *)
(* operation) that every worker shares through Redis, the pause of the     *)
(* credential, and the operator's command that lifts it.                   *)
(*                                                                         *)
(* Each Lua script is one step.  A caller checks the credential, acquires  *)
(* a permit, waits for the rate limit and the database, calls the provider *)
(* and records the outcome, and may be cancelled, killed or cut off from   *)
(* Redis at any point in between.                                          *)
(*                                                                         *)
(* Time is a clock of whole seconds seen from now: until, probe_until and  *)
(* recovered_at are the seconds they have left, and Tick lets one pass.    *)
(***************************************************************************)
EXTENDS Integers, FiniteSets

CONSTANTS
  Caller,        \* phases of jobs in flight, each with at most one permit
  None,          \* no caller
  Budget,        \* operation_budget: bounded_call ends a call after this long
  Slack,         \* what acquire adds to the budget for the probe (30 s)
  Cooldown,      \* breaker_cooldown_s
  MaxRetryAfter, \* longest Retry-After of a rate limit
  Recovery,      \* breaker_recovery_s
  RampStep,      \* seconds after which the ramp admits one call more (5 s)
  WindowLength,  \* breaker_window_s
  MinCalls,      \* breaker_min_calls
  Threshold,     \* breaker_threshold, in percent
  MaxWindow      \* bound of the model: calls recorded within one window

ASSUME ConstantsAssumption ==
  /\ None \notin Caller
  /\ {Slack, Cooldown, Recovery, RampStep, WindowLength, MinCalls, Threshold} \subseteq Nat \ {0}
  /\ {Budget, MaxRetryAfter, MaxWindow} \subseteq Nat

ASSUME FiniteCallers == IsFiniteSet(Caller)

VARIABLES
  circuit,   \* the Redis hash of the scope
  window,    \* window[a]: calls recorded a seconds ago that still count
  caller,    \* caller[c]: how far the call is, and its permit
  paused,    \* the key aivideo:credential:paused
  repaired,  \* history: the last word on the credential was an operator's
  recorded   \* history: calls recorded since the circuit closed, up to MinCalls

vars == <<circuit, window, caller, paused, repaired, recorded>>

Age == 0 .. WindowLength - 1
Outcome == {"success", "failure", "ignore", "rate", "auth"}

\* HINCRBY never repeats a generation; only equality with an outstanding
\* permit is ever looked at, so one that nobody holds is as good as new.
Generation == 0 .. Cardinality(Caller) + 1

NoPermit == [at |-> "idle", generation |-> 0, probe |-> FALSE, waited |-> 0, left |-> 0,
             outcome |-> "none", stale |-> FALSE]

Larger(a, b) == IF a > b THEN a ELSE b

Circuit == [state : {"closed", "open", "half"}, auth : BOOLEAN,
            until : 0..Larger(Cooldown, MaxRetryAfter), generation : Generation,
            probe : Caller \cup {None}, probeUntil : 0..(Budget + Slack),
            ramp : 0..Recovery, rampCalls : 0..Recovery]

\* waited: seconds a probe spent between ACQUIRE and bounded_call, where Slack
\* stands for all from there on.  left: what bounded_call still gives the call.
Permit == [at : {"idle", "checked", "admitted", "calling", "reporting"},
           generation : Generation, probe : BOOLEAN, waited : 0..Slack, left : 0..Budget,
           outcome : Outcome \cup {"none"}, stale : BOOLEAN]

TypeOK ==
  /\ circuit \in Circuit
  /\ window \in [Age -> [calls : Nat, failures : Nat]]
  /\ caller \in [Caller -> Permit]
  /\ paused \in BOOLEAN
  /\ repaired \in BOOLEAN
  /\ recorded \in 0..MinCalls

-----------------------------------------------------------------------------
(* The scripts.                                                            *)

Fresh ==
  CHOOSE g \in Generation :
    g # circuit.generation /\ \A c \in Caller : caller[c].generation # g

NoCalls == [a \in Age |-> [calls |-> 0, failures |-> 0]]

\* A sorted set of the window: one member for each call it counts.
Members(count) == UNION {{a} \X (1..count[a]) : a \in Age}
Calls == Cardinality(Members([a \in Age |-> window[a].calls]))
Failures == Cardinality(Members([a \in Age |-> window[a].failures]))

\* Fault: the permits that are out keep counting.
OpenedSameGeneration(seconds) == [circuit EXCEPT !.state = "open", !.until = seconds]

Opened(seconds) ==
  [circuit EXCEPT !.state = "open", !.until = seconds, !.generation = Fresh]

\* The permits that are out when the circuit changes its mind.
Outdated ==
  [c \in Caller |->
     [caller[c] EXCEPT !.stale = caller[c].at \in {"admitted", "calling", "reporting"}]]

\* The permit is held, but bounded_call has not begun.
Permitted(others, c, generation, probe) ==
  [others EXCEPT ![c] = [at |-> "admitted", generation |-> generation, probe |-> probe,
                         waited |-> 0, left |-> Budget, outcome |-> "none", stale |-> FALSE]]

Refused == circuit.auth \/ circuit.until > 0

\* Fault: a probe that never reported blocks the next one for ever.
MayProbeWithoutTimeout == circuit.state \in {"open", "half"} /\ circuit.probe = None

MayProbe ==
  /\ circuit.state \in {"open", "half"}
  /\ circuit.state = "half" => circuit.probeUntil = 0

\* Fault: the probe is given up as soon as its own budget has run out.
ProbeTimeWithoutSlack == Budget

ProbeTime == Budget + Slack

\* ACQUIRE, open or half-open: one probe while its time has not run out.
AcquireProbe(c) ==
  /\ caller[c].at = "checked"
  /\ ~Refused
  /\ MayProbe
  /\ circuit' = [circuit EXCEPT !.state = "half", !.generation = Fresh, !.probe = c,
                                !.probeUntil = ProbeTime]
  /\ caller' = Permitted(Outdated, c, Fresh, TRUE)
  /\ UNCHANGED <<window, paused, repaired, recorded>>

\* Fault: the ramp starts one call too high.
RampAllowsMore == 2 + (Recovery - circuit.ramp) \div RampStep

\* How many calls of this second the ramp after a recovery admits.
RampAllows == 1 + (Recovery - circuit.ramp) \div RampStep

AcquireClosed(c) ==
  /\ caller[c].at = "checked"
  /\ ~Refused
  /\ circuit.state = "closed"
  /\ IF circuit.ramp > 0
       THEN /\ circuit.rampCalls < RampAllows
            /\ circuit' = [circuit EXCEPT !.rampCalls = @ + 1]
       ELSE UNCHANGED circuit
  /\ caller' = Permitted(caller, c, circuit.generation, FALSE)
  /\ UNCHANGED <<window, paused, repaired, recorded>>

\* CircuitDeferred: the caller defers its job and comes back later.
AcquireDeferred(c) ==
  /\ caller[c].at = "checked"
  /\ \/ Refused
     \/ (circuit.state = "half" /\ circuit.probeUntil > 0)
     \/ (circuit.state = "closed" /\ circuit.ramp > 0 /\ circuit.rampCalls >= RampAllows)
  /\ caller' = [caller EXCEPT ![c] = NoPermit]
  /\ UNCHANGED <<circuit, window, paused, repaired, recorded>>

\* Fault: neither the generation nor the probe is compared.
NeverFenced(c) == FALSE

\* RECORD refuses a permit of another generation or, half-open, of another probe.
Fenced(c) ==
  \/ caller[c].generation # circuit.generation
  \/ (circuit.state = "half" /\ circuit.probe # c)

Reports(c, outcome) == caller[c].at = "reporting" /\ caller[c].outcome = outcome

\* The caller is done with its permit; the circuit's change outdates the others.
Ends(c) == caller' = [caller EXCEPT ![c] = NoPermit]
EndsOutdating(c) == caller' = [Outdated EXCEPT ![c] = NoPermit]

RecordFenced(c) ==
  /\ caller[c].at = "reporting"
  /\ Fenced(c)
  /\ Ends(c)
  /\ UNCHANGED <<circuit, window, paused, repaired, recorded>>

RecordAuth(c) ==
  /\ Reports(c, "auth")
  /\ ~Fenced(c)
  /\ circuit' = [circuit EXCEPT !.auth = TRUE]
  /\ Ends(c)
  /\ UNCHANGED <<window, paused, repaired, recorded>>

RecordRate(c) ==
  /\ Reports(c, "rate")
  /\ ~Fenced(c)
  /\ \E retryAfter \in 0..MaxRetryAfter : circuit' = Opened(retryAfter)
  /\ EndsOutdating(c)
  /\ UNCHANGED <<window, paused, repaired, recorded>>

\* Fault: the window survives the recovery.
KeptCalls == window

\* What a recovery leaves of the window: both sorted sets are deleted.
Recovered == NoCalls

\* The probe decides; anything short of success opens the circuit again.
RecordProbe(c) ==
  /\ caller[c].at = "reporting"
  /\ caller[c].outcome \in {"success", "failure", "ignore"}
  /\ ~Fenced(c)
  /\ circuit.state = "half"
  /\ LET settled == [circuit EXCEPT !.generation = Fresh, !.probe = None, !.probeUntil = 0]
     IN IF caller[c].outcome = "success"
          THEN /\ circuit' = [settled EXCEPT !.state = "closed", !.ramp = Recovery]
               /\ window' = Recovered
               /\ recorded' = 0
          ELSE /\ circuit' = [settled EXCEPT !.state = "open", !.until = Cooldown]
               /\ UNCHANGED <<window, recorded>>
  /\ EndsOutdating(c)
  /\ UNCHANGED <<paused, repaired>>

RecordIgnored(c) ==
  /\ Reports(c, "ignore")
  /\ ~Fenced(c)
  /\ circuit.state # "half"
  /\ Ends(c)
  /\ UNCHANGED <<circuit, window, paused, repaired, recorded>>

Trips(calls, failures) == calls >= MinCalls /\ failures * 100 >= Threshold * calls

RecordCall(c) ==
  /\ caller[c].at = "reporting"
  /\ caller[c].outcome \in {"success", "failure"}
  /\ ~Fenced(c)
  /\ circuit.state # "half"
  /\ Calls < MaxWindow
  /\ LET failed == IF caller[c].outcome = "failure" THEN 1 ELSE 0 IN
     /\ window' = [window EXCEPT ![0] = [calls |-> @.calls + 1, failures |-> @.failures + failed]]
     /\ IF Trips(Calls + 1, Failures + failed)
          THEN circuit' = Opened(Cooldown) /\ EndsOutdating(c)
          ELSE UNCHANGED circuit /\ Ends(c)
  /\ recorded' = IF recorded < MinCalls THEN recorded + 1 ELSE recorded
  /\ UNCHANGED <<paused, repaired>>

-----------------------------------------------------------------------------
(* The caller around the scripts, the operator and the clock.              *)

\* The call is over, and with it the times of its permit.
Reporting(c, outcome) ==
  [caller EXCEPT ![c] = [@ EXCEPT !.at = "reporting", !.outcome = outcome,
                                  !.waited = 0, !.left = 0]]

CheckCredential(c) ==
  /\ caller[c].at = "idle"
  /\ ~paused
  /\ caller' = [caller EXCEPT ![c].at = "checked"]
  /\ UNCHANGED <<circuit, window, paused, repaired, recorded>>

\* A cloud call with no key to send pauses the credential without a permit.
KeyMissing(c) ==
  /\ caller[c].at = "idle"
  /\ paused' = TRUE
  /\ repaired' = FALSE
  /\ UNCHANGED <<circuit, window, caller, recorded>>

\* The rate limit or the provider slot is refused: nothing is sent.
GivenUp(c) ==
  /\ caller[c].at = "admitted"
  /\ caller' = Reporting(c, "ignore")
  /\ UNCHANGED <<circuit, window, paused, repaired, recorded>>

\* bounded_call: the budget runs from here, however long begin_submit took.
BeginCall(c) ==
  /\ caller[c].at = "admitted"
  /\ caller' = [caller EXCEPT ![c].at = "calling"]
  /\ UNCHANGED <<circuit, window, paused, repaired, recorded>>

\* The call ends: answered, failed, or timed out by its budget.
CallEnds(c) ==
  /\ caller[c].at = "calling"
  /\ \E outcome \in Outcome \ {"auth"} : caller' = Reporting(c, outcome)
  /\ UNCHANGED <<circuit, window, paused, repaired, recorded>>

\* A 401 or 403: the credential is paused before the outcome is recorded.
CallRejected(c) ==
  /\ caller[c].at = "calling"
  /\ caller' = Reporting(c, "auth")
  /\ paused' = TRUE
  /\ repaired' = FALSE
  /\ UNCHANGED <<circuit, window, recorded>>

\* Cancelled, killed, or Redis unavailable: the permit is never recorded.
PermitLost(c) ==
  /\ caller[c].at # "idle"
  /\ Ends(c)
  /\ UNCHANGED <<circuit, window, paused, repaired, recorded>>

\* The operator repaired the credential and lifts the pause, with no call of
\* the broken credential still about to report.
UnpauseCredential ==
  /\ paused
  /\ \A c \in Caller : caller[c].outcome # "auth"
  /\ paused' = FALSE
  /\ repaired' = TRUE
  /\ UNCHANGED <<circuit, window, caller, recorded>>

Less(n) == IF n > 0 THEN n - 1 ELSE 0

\* What a second takes from a permit: nothing bounds the wait before the call,
\* and bounded_call ends the call when its budget has run out.
Aged(p) ==
  CASE p.at = "admitted" /\ p.probe /\ p.waited < Slack -> [p EXCEPT !.waited = @ + 1]
    [] p.at = "calling" -> [p EXCEPT !.left = Less(@)]
    [] OTHER -> p

Tick ==
  /\ \A c \in Caller : caller[c].at = "calling" => caller[c].left > 0
  /\ circuit' = [circuit EXCEPT !.until = Less(@), !.probeUntil = Less(@),
                                !.ramp = Less(@), !.rampCalls = 0]
  /\ window' = [a \in Age |-> IF a = 0 THEN [calls |-> 0, failures |-> 0] ELSE window[a - 1]]
  /\ caller' = [c \in Caller |-> Aged(caller[c])]
  /\ UNCHANGED <<paused, repaired, recorded>>

Init ==
  /\ circuit = [state |-> "closed", auth |-> FALSE, until |-> 0, generation |-> 0,
                probe |-> None, probeUntil |-> 0, ramp |-> 0, rampCalls |-> 0]
  /\ window = NoCalls
  /\ caller = [c \in Caller |-> NoPermit]
  /\ paused = FALSE
  /\ repaired = FALSE
  /\ recorded = 0

Record(c) ==
  RecordFenced(c) \/ RecordAuth(c) \/ RecordRate(c) \/ RecordProbe(c)
    \/ RecordIgnored(c) \/ RecordCall(c)

Acquire(c) == AcquireProbe(c) \/ AcquireClosed(c) \/ AcquireDeferred(c)

CallerStep(c) ==
  CheckCredential(c) \/ KeyMissing(c) \/ Acquire(c) \/ GivenUp(c) \/ BeginCall(c)
    \/ CallEnds(c) \/ CallRejected(c) \/ Record(c) \/ PermitLost(c)

Next == (\E c \in Caller : CallerStep(c)) \/ UnpauseCredential \/ Tick

Spec == Init /\ [][Next]_vars

-----------------------------------------------------------------------------
(* Properties.                                                             *)

\* A permit with which the provider may still be called.
Out(c) == caller[c].at \in {"admitted", "calling"}

\* A probe that is out and whose wait before the call has not used up the slack.
InTime(c) == Out(c) /\ caller[c].probe /\ caller[c].waited < Slack

\* Such a probe is the one the circuit waits for, and is given what is left of
\* the slack more than it may take.
ProbeInv(c) ==
  InTime(c) =>
    /\ circuit.state = "half" /\ circuit.probe = c
    /\ circuit.probeUntil = caller[c].left + Slack - caller[c].waited

\* The permits of an earlier state have another generation.
GenerationInv(c) == caller[c].stale => caller[c].generation # circuit.generation

\* Only a call that is over has an outcome.
OutcomeInv(c) == caller[c].outcome # "none" => caller[c].at = "reporting"

\* The window counts no call from before the circuit closed.
RecentInv == Calls <= recorded \/ recorded = MinCalls

\* The inductive invariant: types, probes, generations and what the window counts.
BreakerInv ==
  /\ TypeOK
  /\ RecentInv
  /\ \A c \in Caller : ProbeInv(c) /\ GenerationInv(c) /\ OutcomeInv(c)

\* The call of a probe is under way.
Probing(c) == caller[c].at = "calling" /\ caller[c].probe

\* A provider that failed is tried by one call at a time, as long as probes
\* start in time: while two probes talk to it, one of them had waited for the
\* rate limit and the database until the slack of ACQUIRE's probe_until was gone.
OneProbeInFlight ==
  \A c, d \in Caller :
    Probing(c) /\ Probing(d) /\ c # d => Slack \in {caller[c].waited, caller[d].waited}

\* Does not hold, see README.  Without the condition: the probe is the only one, as
\* the status document says, however long its submission waits for the database.
ProbeIsUnique == \A c, d \in Caller : Probing(c) /\ Probing(d) => c = d

\* What a call reports has no effect once the circuit changed state, or a new
\* probe was admitted, after the call was (RECORD, the generation).
StaleOutcomesAreIgnored ==
  [][\A c \in Caller :
       caller[c].at = "reporting" /\ caller[c].stale /\ caller'[c].at = "idle"
         => UNCHANGED <<circuit, window>>]_vars

\* Only calls made since the circuit closed can trip it, and MinCalls of them:
\* the failures that opened it before never count again (RECORD deletes both
\* sorted sets).  A rate limit opens it by itself.
TripsOnRecentCalls ==
  [][(/\ circuit.state = "closed" /\ circuit'.state = "open"
      /\ \E c \in Caller : caller[c].outcome \in {"success", "failure"} /\ caller'[c].at = "idle")
        => recorded' = MinCalls]_vars

\* Does not hold, see README.  What the runbook says of a 401: once the operator repaired the credential
\* and unpaused it, the circuit does not refuse calls for it.
UnpauseRestoresCalls == repaired => ~circuit.auth

Fairness ==
  /\ WF_vars(Tick)
  /\ \A c \in Caller :
       /\ WF_vars(CheckCredential(c))
       /\ WF_vars(GivenUp(c) \/ BeginCall(c) \/ CallEnds(c) \/ CallRejected(c)
                    \/ Record(c) \/ PermitLost(c))
       /\ SF_vars(Acquire(c))

FairSpec == Spec /\ Fairness

\* A circuit that is not closed goes on probing: unless the credential is
\* refused, it closes or a probe that it waits for is out, again and again, also
\* when the probe before was lost while the circuit was half open.
EveryOpenCircuitIsProbed ==
  circuit.state # "closed" ~>
    \/ circuit.state = "closed" \/ circuit.auth \/ paused
    \/ \E c \in Caller : circuit.probe = c /\ caller[c].probe /\ Out(c)
=============================================================================
