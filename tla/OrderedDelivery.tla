-------------------------- MODULE OrderedDelivery --------------------------
(***************************************************************************)
(* What the events of a run may rely on, without receivers, receipts,      *)
(* claims, leases or processors: an event takes effect once and in its     *)
(* turn, at most MaxAttempts failures keep it from that, after which it    *)
(* holds the run, and nothing but an operator's grant lets the run go on.  *)
(* An event whose bookkeeping was damaged may be suspended; its failures   *)
(* so far are then forgotten, and no other event's.                        *)
(***************************************************************************)
EXTENDS Integers, Sequences

CONSTANTS Event,       \* events the run may have, numbered from 1
          MaxAttempts  \* failures after which an event is a dead letter

VARIABLES emitted,    \* events 1..emitted have happened
          delivered,  \* the events that took effect, in that order
          held,       \* the dead letter that stops the run, or 0
          strikes,    \* strikes[e]: failures of e that count
          damaged,    \* events whose bookkeeping was damaged at some time
          suspended,  \* events set aside until an operator looks at them
          granted     \* granted[e]: number of the last fresh start given to e

vars == <<emitted, delivered, held, strikes, damaged, suspended, granted>>

Turn == Len(delivered) + 1

Init ==
  /\ emitted = 0 /\ delivered = <<>> /\ held = 0
  /\ strikes = [e \in Event |-> 0]
  /\ damaged = {} /\ suspended = {}
  /\ granted = [e \in Event |-> 0]

Emit ==
  /\ emitted' = emitted + 1
  /\ UNCHANGED <<delivered, held, strikes, damaged, suspended, granted>>

\* The effects of an event may be another event.
Deliver ==
  /\ held = 0
  /\ Turn <= emitted /\ Turn \notin suspended
  /\ delivered' = Append(delivered, Turn)
  /\ strikes' = [strikes EXCEPT ![Turn] = 0]
  /\ emitted' \in {emitted, emitted + 1}
  /\ UNCHANGED <<held, damaged, suspended, granted>>

Fail ==
  /\ held = 0
  /\ Turn <= emitted
  /\ strikes' = [strikes EXCEPT ![Turn] = strikes[Turn] + 1]
  /\ held' = IF strikes[Turn] + 1 = MaxAttempts THEN Turn ELSE 0
  /\ UNCHANGED <<emitted, delivered, damaged, suspended, granted>>

Damage(e) ==
  /\ e <= emitted /\ e \notin damaged
  /\ damaged' = damaged \cup {e}
  /\ strikes' = [strikes EXCEPT ![e] = 0]
  /\ UNCHANGED <<emitted, delivered, held, suspended, granted>>

Suspend(e) ==
  /\ e \in damaged
  /\ suspended' = suspended \cup {e}
  /\ UNCHANGED <<emitted, delivered, held, strikes, damaged, granted>>

\* An operator asks for an event of which there is no trace yet.
Accuse(e) ==
  /\ Turn <= e /\ e <= emitted /\ strikes[e] = 0
  /\ damaged' = damaged \cup {e}
  /\ suspended' = suspended \cup {e}
  /\ UNCHANGED <<emitted, delivered, held, strikes, granted>>

\* A fresh start for the event that stops the run.
Grant ==
  /\ held = Turn \/ Turn \in suspended
  /\ granted' = [granted EXCEPT ![Turn] = granted'[Turn]]
  /\ granted'[Turn] > granted[Turn]
  /\ strikes' = [strikes EXCEPT ![Turn] = 0]
  /\ held' = 0
  /\ suspended' = suspended \ {Turn}
  /\ UNCHANGED <<emitted, delivered, damaged>>

Next ==
  \/ Emit \/ Deliver \/ Fail \/ Grant
  \/ \E e \in Event : Damage(e) \/ Suspend(e) \/ Accuse(e)

Spec == Init /\ [][Next]_vars
=============================================================================
