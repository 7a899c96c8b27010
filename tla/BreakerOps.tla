------------------------------ MODULE BreakerOps ------------------------------
(***************************************************************************)
(* The transitions of one CircuitBreaker object                            *)
(* (quality-engine/circuit_breaker/breaker.py) as operators on a record.   *)
(* Every public method of the class runs under self._lock, so it is one    *)
(* application of these operators; CircuitBreaker.tla applies them to an   *)
(* in-memory object and SharedBreaker.tla to the objects of several        *)
(* processes that meet in one database row.                                *)
(*                                                                         *)
(* Error rates and the clock are integers: an error rate counts units of   *)
(* the threshold's resolution and the clock counts ticks.                  *)
(***************************************************************************)
EXTENDS Integers

CONSTANTS Enabled,          \* config.enabled
          ErrorThreshold,   \* config.error_threshold
          RecoveryTimeout,  \* config.recovery_timeout_seconds, in ticks
          Rates             \* the error rates a caller may report

ASSUME BreakerConfig ==
  /\ Enabled \in BOOLEAN
  /\ ErrorThreshold \in Nat
  /\ RecoveryTimeout \in Nat \ {0}
  /\ Rates \subseteq Nat

CircuitState == {"CLOSED", "OPEN", "HALF_OPEN"}

VALID_TRANSITIONS == { <<"CLOSED", "OPEN">>,      <<"OPEN", "HALF_OPEN">>,
                       <<"HALF_OPEN", "CLOSED">>, <<"HALF_OPEN", "OPEN">> }

None == -1   \* an opened_at that is not set

Breaker == [state : CircuitState,
            opened_at : Nat \cup {None},
            probe_active : BOOLEAN,
            recovery_attempts : Nat,
            successful_recoveries : Nat,
            failed_recoveries : Nat,
            open_total_count : Nat]

NewBreaker == [state |-> "CLOSED",
               opened_at |-> None,
               probe_active |-> FALSE,
               recovery_attempts |-> 0,
               successful_recoveries |-> 0,
               failed_recoveries |-> 0,
               open_total_count |-> 0]

-------------------------------------------------------------------------------

(* The pairs _execute_transition_locked accepts: a change of state it lists *)
(* as valid; asking for the current state is a no-op, anything else raises. *)
CanMove(b, s) == <<b.state, s>> \in VALID_TRANSITIONS

(* Deviations: closing keeps the time; a reopening keeps the first; any       *)
(* change but a trip clears it, so that a reopening is never due to end.      *)
OpenedAtUncleared(b, s, t) == IF s = "OPEN" THEN t ELSE b.opened_at
OpenedAtFirst(b, s, t) ==
  IF s = "OPEN" /\ b.opened_at = None THEN t ELSE IF s = "CLOSED" THEN None ELSE b.opened_at
OpenedAtByTrips(b, s, t) == IF s = "OPEN" /\ b.state = "CLOSED" THEN t ELSE None

(* What a change to state s makes of opened_at, of probe_active and of the    *)
(* number of openings. Entering HALF_OPEN leaves all three.                   *)
OpenedAt(b, s, t) == IF s = "OPEN" THEN t ELSE IF s = "CLOSED" THEN None ELSE b.opened_at

(* A deviation: the probe flag survives the end of HALF_OPEN.                 *)
ProbeLeftSet(b, s) == b.probe_active
ProbeLeft(b, s) == b.probe_active /\ s = "HALF_OPEN"

(* A deviation: a reopening does not count as an opening.                     *)
OpeningsTripsOnly(b, s) ==
  IF s = "OPEN" /\ b.state = "CLOSED" THEN b.open_total_count + 1 ELSE b.open_total_count
Openings(b, s) == IF s = "OPEN" THEN b.open_total_count + 1 ELSE b.open_total_count

(* The effect of an accepted change of state at time t.                       *)
Move(b, s, t) == [b EXCEPT !.state = s,
                           !.opened_at = OpenedAt(b, s, t),
                           !.probe_active = ProbeLeft(b, s),
                           !.open_total_count = Openings(b, s)]

TimeoutDue(b, t) ==
  /\ Enabled
  /\ b.state = "OPEN"
  /\ b.opened_at # None
  /\ t - b.opened_at >= RecoveryTimeout

(* _check_timeout_transition_locked, run first by every read of the state. *)
Refreshed(b, t) == IF TimeoutDue(b, t) THEN Move(b, "HALF_OPEN", t) ELSE b

(* The boundary rule: exactly the threshold does not trip. *)
Trips(b, rate) == Enabled /\ b.state = "CLOSED" /\ rate > ErrorThreshold

Evaluated(b, rate, t) ==
  LET r == Refreshed(b, t)
  IN  IF Trips(r, rate) THEN Move(r, "OPEN", t) ELSE r

(* Deviations: a probe is granted while one is out, or without raising the flag. *)
ProbeAllowedAgain(b) == Enabled /\ b.state = "HALF_OPEN"
WithProbeUnflagged(b) == [b EXCEPT !.recovery_attempts = @ + 1]

ProbeAllowed(b) == Enabled /\ b.state = "HALF_OPEN" /\ ~b.probe_active

WithProbe(b) == [b EXCEPT !.probe_active = TRUE, !.recovery_attempts = @ + 1]

(* An explicit success flag overrides the comparison with the threshold. *)
IsPass(rate, success) ==
  IF success = "unset" THEN rate <= ErrorThreshold ELSE success = "pass"

(* record_recovery_result in HALF_OPEN: release the probe, count the outcome, *)
(* close or reopen. It neither synchronises nor asks who holds the probe.     *)
Settled(b, pass, t) ==
  LET r == [b EXCEPT !.probe_active = FALSE,
                     !.successful_recoveries = IF pass THEN @ + 1 ELSE @,
                     !.failed_recoveries = IF pass THEN @ ELSE @ + 1]
  IN  Move(r, IF pass THEN "CLOSED" ELSE "OPEN", t)

===============================================================================
