---------------------------- MODULE CircuitBreaker ----------------------------
(***************************************************************************)
(* One CircuitBreaker object without storage, called by any number of      *)
(* threads. Each action is one public method, which holds self._lock from  *)
(* its first read to its last write.                                       *)
(***************************************************************************)
EXTENDS BreakerOps, Sequences

CONSTANTS MaxHistory,   \* config.max_history, the length of the history deque
          MaxOpens,     \* bound: how often the breaker opens
          MaxClock      \* bound: ticks of the clock

ASSUME HistoryBound == MaxHistory \in Nat \ {0}

VARIABLES cb,        \* the object's fields
          history,   \* _history, a deque with maxlen = MaxHistory
          now        \* the injected clock

vars == <<cb, history, now>>

Reasons == {"recovery_timeout_elapsed", "error_rate_above_threshold", "manual",
            "recovery_pass", "recovery_fail"}

Transitions == [from : CircuitState, to : CircuitState, at : Nat, reason : Reasons]

Init == cb = NewBreaker /\ history = << >> /\ now = 0

(* A deviation: a full history takes no more. *)
RememberFirst(h, e) == IF Len(h) < MaxHistory THEN Append(h, e) ELSE h

(* Appending to a full deque drops its oldest entry. *)
Remember(h, e) == Append(IF Len(h) < MaxHistory THEN h ELSE Tail(h), e)

(* The object becomes b; a change of state is written to the history. *)
Become(b, reason) ==
  /\ cb' = b
  /\ history' = IF b.state = cb.state THEN history
                ELSE Remember(history, [from |-> cb.state, to |-> b.state,
                                        at |-> now, reason |-> reason])
  /\ UNCHANGED now

-------------------------------------------------------------------------------

(* current_state, can_process, can_probe, get_status and get_metrics: a read, *)
(* except that the first read after the timeout moves OPEN to HALF_OPEN.      *)
Read == TimeoutDue(cb, now) /\ Become(Refreshed(cb, now), "recovery_timeout_elapsed")

Evaluate(rate) ==
  Become(Evaluated(cb, rate, now),
         IF TimeoutDue(cb, now) THEN "recovery_timeout_elapsed"
                                ELSE "error_rate_above_threshold")

(* transition_to: no timeout check, no regard for the configuration. *)
TransitionTo(s) == CanMove(cb, s) /\ Become(Move(cb, s, now), "manual")

BeginRecoveryProbe ==
  /\ ProbeAllowed(Refreshed(cb, now))
  /\ Become(WithProbe(Refreshed(cb, now)), "recovery_timeout_elapsed")

RecordRecoveryResult(rate, success) ==
  LET pass == IsPass(rate, success)
  IN  /\ cb.state = "HALF_OPEN"
      /\ Become(Settled(cb, pass, now), IF pass THEN "recovery_pass" ELSE "recovery_fail")

Tick == now < MaxClock /\ now' = now + 1 /\ UNCHANGED <<cb, history>>

Next ==
  /\ \/ Read
     \/ \E rate \in Rates : Evaluate(rate)
     \/ \E s \in CircuitState : TransitionTo(s)
     \/ BeginRecoveryProbe
     \/ \E rate \in Rates, success \in {"unset", "pass", "fail"} :
          RecordRecoveryResult(rate, success)
     \/ Tick
  /\ cb'.open_total_count <= MaxOpens

(* The clock runs, and the stream validator, the remediation controller and *)
(* the status endpoints keep reading the state.                             *)
Spec == Init /\ [][Next]_vars /\ WF_vars(Tick) /\ WF_vars(Read)

-------------------------------------------------------------------------------

TypeOK == cb \in Breaker /\ history \in Seq(Transitions) /\ now \in Nat

(* The counters the metrics endpoint publishes reconcile however threads     *)
(* interleave: every opening that is over was settled at most once, and the  *)
(* one still unsettled is the one the breaker is in (record_recovery_result, *)
(* _execute_transition_locked).                                              *)
OutcomesWithinOpenings ==
  cb.successful_recoveries + cb.failed_recoveries
    + (IF cb.state = "CLOSED" THEN 0 ELSE 1) <= cb.open_total_count

(* begin_recovery_probe grants at most one probe per opening: racing callers, *)
(* a verdict by someone who holds no probe and the timeout never free a       *)
(* second one in the same half-open episode.                                  *)
OneProbePerOpening == cb.recovery_attempts <= cb.open_total_count

(* The breaker carries an opening time exactly while it is not CLOSED, so an  *)
(* OPEN breaker can always time out (_check_timeout_transition_locked tests   *)
(* for None and would otherwise stay OPEN for ever).                          *)
OpeningTimeKnown == (cb.state = "CLOSED") <=> (cb.opened_at = None)

(* The bounded history is an unbroken chain of valid transitions that ends in *)
(* the current state, also after the deque has dropped its oldest entries.    *)
HistoryIsChain ==
  /\ \A i \in 1..Len(history) : <<history[i].from, history[i].to>> \in VALID_TRANSITIONS
  /\ \A i \in 1..(Len(history) - 1) : history[i].to = history[i + 1].from
  /\ history # << >> => history[Len(history)].to = cb.state

(* An automatic HALF_OPEN in the history comes at least RecoveryTimeout after *)
(* the OPEN it follows: a reopening by a failed probe restarts the timeout.   *)
CooldownRestarts ==
  \A i \in 2..Len(history) :
    history[i].reason = "recovery_timeout_elapsed"
      => history[i].at - history[i - 1].at >= RecoveryTimeout

(* The induction hypothesis behind the five invariants: what one object keeps *)
(* between two calls of its methods, and how the history hangs on the object. *)
(* An opening that may still grant a probe has one left to grant, a granted   *)
(* probe exists in HALF_OPEN only, and the last entry of the history has the  *)
(* opening time of an OPEN breaker.                                           *)
ObjectInv(b) ==
  /\ b.successful_recoveries + b.failed_recoveries
       + (IF b.state = "CLOSED" THEN 0 ELSE 1) <= b.open_total_count
  /\ b.probe_active => b.state = "HALF_OPEN"
  /\ b.recovery_attempts <= b.open_total_count
  /\ b.state # "CLOSED" /\ ~b.probe_active => b.recovery_attempts < b.open_total_count
  /\ (b.state = "CLOSED") <=> (b.opened_at = None)

HistoryInv ==
  /\ HistoryIsChain
  /\ CooldownRestarts
  /\ history # << >> /\ cb.state = "OPEN" => history[Len(history)].at = cb.opened_at

IInv == TypeOK /\ ObjectInv(cb) /\ HistoryInv

(* An open breaker does not stay open: once the timeout is over the next read *)
(* moves it on. Stated for openings the clock bound lets time out.            *)
OpenTimesOut ==
  (cb.state = "OPEN" /\ now + RecoveryTimeout <= MaxClock) ~> (cb.state # "OPEN")

(* The in-memory breaker implements the contract of BreakerContract.tla: the  *)
(* probe flag stands for the number of probes out.                            *)
Contract == INSTANCE BreakerContract WITH
              state <- cb.state, probes <- IF cb.probe_active THEN 1 ELSE 0

ImplementsContract == Contract!Spec

===============================================================================
