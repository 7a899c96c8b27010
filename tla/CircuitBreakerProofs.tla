-------------------------- MODULE CircuitBreakerProofs --------------------------
(***************************************************************************)
(* Proofs about CircuitBreaker, for every threshold, timeout, history      *)
(* length and bound. First what each transition of a breaker object does   *)
(* to ObjectInv, then the inductive invariant IInv, then its consequences  *)
(* and the refinement of BreakerContract.                                  *)
(***************************************************************************)
EXTENDS CircuitBreaker, SequenceTheorems, TLAPS

(* What _execute_transition_locked does to each field of the object.          *)
LEMMA MoveFields ==
  ASSUME NEW b \in Breaker, NEW s \in CircuitState, NEW t \in Nat
  PROVE  LET m == Move(b, s, t)
         IN  /\ m \in Breaker
             /\ m.state = s
             /\ m.opened_at = IF s = "OPEN" THEN t ELSE IF s = "CLOSED" THEN None ELSE b.opened_at
             /\ m.probe_active = (b.probe_active /\ s = "HALF_OPEN")
             /\ m.recovery_attempts = b.recovery_attempts
             /\ m.successful_recoveries = b.successful_recoveries
             /\ m.failed_recoveries = b.failed_recoveries
             /\ m.open_total_count = IF s = "OPEN" THEN b.open_total_count + 1
                                                   ELSE b.open_total_count
<1>1. (b.probe_active /\ s = "HALF_OPEN") \in BOOLEAN
  OBVIOUS
<1>2. (IF s = "OPEN" THEN t ELSE IF s = "CLOSED" THEN None ELSE b.opened_at) \in Nat \cup {None}
  BY DEF Breaker
<1>3. (IF s = "OPEN" THEN b.open_total_count + 1 ELSE b.open_total_count) \in Nat
  BY DEF Breaker
<1>4. Move(b, s, t) \in Breaker
  BY <1>1, <1>2, <1>3 DEF Breaker, Move, OpenedAt, ProbeLeft, Openings
<1> QED
  BY <1>4 DEF Breaker, Move, OpenedAt, ProbeLeft, Openings

(* Every accepted change of state keeps the object well formed.               *)
LEMMA MoveKeeps ==
  ASSUME NEW b \in Breaker, NEW s \in CircuitState, NEW t \in Nat,
         ObjectInv(b), CanMove(b, s)
  PROVE  Move(b, s, t) \in Breaker /\ ObjectInv(Move(b, s, t)) /\ Move(b, s, t).state = s
<1>1. \/ b.state = "CLOSED" /\ s = "OPEN"
      \/ b.state = "OPEN" /\ s = "HALF_OPEN"
      \/ b.state = "HALF_OPEN" /\ s \in {"CLOSED", "OPEN"}
  BY DEF CanMove, VALID_TRANSITIONS
<1> DEFINE m == Move(b, s, t)
<1>2. /\ m \in Breaker
      /\ m.state = s
      /\ m.opened_at = IF s = "OPEN" THEN t ELSE IF s = "CLOSED" THEN None ELSE b.opened_at
      /\ m.probe_active = (b.probe_active /\ s = "HALF_OPEN")
      /\ m.recovery_attempts = b.recovery_attempts
      /\ m.successful_recoveries = b.successful_recoveries
      /\ m.failed_recoveries = b.failed_recoveries
      /\ m.open_total_count = IF s = "OPEN" THEN b.open_total_count + 1
                                            ELSE b.open_total_count
  BY MoveFields
<1>3. ObjectInv(m)
  <2> HIDE DEF m
  <2>1. CASE s = "OPEN"
    BY <1>1, <1>2, <2>1 DEF Breaker, ObjectInv, None
  <2>2. CASE s = "HALF_OPEN"
    BY <1>1, <1>2, <2>2 DEF Breaker, ObjectInv, None
  <2>3. CASE s = "CLOSED"
    BY <1>1, <1>2, <2>3 DEF Breaker, ObjectInv, None
  <2> QED
    BY <2>1, <2>2, <2>3 DEF CircuitState
<1> QED
  BY <1>2, <1>3

(* The timeout check changes nothing or is an accepted change of state        *)
(* (_check_timeout_transition_locked).                                        *)
LEMMA RefreshedKeeps ==
  ASSUME NEW b \in Breaker, NEW t \in Nat, ObjectInv(b)
  PROVE  /\ Refreshed(b, t) \in Breaker
         /\ ObjectInv(Refreshed(b, t))
         /\ ~TimeoutDue(b, t) => Refreshed(b, t) = b
         /\ TimeoutDue(b, t) => Refreshed(b, t).state = "HALF_OPEN"
<1>1. CASE ~TimeoutDue(b, t)
  BY <1>1 DEF Refreshed
<1>2. CASE TimeoutDue(b, t)
  <2>1. CanMove(b, "HALF_OPEN") /\ "HALF_OPEN" \in CircuitState
    BY <1>2 DEF TimeoutDue, CanMove, VALID_TRANSITIONS, CircuitState
  <2> QED
    BY <1>2, <2>1, MoveKeeps DEF Refreshed
<1> QED
  BY <1>1, <1>2

(* evaluate keeps the object well formed: it refreshes, then may trip.        *)
LEMMA EvaluatedKeeps ==
  ASSUME NEW b \in Breaker, NEW rate \in Rates, NEW t \in Nat, ObjectInv(b)
  PROVE  LET v == Evaluated(b, rate, t)
         IN  /\ v \in Breaker
             /\ ObjectInv(v)
             /\ \/ TimeoutDue(b, t) /\ v.state = "HALF_OPEN"
                \/ ~TimeoutDue(b, t) /\ v = b
                \/ ~TimeoutDue(b, t) /\ b.state = "CLOSED" /\ v.state = "OPEN" /\ v.opened_at = t
<1> DEFINE r == Refreshed(b, t)
<1>1. /\ r \in Breaker
      /\ ObjectInv(r)
      /\ ~TimeoutDue(b, t) => r = b
      /\ TimeoutDue(b, t) => r.state = "HALF_OPEN"
  BY RefreshedKeeps
<1>2. CASE ~Trips(r, rate)
  BY <1>1, <1>2 DEF Evaluated
<1>3. CASE Trips(r, rate)
  <2>1. r.state = "CLOSED" /\ ~TimeoutDue(b, t) /\ r = b
    BY <1>1, <1>3 DEF Trips
  <2>2. CanMove(r, "OPEN") /\ "OPEN" \in CircuitState
    BY <2>1 DEF CanMove, VALID_TRANSITIONS, CircuitState
  <2>3. Move(r, "OPEN", t) \in Breaker /\ ObjectInv(Move(r, "OPEN", t))
    BY <1>1, <2>2, MoveKeeps
  <2>4. Move(r, "OPEN", t).state = "OPEN" /\ Move(r, "OPEN", t).opened_at = t
    BY <1>1, <2>2, MoveFields
  <2>5. Evaluated(b, rate, t) = Move(r, "OPEN", t)
    BY <1>3 DEF Evaluated
  <2> QED
    BY <2>1, <2>3, <2>4, <2>5
<1> QED
  BY <1>2, <1>3

(* begin_recovery_probe keeps the object well formed: an opening that has     *)
(* granted no probe has one to grant.                                         *)
LEMMA WithProbeKeeps ==
  ASSUME NEW b \in Breaker, ObjectInv(b), ProbeAllowed(b)
  PROVE  WithProbe(b) \in Breaker /\ ObjectInv(WithProbe(b)) /\ WithProbe(b).state = b.state
<1> DEFINE w == WithProbe(b)
<1>1. w \in Breaker
  <2>1. b.recovery_attempts + 1 \in Nat /\ TRUE \in BOOLEAN
    BY DEF Breaker
  <2> QED
    BY <2>1 DEF Breaker, WithProbe
<1>2. /\ w.state = b.state
      /\ w.opened_at = b.opened_at
      /\ w.probe_active = TRUE
      /\ w.recovery_attempts = b.recovery_attempts + 1
      /\ w.successful_recoveries = b.successful_recoveries
      /\ w.failed_recoveries = b.failed_recoveries
      /\ w.open_total_count = b.open_total_count
  BY DEF Breaker, WithProbe
<1>3. ObjectInv(w)
  <2> HIDE DEF w
  <2> QED
    BY <1>1, <1>2 DEF Breaker, ObjectInv, ProbeAllowed
<1> QED
  BY <1>1, <1>2, <1>3

(* record_recovery_result keeps the object well formed: the outcome it counts *)
(* is that of the opening it ends.                                            *)
LEMMA SettledKeeps ==
  ASSUME NEW b \in Breaker, NEW pass \in BOOLEAN, NEW t \in Nat,
         ObjectInv(b), b.state = "HALF_OPEN"
  PROVE  /\ Settled(b, pass, t) \in Breaker
         /\ ObjectInv(Settled(b, pass, t))
         /\ Settled(b, pass, t).state = IF pass THEN "CLOSED" ELSE "OPEN"
         /\ ~pass => Settled(b, pass, t).opened_at = t
<1> DEFINE r == [b EXCEPT !.probe_active = FALSE,
                         !.successful_recoveries = IF pass THEN @ + 1 ELSE @,
                         !.failed_recoveries = IF pass THEN @ ELSE @ + 1]
           target == IF pass THEN "CLOSED" ELSE "OPEN"
           m == Move(r, target, t)
<1>1. r \in Breaker
  <2>1. FALSE \in BOOLEAN
    OBVIOUS
  <2>2. /\ (IF pass THEN b.successful_recoveries + 1 ELSE b.successful_recoveries) \in Nat
        /\ (IF pass THEN b.failed_recoveries ELSE b.failed_recoveries + 1) \in Nat
    BY DEF Breaker
  <2> QED
    BY <2>1, <2>2 DEF Breaker
<1>2. /\ r.state = "HALF_OPEN"
      /\ r.opened_at = b.opened_at
      /\ r.probe_active = FALSE
      /\ r.recovery_attempts = b.recovery_attempts
      /\ r.open_total_count = b.open_total_count
  BY DEF Breaker
<1>3. r.successful_recoveries + r.failed_recoveries
        = b.successful_recoveries + b.failed_recoveries + 1
  <2>1. CASE pass
    BY <2>1 DEF Breaker
  <2>2. CASE ~pass
    BY <2>2 DEF Breaker
  <2> QED
    BY <2>1, <2>2
<1>4. target \in CircuitState
  BY DEF CircuitState
<1>5. m \in Breaker /\ m.state = target /\ ObjectInv(m) /\ (~pass => m.opened_at = t)
  <2> HIDE DEF r, m
  <2>1. /\ m \in Breaker
        /\ m.state = target
        /\ m.opened_at = IF target = "OPEN" THEN t ELSE IF target = "CLOSED" THEN None ELSE r.opened_at
        /\ m.probe_active = (r.probe_active /\ target = "HALF_OPEN")
        /\ m.recovery_attempts = r.recovery_attempts
        /\ m.successful_recoveries = r.successful_recoveries
        /\ m.failed_recoveries = r.failed_recoveries
        /\ m.open_total_count = IF target = "OPEN" THEN r.open_total_count + 1
                                                   ELSE r.open_total_count
    BY <1>1, <1>4, MoveFields DEF m
  <2>2. CASE pass
    BY <1>1, <1>2, <1>3, <2>1, <2>2 DEF Breaker, ObjectInv, None
  <2>3. CASE ~pass
    BY <1>1, <1>2, <1>3, <2>1, <2>3 DEF Breaker, ObjectInv, None
  <2> QED
    BY <2>2, <2>3
<1> QED
  BY <1>5 DEF Settled

-------------------------------------------------------------------------------

(* Appending to the bounded deque keeps the newest entries and drops one at   *)
(* most.                                                                      *)
LEMMA RememberFacts ==
  ASSUME NEW S, NEW h \in Seq(S), NEW e \in S
  PROVE  \E k \in {0, 1} :
           /\ k <= Len(h)
           /\ Remember(h, e) \in Seq(S)
           /\ Len(Remember(h, e)) = Len(h) - k + 1
           /\ Remember(h, e)[Len(h) - k + 1] = e
           /\ \A i \in 1..(Len(h) - k) : Remember(h, e)[i] = h[i + k]
<1> DEFINE g == Remember(h, e)
           P(k) == /\ k <= Len(h)
                   /\ g \in Seq(S)
                   /\ Len(g) = Len(h) - k + 1
                   /\ g[Len(h) - k + 1] = e
                   /\ \A i \in 1..(Len(h) - k) : g[i] = h[i + k]
<1>1. CASE Len(h) < MaxHistory
  <2>1. g = Append(h, e)
    BY <1>1 DEF Remember
  <2>2. P(0)
    <3> HIDE DEF g
    <3> QED
      BY <2>1
  <2> QED
    BY <2>2
<1>2. CASE ~(Len(h) < MaxHistory)
  <2> DEFINE r == Tail(h)
  <2>1. g = Append(r, e)
    BY <1>2 DEF Remember
  <2>2. Len(h) >= 1 /\ h # << >>
    BY <1>2, HistoryBound
  <2>3. /\ r \in Seq(S)
        /\ Len(r) = Len(h) - 1
        /\ \A i \in 1..(Len(h) - 1) : r[i] = h[i + 1]
    BY <2>2
  <2>4. P(1)
    <3> HIDE DEF g, r
    <3> QED
      BY <2>1, <2>2, <2>3
  <2> QED
    BY <2>4
<1> QED
  BY <1>1, <1>2

(* What a method has to do for its step to keep the invariant: leave a well   *)
(* formed object, change the state along a valid edge only, give a reason     *)
(* that is true and stamp an opening with the present.                        *)
LEMMA BecomeKeeps ==
  ASSUME IInv, NEW b \in Breaker, NEW reason \in Reasons,
         ObjectInv(b),
         Become(b, reason),
         b.state # cb.state => CanMove(cb, b.state),
         b.state # cb.state /\ reason = "recovery_timeout_elapsed" => TimeoutDue(cb, now),
         b.state = "OPEN" => b.opened_at = IF b.state = cb.state THEN cb.opened_at ELSE now
  PROVE  IInv'
<1>1. cb' = b /\ now' = now
  BY DEF Become
<1>2. CASE b.state = cb.state
  <2>1. history' = history
    BY <1>2 DEF Become
  <2> QED
    BY <1>1, <1>2, <2>1
       DEF IInv, TypeOK, HistoryInv, HistoryIsChain, CooldownRestarts, ObjectInv
<1>3. CASE b.state # cb.state
  <2> DEFINE e == [from |-> cb.state, to |-> b.state, at |-> now, reason |-> reason]
             g == Remember(history, e)
  <2>1. history' = g
    BY <1>3 DEF Become
  <2>2. e \in Transitions /\ history \in Seq(Transitions)
    BY DEF IInv, TypeOK, Breaker, Transitions
  <2>4. /\ e.from = cb.state
        /\ e.to = b.state
        /\ e.at = now
        /\ e.reason = reason
    OBVIOUS
  <2> HIDE DEF e
  <2>3. PICK k \in {0, 1} :
          /\ k <= Len(history)
          /\ g \in Seq(Transitions)
          /\ Len(g) = Len(history) - k + 1
          /\ g[Len(history) - k + 1] = e
          /\ \A i \in 1..(Len(history) - k) : g[i] = history[i + k]
    <3>1. \A h \in Seq(Transitions), x \in Transitions :
            \E k \in {0, 1} :
              /\ k <= Len(h)
              /\ Remember(h, x) \in Seq(Transitions)
              /\ Len(Remember(h, x)) = Len(h) - k + 1
              /\ Remember(h, x)[Len(h) - k + 1] = x
              /\ \A i \in 1..(Len(h) - k) : Remember(h, x)[i] = h[i + k]
      BY RememberFacts
    <3> QED
      BY <2>2, <3>1
  <2> HIDE DEF g
  <2>5. TypeOK' /\ ObjectInv(cb)'
    BY <1>1, <2>1, <2>3 DEF IInv, TypeOK, ObjectInv
  <2>6. HistoryIsChain'
    <3>1. \A i \in 1..Len(g) : <<g[i].from, g[i].to>> \in VALID_TRANSITIONS
      <4>1. <<e.from, e.to>> \in VALID_TRANSITIONS
        BY <1>3, <2>4 DEF CanMove
      <4>2. ASSUME NEW i \in 1..Len(g)
            PROVE  \/ g[i] = e
                   \/ i + k \in 1..Len(history) /\ g[i] = history[i + k]
        <5>1. CASE i = Len(history) - k + 1
          BY <2>3, <5>1
        <5>2. CASE i # Len(history) - k + 1
          <6>1. i \in 1..(Len(history) - k) /\ i + k \in 1..Len(history)
            BY <2>2, <2>3, <5>2
          <6> QED
            BY <2>3, <6>1
        <5> QED
          BY <5>1, <5>2
      <4> QED
        BY <4>1, <4>2 DEF IInv, HistoryInv, HistoryIsChain
    <3>2. \A i \in 1..(Len(g) - 1) : g[i].to = g[i + 1].from
      <4> SUFFICES ASSUME NEW i \in 1..(Len(g) - 1)
                   PROVE  g[i].to = g[i + 1].from
        OBVIOUS
      <4>1. i \in 1..(Len(history) - k) /\ g[i] = history[i + k]
        BY <2>2, <2>3
      <4>2. CASE i < Len(history) - k
        <5>1. g[i + 1] = history[(i + 1) + k]
          BY <2>2, <2>3, <4>1, <4>2
        <5>2. i + k \in 1..(Len(history) - 1) /\ (i + 1) + k = (i + k) + 1
          BY <2>2, <2>3, <4>1, <4>2
        <5> QED
          BY <4>1, <5>1, <5>2 DEF IInv, HistoryInv, HistoryIsChain
      <4>3. CASE i = Len(history) - k
        <5>1. g[i + 1] = e /\ g[i] = history[Len(history)]
          BY <2>2, <2>3, <4>1, <4>3
        <5>2. history # << >>
          BY <2>2, <2>3, <4>1
        <5> QED
          BY <2>4, <5>1, <5>2 DEF IInv, HistoryInv, HistoryIsChain
      <4> QED
        BY <2>2, <2>3, <4>1, <4>2, <4>3
    <3>3. g[Len(g)].to = b.state
      BY <2>3, <2>4
    <3> QED
      BY <1>1, <2>1, <3>1, <3>2, <3>3 DEF HistoryIsChain
  <2>7. CooldownRestarts'
    <3> SUFFICES ASSUME NEW i \in 2..Len(g), g[i].reason = "recovery_timeout_elapsed"
                 PROVE  g[i].at - g[i - 1].at >= RecoveryTimeout
      BY <1>1, <2>1 DEF CooldownRestarts
    <3>1. i - 1 \in 1..(Len(history) - k) /\ g[i - 1] = history[(i - 1) + k]
      BY <2>2, <2>3
    <3>2. CASE i <= Len(history) - k
      <4>1. g[i] = history[i + k]
        BY <2>2, <2>3, <3>1, <3>2
      <4>2. i + k \in 2..Len(history) /\ (i - 1) + k = (i + k) - 1
        BY <2>2, <2>3, <3>1, <3>2
      <4> QED
        BY <3>1, <4>1, <4>2 DEF IInv, HistoryInv, CooldownRestarts
    <3>3. CASE i = Len(history) - k + 1
      <4>1. g[i] = e /\ g[i - 1] = history[Len(history)]
        BY <2>2, <2>3, <3>1, <3>3
      <4>2. TimeoutDue(cb, now)
        BY <1>3, <2>4, <4>1
      <4>3. history # << >> /\ cb.state = "OPEN"
        BY <2>2, <2>3, <3>1, <4>2 DEF TimeoutDue
      <4>4. history[Len(history)].at = cb.opened_at
        BY <4>3 DEF IInv, HistoryInv
      <4> QED
        BY <2>4, <4>1, <4>2, <4>4 DEF TimeoutDue
    <3> QED
      BY <2>2, <2>3, <3>2, <3>3
  <2>8. (history # << >> /\ cb.state = "OPEN" => history[Len(history)].at = cb.opened_at)'
    BY <1>1, <1>3, <2>1, <2>3, <2>4
  <2> QED
    BY <2>5, <2>6, <2>7, <2>8 DEF IInv, HistoryInv
<1> QED
  BY <1>2, <1>3

(* The initial object is well formed and its history is empty.                *)
LEMMA InitHolds == Init => IInv
<1> SUFFICES ASSUME Init PROVE IInv
  OBVIOUS
<1>1. NewBreaker \in Breaker /\ ObjectInv(NewBreaker)
  BY DEF NewBreaker, Breaker, CircuitState, None, ObjectInv
<1>2. history = << >> /\ history \in Seq(Transitions) /\ Len(history) = 0 /\ now \in Nat
  BY DEF Init
<1>3. HistoryInv
  BY <1>2 DEF HistoryInv, HistoryIsChain, CooldownRestarts
<1> QED
  BY <1>1, <1>2, <1>3 DEF IInv, TypeOK, Init

(* IInv is inductive: one step per public method of CircuitBreaker.           *)
LEMMA NextKeeps == IInv /\ [Next]_vars => IInv'
<1> SUFFICES ASSUME IInv, [Next]_vars PROVE IInv'
  OBVIOUS
<1> DEFINE r == Refreshed(cb, now)
<1>0. cb \in Breaker /\ now \in Nat /\ ObjectInv(cb) /\ cb.state \in CircuitState
  BY DEF IInv, TypeOK, Breaker
<1>r. /\ r \in Breaker
      /\ ObjectInv(r)
      /\ ~TimeoutDue(cb, now) => r = cb
      /\ TimeoutDue(cb, now) => r.state = "HALF_OPEN"
  BY <1>0, RefreshedKeeps
<1>t. TimeoutDue(cb, now) => cb.state = "OPEN" /\ CanMove(cb, "HALF_OPEN")
  BY DEF TimeoutDue, CanMove, VALID_TRANSITIONS
<1>1. CASE Read
  <2>1. "recovery_timeout_elapsed" \in Reasons
    BY DEF Reasons
  <2>2. TimeoutDue(cb, now) /\ Become(r, "recovery_timeout_elapsed")
    BY <1>1 DEF Read
  <2> HIDE DEF r
  <2> QED
    BY <1>r, <1>t, <2>1, <2>2, BecomeKeeps
<1>2. CASE \E rate \in Rates : Evaluate(rate)
  <2> PICK rate \in Rates : Evaluate(rate)
    BY <1>2
  <2> DEFINE v == Evaluated(cb, rate, now)
             reason == IF TimeoutDue(cb, now) THEN "recovery_timeout_elapsed"
                                              ELSE "error_rate_above_threshold"
  <2>1. reason \in Reasons
    BY DEF Reasons
  <2>2. Become(v, reason)
    BY DEF Evaluate
  <2>3. /\ v \in Breaker
        /\ ObjectInv(v)
        /\ \/ TimeoutDue(cb, now) /\ v.state = "HALF_OPEN"
           \/ ~TimeoutDue(cb, now) /\ v = cb
           \/ ~TimeoutDue(cb, now) /\ cb.state = "CLOSED" /\ v.state = "OPEN" /\ v.opened_at = now
    BY <1>0, EvaluatedKeeps
  <2>4. reason = "recovery_timeout_elapsed" => TimeoutDue(cb, now)
    OBVIOUS
  <2>5. cb.state = "CLOSED" => CanMove(cb, "OPEN")
    BY DEF CanMove, VALID_TRANSITIONS
  <2> HIDE DEF v, reason
  <2>6. v.state # cb.state => CanMove(cb, v.state)
    BY <1>t, <2>3, <2>5
  <2>7. v.state = "OPEN" => v.opened_at = IF v.state = cb.state THEN cb.opened_at ELSE now
    BY <2>3
  <2> QED
    BY <2>1, <2>2, <2>3, <2>4, <2>6, <2>7, BecomeKeeps
<1>3. CASE \E s \in CircuitState : TransitionTo(s)
  <2> PICK s \in CircuitState : TransitionTo(s)
    BY <1>3
  <2> DEFINE m == Move(cb, s, now)
  <2>1. CanMove(cb, s) /\ Become(m, "manual") /\ "manual" \in Reasons
    BY DEF TransitionTo, Reasons
  <2>2. m \in Breaker /\ ObjectInv(m) /\ m.state = s
    BY <1>0, <2>1, MoveKeeps
  <2>3. s = "OPEN" => m.opened_at = now
    BY <1>0, MoveFields
  <2>4. s # cb.state
    BY <2>1 DEF CanMove, VALID_TRANSITIONS
  <2> HIDE DEF m
  <2> QED
    BY <2>1, <2>2, <2>3, <2>4, BecomeKeeps
<1>4. CASE BeginRecoveryProbe
  <2> DEFINE w == WithProbe(r)
  <2>1. ProbeAllowed(r) /\ Become(w, "recovery_timeout_elapsed")
    BY <1>4 DEF BeginRecoveryProbe
  <2>2. w \in Breaker /\ ObjectInv(w) /\ w.state = "HALF_OPEN"
    BY <1>r, <2>1, WithProbeKeeps DEF ProbeAllowed
  <2>3. ~TimeoutDue(cb, now) => cb.state = "HALF_OPEN"
    BY <1>r, <2>1 DEF ProbeAllowed
  <2>4. "recovery_timeout_elapsed" \in Reasons
    BY DEF Reasons
  <2> HIDE DEF w
  <2> QED
    BY <1>t, <2>1, <2>2, <2>3, <2>4, BecomeKeeps
<1>5. CASE \E rate \in Rates, success \in {"unset", "pass", "fail"} :
             RecordRecoveryResult(rate, success)
  <2> PICK rate \in Rates, success \in {"unset", "pass", "fail"} :
             RecordRecoveryResult(rate, success)
    BY <1>5
  <2> DEFINE pass == IsPass(rate, success)
             z == Settled(cb, pass, now)
             reason == IF pass THEN "recovery_pass" ELSE "recovery_fail"
  <2>1. cb.state = "HALF_OPEN" /\ Become(z, reason)
    BY DEF RecordRecoveryResult
  <2>2. pass \in BOOLEAN
    <3>1. (rate <= ErrorThreshold) \in BOOLEAN
      BY BreakerConfig
    <3>2. (success = "pass") \in BOOLEAN
      OBVIOUS
    <3> QED
      BY <3>1, <3>2 DEF IsPass
  <2>3. reason \in Reasons /\ reason # "recovery_timeout_elapsed"
    BY DEF Reasons
  <2> HIDE DEF pass
  <2>4. /\ z \in Breaker
        /\ ObjectInv(z)
        /\ z.state = IF pass THEN "CLOSED" ELSE "OPEN"
        /\ ~pass => z.opened_at = now
    BY <1>0, <2>1, <2>2, SettledKeeps
  <2>5. CanMove(cb, z.state) /\ z.state # cb.state
    BY <2>1, <2>4 DEF CanMove, VALID_TRANSITIONS
  <2>6. z.state = "OPEN" => z.opened_at = now
    BY <2>4
  <2> HIDE DEF z, reason
  <2> QED
    BY <2>1, <2>3, <2>4, <2>5, <2>6, BecomeKeeps
<1>6. CASE Tick
  <2>1. now' = now + 1 /\ now' \in Nat /\ cb' = cb /\ history' = history
    BY <1>0, <1>6 DEF Tick
  <2> QED
    BY <2>1 DEF IInv, TypeOK, ObjectInv, HistoryInv, HistoryIsChain, CooldownRestarts
<1>7. CASE UNCHANGED vars
  BY <1>7 DEF vars, IInv, TypeOK, ObjectInv, HistoryInv, HistoryIsChain, CooldownRestarts
<1> QED
  BY <1>1, <1>2, <1>3, <1>4, <1>5, <1>6, <1>7 DEF Next

-------------------------------------------------------------------------------

(* Whatever methods the threads call and in whatever order, the object stays  *)
(* well formed and its history is the true one.                               *)
THEOREM Invariance == Spec => []IInv
<1> QED
  BY InitHolds, NextKeeps, PTL DEF Spec

(* The fields keep their types; no counter goes below zero.                   *)
THEOREM TypeCorrect == Spec => []TypeOK
<1>1. IInv => TypeOK
  BY DEF IInv
<1> QED
  BY <1>1, Invariance, PTL

(* The published outcome counters never exceed the openings they settle.      *)
THEOREM OutcomesReconcile == Spec => []OutcomesWithinOpenings
<1>1. IInv => OutcomesWithinOpenings
  BY DEF IInv, ObjectInv, OutcomesWithinOpenings
<1> QED
  BY <1>1, Invariance, PTL

(* begin_recovery_probe grants at most one probe per opening.                 *)
THEOREM AtMostOneProbe == Spec => []OneProbePerOpening
<1>1. IInv => OneProbePerOpening
  BY DEF IInv, ObjectInv, OneProbePerOpening
<1> QED
  BY <1>1, Invariance, PTL

(* A breaker that is not CLOSED knows since when.                             *)
THEOREM OpeningTimed == Spec => []OpeningTimeKnown
<1>1. IInv => OpeningTimeKnown
  BY DEF IInv, ObjectInv, OpeningTimeKnown
<1> QED
  BY <1>1, Invariance, PTL

(* The deque of transitions is an unbroken chain up to the current state.     *)
THEOREM HistoryChained == Spec => []HistoryIsChain
<1>1. IInv => HistoryIsChain
  BY DEF IInv, HistoryInv
<1> QED
  BY <1>1, Invariance, PTL

(* Every automatic HALF_OPEN came at least RecoveryTimeout after its OPEN.    *)
THEOREM CooldownHonoured == Spec => []CooldownRestarts
<1>1. IInv => CooldownRestarts
  BY DEF IInv, HistoryInv
<1> QED
  BY <1>1, Invariance, PTL

(* What any step may do to the two facts the pipeline sees, the state and the *)
(* probe: nothing, a probe granted where none was out, or a valid edge.       *)
LEMMA StepShape ==
  ASSUME IInv, [Next]_vars
  PROVE  \/ cb'.state = cb.state /\ cb'.probe_active = cb.probe_active
         \/ cb.state = "HALF_OPEN" /\ cb'.state = "HALF_OPEN" /\ ~cb.probe_active /\ cb'.probe_active
         \/ <<cb.state, cb'.state>> \in VALID_TRANSITIONS
<1> DEFINE r == Refreshed(cb, now)
<1>0. cb \in Breaker /\ now \in Nat /\ ObjectInv(cb) /\ cb.state \in CircuitState
  BY DEF IInv, TypeOK, Breaker
<1>r. /\ r \in Breaker
      /\ ObjectInv(r)
      /\ ~TimeoutDue(cb, now) => r = cb
      /\ TimeoutDue(cb, now) => r.state = "HALF_OPEN"
  BY <1>0, RefreshedKeeps
<1>t. TimeoutDue(cb, now) => <<cb.state, "HALF_OPEN">> \in VALID_TRANSITIONS
  BY DEF TimeoutDue, VALID_TRANSITIONS
<1>1. CASE Read
  BY <1>1, <1>r, <1>t DEF Read, Become
<1>2. CASE \E rate \in Rates : Evaluate(rate)
  <2> PICK rate \in Rates : Evaluate(rate)
    BY <1>2
  <2>1. cb' = Evaluated(cb, rate, now)
    BY DEF Evaluate, Become
  <2>2. \/ TimeoutDue(cb, now) /\ cb'.state = "HALF_OPEN"
        \/ ~TimeoutDue(cb, now) /\ cb' = cb
        \/ ~TimeoutDue(cb, now) /\ cb.state = "CLOSED" /\ cb'.state = "OPEN"
    BY <1>0, <2>1, EvaluatedKeeps
  <2> QED
    BY <1>t, <2>2 DEF VALID_TRANSITIONS
<1>3. CASE \E s \in CircuitState : TransitionTo(s)
  <2> PICK s \in CircuitState : TransitionTo(s)
    BY <1>3
  <2>1. CanMove(cb, s) /\ cb' = Move(cb, s, now)
    BY DEF TransitionTo, Become
  <2>2. cb'.state = s
    BY <1>0, <2>1, MoveKeeps
  <2> QED
    BY <2>1, <2>2 DEF CanMove
<1>4. CASE BeginRecoveryProbe
  <2>1. ProbeAllowed(r) /\ cb' = WithProbe(r)
    BY <1>4 DEF BeginRecoveryProbe, Become
  <2>2. cb'.state = "HALF_OPEN" /\ cb'.probe_active = TRUE
    BY <1>r, <2>1 DEF WithProbe, ProbeAllowed, Breaker
  <2>3. CASE TimeoutDue(cb, now)
    BY <1>t, <2>2, <2>3
  <2>4. CASE ~TimeoutDue(cb, now)
    BY <1>r, <2>1, <2>2, <2>4 DEF ProbeAllowed
  <2> QED
    BY <2>3, <2>4
<1>5. CASE \E rate \in Rates, success \in {"unset", "pass", "fail"} :
             RecordRecoveryResult(rate, success)
  <2> PICK rate \in Rates, success \in {"unset", "pass", "fail"} :
             RecordRecoveryResult(rate, success)
    BY <1>5
  <2> DEFINE pass == IsPass(rate, success)
  <2>1. cb.state = "HALF_OPEN" /\ cb' = Settled(cb, pass, now)
    BY DEF RecordRecoveryResult, Become
  <2>2. pass \in BOOLEAN
    <3>1. (rate <= ErrorThreshold) \in BOOLEAN
      BY BreakerConfig
    <3>2. (success = "pass") \in BOOLEAN
      OBVIOUS
    <3> QED
      BY <3>1, <3>2 DEF IsPass
  <2> HIDE DEF pass
  <2>3. cb'.state = IF pass THEN "CLOSED" ELSE "OPEN"
    BY <1>0, <2>1, <2>2, SettledKeeps
  <2> QED
    BY <2>1, <2>3 DEF VALID_TRANSITIONS
<1>6. CASE Tick
  BY <1>6 DEF Tick
<1>7. CASE UNCHANGED vars
  BY <1>7 DEF vars
<1> QED
  BY <1>1, <1>2, <1>3, <1>4, <1>5, <1>6, <1>7 DEF Next

(* The breaker object implements the contract of BreakerContract: every call  *)
(* is one of its steps or changes nothing the pipeline can see.               *)
THEOREM Refinement == Spec => ImplementsContract
<1>1. Init => Contract!Init
  BY DEF Init, NewBreaker, Contract!Init
<1>2. ASSUME IInv, IInv', [Next]_vars
      PROVE  [Contract!Next]_Contract!vars
  <2>1. \/ cb'.state = cb.state /\ cb'.probe_active = cb.probe_active
        \/ cb.state = "HALF_OPEN" /\ cb'.state = "HALF_OPEN" /\ ~cb.probe_active /\ cb'.probe_active
        \/ <<cb.state, cb'.state>> \in VALID_TRANSITIONS
    BY <1>2, StepShape
  <2>2. cb'.probe_active => cb'.state = "HALF_OPEN"
    BY <1>2 DEF IInv, ObjectInv
  <2>3. CASE cb'.state = cb.state /\ cb'.probe_active = cb.probe_active
    BY <2>3 DEF Contract!vars
  <2>4. CASE cb.state = "HALF_OPEN" /\ cb'.state = "HALF_OPEN" /\ ~cb.probe_active /\ cb'.probe_active
    BY <2>4 DEF Contract!Next, Contract!GrantProbe
  <2>5. CASE <<cb.state, cb'.state>> \in VALID_TRANSITIONS
    <3>1. \/ cb.state = "CLOSED" /\ cb'.state = "OPEN"
          \/ cb.state = "OPEN" /\ cb'.state = "HALF_OPEN"
          \/ cb.state = "HALF_OPEN" /\ cb'.state \in {"CLOSED", "OPEN"}
      BY <2>5 DEF VALID_TRANSITIONS
    <3> QED
      BY <2>2, <3>1
         DEF Contract!Next, Contract!Trip, Contract!CoolDown, Contract!Verdict
  <2> QED
    BY <2>1, <2>3, <2>4, <2>5
<1> QED
  BY <1>1, <1>2, Invariance, PTL DEF Spec, ImplementsContract, Contract!Spec

===============================================================================
