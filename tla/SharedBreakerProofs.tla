-------------------------- MODULE SharedBreakerProofs --------------------------
(***************************************************************************)
(* Proofs about SharedBreaker, for any processes, intervals and bounds:    *)
(* with stale caches, lost writes and restarts, every object and the row   *)
(* is a snapshot of one breaker and every opening is on record; and one    *)
(* process whose database answers implements BreakerContract.              *)
(***************************************************************************)
EXTENDS SharedBreaker, TLAPS

(* c is what one transition makes of the object b: coherent again, with one   *)
(* opening more exactly when it has opened.                                   *)
OneStep(b, c) ==
  /\ c \in Breaker
  /\ Coherent(c)
  /\ c.open_total_count = b.open_total_count + (IF c.state = "OPEN" /\ b.state # "OPEN" THEN 1 ELSE 0)

IInv == TypeOK /\ NoMixedSnapshot /\ OpeningsAreRecorded
-------------------------------------------------------------------------------

(* Every accepted change of state (_execute_transition_locked) is one step,   *)
(* and says nothing of a probe outside HALF_OPEN.                             *)
LEMMA MoveIsOneStep ==
  ASSUME NEW b \in Breaker, NEW s \in CircuitState, NEW t \in Nat, Coherent(b), CanMove(b, s)
  PROVE  /\ OneStep(b, Move(b, s, t))
         /\ Move(b, s, t).state = s
         /\ Move(b, s, t).probe_active = (b.probe_active /\ s = "HALF_OPEN")
<1> DEFINE m == Move(b, s, t)
<1>1. /\ (IF s = "OPEN" THEN t ELSE IF s = "CLOSED" THEN None ELSE b.opened_at) \in Nat \cup {None}
      /\ (b.probe_active /\ s = "HALF_OPEN") \in BOOLEAN
      /\ (IF s = "OPEN" THEN b.open_total_count + 1 ELSE b.open_total_count) \in Nat
  BY DEF Breaker
<1>2. m \in Breaker
  BY <1>1 DEF Breaker, Move, OpenedAt, ProbeLeft, Openings
<1>3. /\ m.state = s
      /\ m.opened_at = IF s = "OPEN" THEN t ELSE IF s = "CLOSED" THEN None ELSE b.opened_at
      /\ m.probe_active = (b.probe_active /\ s = "HALF_OPEN")
      /\ m.successful_recoveries = b.successful_recoveries
      /\ m.failed_recoveries = b.failed_recoveries
      /\ m.open_total_count = IF s = "OPEN" THEN b.open_total_count + 1 ELSE b.open_total_count
  BY DEF Breaker, Move, OpenedAt, ProbeLeft, Openings
<1>4. \/ b.state = "CLOSED" /\ s = "OPEN"
      \/ b.state = "OPEN" /\ s = "HALF_OPEN"
      \/ b.state = "HALF_OPEN" /\ s \in {"CLOSED", "OPEN"}
  BY DEF CanMove, VALID_TRANSITIONS
<1>5. OneStep(b, m)
  <2> HIDE DEF m
  <2>1. m.open_total_count
          = b.open_total_count + (IF m.state = "OPEN" /\ b.state # "OPEN" THEN 1 ELSE 0)
    BY <1>3, <1>4 DEF Breaker
  <2>2. Coherent(m)
    <3>1. CASE s = "OPEN"
      BY <1>3, <1>4, <3>1 DEF Coherent, Breaker, None
    <3>2. CASE s = "HALF_OPEN"
      BY <1>3, <1>4, <3>2 DEF Coherent, Breaker, None
    <3>3. CASE s = "CLOSED"
      BY <1>3, <1>4, <3>3 DEF Coherent, Breaker, None
    <3> QED
      BY <3>1, <3>2, <3>3 DEF CircuitState
  <2> QED
    BY <1>2, <2>1, <2>2 DEF OneStep
<1> QED
  BY <1>3, <1>5

(* Leaving an object as it is, is no opening.                                 *)
LEMMA SameIsOneStep == ASSUME NEW b \in Breaker, Coherent(b) PROVE OneStep(b, b)
BY DEF OneStep, Breaker

(* The look at the timeout (_check_timeout_transition_locked).                *)
LEMMA RefreshedIsOneStep ==
  ASSUME NEW b \in Breaker, NEW t \in Nat, Coherent(b)
  PROVE  OneStep(b, Refreshed(b, t))
<1>1. CASE TimeoutDue(b, t)
  <2>1. CanMove(b, "HALF_OPEN") /\ "HALF_OPEN" \in CircuitState
    BY <1>1 DEF TimeoutDue, CanMove, VALID_TRANSITIONS, CircuitState
  <2> QED
    BY <1>1, <2>1, MoveIsOneStep DEF Refreshed
<1>2. CASE ~TimeoutDue(b, t)
  BY <1>2, SameIsOneStep DEF Refreshed
<1> QED
  BY <1>1, <1>2

(* evaluate refreshes the object or trips it, never both.                     *)
LEMMA EvaluatedIsOneStep ==
  ASSUME NEW b \in Breaker, NEW rate \in Rates, NEW t \in Nat, Coherent(b)
  PROVE  OneStep(b, Evaluated(b, rate, t))
<1> DEFINE r == Refreshed(b, t)
<1>1. CASE ~Trips(r, rate)
  BY <1>1, RefreshedIsOneStep DEF Evaluated
<1>2. CASE Trips(r, rate)
  <2>1. TimeoutDue(b, t) => r.state = "HALF_OPEN"
    <3>1. TimeoutDue(b, t) => CanMove(b, "HALF_OPEN") /\ "HALF_OPEN" \in CircuitState
      BY DEF TimeoutDue, CanMove, VALID_TRANSITIONS, CircuitState
    <3> QED
      BY <3>1, MoveIsOneStep DEF Refreshed
  <2>2. r = b /\ b.state = "CLOSED"
    BY <1>2, <2>1 DEF Trips, Refreshed
  <2>3. CanMove(b, "OPEN") /\ "OPEN" \in CircuitState
    BY <2>2 DEF CanMove, VALID_TRANSITIONS, CircuitState
  <2>4. Evaluated(b, rate, t) = Move(b, "OPEN", t)
    BY <1>2, <2>2 DEF Evaluated
  <2> QED
    BY <2>3, <2>4, MoveIsOneStep
<1> QED
  BY <1>1, <1>2

(* The grant of begin_recovery_probe.                                         *)
LEMMA WithProbeIsOneStep ==
  ASSUME NEW b \in Breaker, Coherent(b)
  PROVE  /\ OneStep(b, WithProbe(b)) /\ WithProbe(b).state = b.state
         /\ WithProbe(b).probe_active = TRUE
<1> DEFINE w == WithProbe(b)
<1>1. w \in Breaker
  <2>1. b.recovery_attempts + 1 \in Nat /\ TRUE \in BOOLEAN
    BY DEF Breaker
  <2> QED
    BY <2>1 DEF Breaker, WithProbe
<1>2. /\ w.state = b.state /\ w.opened_at = b.opened_at
      /\ w.probe_active = TRUE
      /\ w.successful_recoveries = b.successful_recoveries
      /\ w.failed_recoveries = b.failed_recoveries
      /\ w.open_total_count = b.open_total_count
  BY DEF Breaker, WithProbe
<1>3. OneStep(b, w)
  <2> HIDE DEF w
  <2> QED
    BY <1>1, <1>2 DEF OneStep, Coherent, Breaker
<1> QED
  BY <1>2, <1>3

(* record_recovery_result ends the half-open episode with its verdict.        *)
LEMMA SettledIsOneStep ==
  ASSUME NEW b \in Breaker, NEW pass \in BOOLEAN, NEW t \in Nat,
         Coherent(b), b.state = "HALF_OPEN"
  PROVE  /\ OneStep(b, Settled(b, pass, t))
         /\ Settled(b, pass, t).state = IF pass THEN "CLOSED" ELSE "OPEN"
         /\ Settled(b, pass, t).probe_active = FALSE
<1> DEFINE r == [b EXCEPT !.probe_active = FALSE,
                         !.successful_recoveries = IF pass THEN @ + 1 ELSE @,
                         !.failed_recoveries = IF pass THEN @ ELSE @ + 1]
           target == IF pass THEN "CLOSED" ELSE "OPEN"
           m == Move(r, target, t)
<1>1. /\ (IF pass THEN b.successful_recoveries + 1 ELSE b.successful_recoveries) \in Nat
      /\ (IF pass THEN b.failed_recoveries ELSE b.failed_recoveries + 1) \in Nat
      /\ FALSE \in BOOLEAN
  BY DEF Breaker
<1>2. r \in Breaker
  BY <1>1 DEF Breaker
<1>3. /\ r.state = "HALF_OPEN" /\ r.opened_at = b.opened_at
      /\ r.probe_active = FALSE
      /\ r.open_total_count = b.open_total_count
      /\ r.successful_recoveries + r.failed_recoveries
           = b.successful_recoveries + b.failed_recoveries + 1
  <2>1. CASE pass
    BY <2>1 DEF Breaker
  <2>2. CASE ~pass
    BY <2>2 DEF Breaker
  <2> QED
    BY <2>1, <2>2
<1>4. /\ (IF target = "OPEN" THEN t ELSE IF target = "CLOSED" THEN None ELSE r.opened_at)
           \in Nat \cup {None}
      /\ (r.probe_active /\ target = "HALF_OPEN") = FALSE
      /\ (IF target = "OPEN" THEN r.open_total_count + 1 ELSE r.open_total_count) \in Nat
      /\ target \in CircuitState
  BY <1>2, <1>3 DEF Breaker, CircuitState
<1>5. m \in Breaker
  BY <1>1, <1>2, <1>4 DEF Breaker, Move, OpenedAt, ProbeLeft, Openings
<1>6. /\ m.state = target
      /\ m.opened_at = IF target = "OPEN" THEN t ELSE IF target = "CLOSED" THEN None ELSE r.opened_at
      /\ m.probe_active = (r.probe_active /\ target = "HALF_OPEN")
      /\ m.successful_recoveries = r.successful_recoveries
      /\ m.failed_recoveries = r.failed_recoveries
      /\ m.open_total_count = IF target = "OPEN" THEN r.open_total_count + 1 ELSE r.open_total_count
  <2> HIDE DEF r, target
  <2> QED
    BY <1>2 DEF Breaker, Move, OpenedAt, ProbeLeft, Openings
<1>7. OneStep(b, m)
  <2> HIDE DEF r, m
  <2>1. CASE pass
    BY <1>2, <1>3, <1>5, <1>6, <2>1 DEF OneStep, Coherent, Breaker, None
  <2>2. CASE ~pass
    BY <1>2, <1>3, <1>5, <1>6, <2>2 DEF OneStep, Coherent, Breaker, None
  <2> QED
    BY <2>1, <2>2
<1>8. m.probe_active = FALSE
  <2> HIDE DEF r, m
  <2> QED
    BY <1>3, <1>6
<1>9. Settled(b, pass, t) = m
  BY DEF Settled
<1> QED
  BY <1>6, <1>7, <1>8, <1>9
-------------------------------------------------------------------------------

(* The columns of the row are the fields of the object that wrote it.         *)
LEMMA RowFits ==
  ASSUME NEW b \in Breaker, Coherent(b)
  PROVE  /\ RowOf(b) \in Row /\ RowOf(b) # NoRow /\ Coherent(RowOf(b))
         /\ RowOf(b).open_total_count = b.open_total_count
<1> DEFINE r == RowOf(b)
<1>1. r = [state |-> b.state, opened_at |-> b.opened_at,
           recovery_attempts |-> b.recovery_attempts,
           successful_recoveries |-> b.successful_recoveries,
           failed_recoveries |-> b.failed_recoveries,
           open_total_count |-> b.open_total_count]
  BY DEF RowOf, Breaker
<1>2. r \in Row
  BY <1>1 DEF Row, Breaker
<1>3. r # NoRow
  BY <1>1 DEF NoRow, Breaker, CircuitState
<1>4. Coherent(r)
  BY <1>1 DEF Coherent
<1> QED
  BY <1>1, <1>2, <1>3, <1>4

(* An object that reads a coherent row is that row, but for its probe flag:   *)
(* the exception for an opening without a time never applies.                 *)
LEMMA SyncedFits ==
  ASSUME NEW b \in Breaker, NEW r \in Row, Coherent(r)
  PROVE  /\ Synced(b, r) \in Breaker /\ Coherent(Synced(b, r))
         /\ Synced(b, r) = [f \in DOMAIN b |-> IF f = "probe_active" THEN b[f] ELSE r[f]]
         /\ Synced(b, r).open_total_count = r.open_total_count
<1> DEFINE c == Synced(b, r)
<1>1. ~(r.opened_at = None /\ r.state = "OPEN")
  BY DEF Coherent
<1>2. c = [f \in DOMAIN b |-> IF f = "probe_active" THEN b[f] ELSE r[f]]
  BY <1>1 DEF Synced
<1>3. c = [state |-> r.state, opened_at |-> r.opened_at, probe_active |-> b.probe_active,
           recovery_attempts |-> r.recovery_attempts,
           successful_recoveries |-> r.successful_recoveries,
           failed_recoveries |-> r.failed_recoveries,
           open_total_count |-> r.open_total_count]
  <2> HIDE DEF c
  <2> QED
    BY <1>2 DEF Breaker
<1> HIDE DEF c
<1>4. c \in Breaker
  <2>1. b.probe_active \in BOOLEAN
    BY DEF Breaker
  <2> QED
    BY <1>3, <2>1 DEF Breaker, Row
<1>5. Coherent(c)
  BY <1>3 DEF Coherent
<1> QED
  BY <1>2, <1>3, <1>4, <1>5 DEF c

(* A new object is a coherent breaker that counts no opening.                 *)
LEMMA NewBreakerFits ==
  /\ NewBreaker \in Breaker /\ Coherent(NewBreaker)
  /\ NewBreaker.open_total_count = 0 /\ NewBreaker.probe_active = FALSE
BY DEF NewBreaker, Breaker, CircuitState, Coherent

(* What a process that starts makes of the row.                               *)
LEMMA HydratedFits ==
  ASSUME NEW r \in Row \cup {NoRow}, r # NoRow => Coherent(r)
  PROVE  /\ Hydrated(r) \in Breaker /\ Coherent(Hydrated(r))
         /\ Hydrated(r).open_total_count = IF r = NoRow THEN 0 ELSE r.open_total_count
BY SyncedFits, NewBreakerFits DEF Hydrated

(* Persist writes row and record, or counts a fault for what it did not get   *)
(* to: an opening is on record or paid for by a fault.                        *)
LEMMA PersistKeeps ==
  ASSUME IInv, NEW p \in Procs, NEW b, OneStep(obj[p], b), Persist(p, b),
         last_sync' \in [Procs -> Int], call' \in [Procs -> Calls], now' \in Nat, crashes' \in Nat
  PROVE  IInv'
<1>1. /\ b \in Breaker /\ Coherent(b) /\ obj' = [obj EXCEPT ![p] = b]
      /\ b.open_total_count
           = obj[p].open_total_count + (IF b.state = "OPEN" /\ obj[p].state # "OPEN" THEN 1 ELSE 0)
      /\ RowOf(b) \in Row /\ Coherent(RowOf(b)) /\ RowOf(b).open_total_count = b.open_total_count
  BY RowFits DEF OneStep, Persist
<1>2. /\ \A q \in Procs : obj[q] \in Breaker /\ Coherent(obj[q])
      /\ \A q \in Procs : /\ obj[q].open_total_count \in Nat
                          /\ obj[q].open_total_count <= logged + faults
      /\ \A q \in Procs : obj'[q] = IF q = p THEN b ELSE obj[q]
      /\ logged \in Nat /\ faults \in Nat
  BY <1>1 DEF IInv, TypeOK, NoMixedSnapshot, OpeningsAreRecorded, Breaker
<1>3. /\ row' \in {row, RowOf(b)}
      /\ logged' \in Nat /\ faults' \in Nat /\ logged' + faults' >= logged + faults
      /\ b.open_total_count <= logged' + faults'
  <2>1. CASE row' = RowOf(b) /\ RecordHistory(p, b) /\ UNCHANGED faults
    BY <1>1, <1>2, <2>1 DEF RecordHistory
  <2>2. CASE Fault /\ UNCHANGED logged /\ row' \in {row, RowOf(b)}
    BY <1>1, <1>2, <2>2 DEF Fault
  <2> QED
    BY <2>1, <2>2 DEF Persist
<1>4. TypeOK'
  BY <1>1, <1>3 DEF IInv, TypeOK
<1>5. NoMixedSnapshot'
  BY <1>1, <1>2, <1>3 DEF IInv, NoMixedSnapshot
<1>6. OpeningsAreRecorded'
  <2>1. ASSUME NEW q \in Procs PROVE obj'[q].open_total_count <= logged' + faults'
    <3>1. CASE q = p
      BY <1>2, <1>3, <3>1
    <3>2. CASE q # p
      <4>1. /\ obj'[q].open_total_count \in Nat
            /\ obj'[q].open_total_count <= logged + faults
        BY <1>2, <3>2
      <4>2. /\ logged \in Nat /\ faults \in Nat /\ logged' \in Nat /\ faults' \in Nat
            /\ logged' + faults' >= logged + faults
        BY <1>2, <1>3
      <4>3. \A n, l, f, l2, f2 \in Nat : n <= l + f /\ l2 + f2 >= l + f => n <= l2 + f2
        OBVIOUS
      <4> QED
        BY <4>1, <4>2, <4>3
    <3> QED
      BY <3>1, <3>2
  <2>2. row # NoRow => row.open_total_count <= logged' + faults'
    BY <1>2, <1>3 DEF IInv, TypeOK, OpeningsAreRecorded, Row
  <2> QED
    BY <1>1, <1>3, <2>1, <2>2 DEF OpeningsAreRecorded
<1> QED
  BY <1>4, <1>5, <1>6 DEF IInv

(* Replacing an object by a snapshot that counts only recorded openings: a    *)
(* synchronisation, a restart, or nothing.                                    *)
LEMMA ReplaceKeeps ==
  ASSUME IInv, NEW p \in Procs, NEW b \in Breaker, Coherent(b),
         b.open_total_count <= logged + faults,
         obj' = [obj EXCEPT ![p] = b], faults' \in {faults, faults + 1},
         UNCHANGED <<row, logged>>,
         last_sync' \in [Procs -> Int], call' \in [Procs -> Calls], now' \in Nat, crashes' \in Nat
  PROVE  IInv'
<1>1. /\ \A q \in Procs : obj'[q] = IF q = p THEN b ELSE obj[q]
      /\ \A q \in Procs : obj[q].open_total_count \in Nat
      /\ b.open_total_count \in Nat /\ logged \in Nat /\ faults \in Nat
  BY DEF IInv, TypeOK, Breaker
<1>2. TypeOK'
  <2>1. obj' \in [Procs -> Breaker]
    BY DEF IInv, TypeOK
  <2>2. faults' \in Nat
    BY <1>1
  <2> QED
    BY <2>1, <2>2 DEF IInv, TypeOK
<1>3. NoMixedSnapshot'
  BY <1>1 DEF IInv, NoMixedSnapshot
<1>4. OpeningsAreRecorded'
  <2>1. ASSUME NEW q \in Procs PROVE obj'[q].open_total_count <= logged' + faults'
    BY <1>1 DEF IInv, OpeningsAreRecorded
  <2>2. row' # NoRow => row'.open_total_count <= logged' + faults'
    BY <1>1 DEF IInv, TypeOK, OpeningsAreRecorded, Row
  <2> QED
    BY <2>1, <2>2 DEF OpeningsAreRecorded
<1> QED
  BY <1>2, <1>3, <1>4 DEF IInv

(* A synchronisation reads the row, or fails and is done for this interval.   *)
LEMMA SyncKeeps ==
  ASSUME IInv, NEW p \in Procs, SyncFromStorage(p), UNCHANGED <<row, logged>>,
         call' \in [Procs -> Calls], now' \in Nat, crashes' \in Nat
  PROVE  IInv'
<1>1. last_sync' \in [Procs -> Int] /\ obj[p] \in Breaker /\ Coherent(obj[p])
  BY DEF SyncFromStorage, IInv, TypeOK, NoMixedSnapshot
<1>2. obj[p].open_total_count <= logged + faults
  BY DEF IInv, OpeningsAreRecorded
<1>3. CASE obj' = [obj EXCEPT ![p] = IF row = NoRow THEN @ ELSE Synced(@, row)] /\ UNCHANGED faults
  <2>1. CASE row = NoRow
    BY <1>1, <1>2, <1>3, <2>1, ReplaceKeeps
  <2>2. CASE row # NoRow
    <3>1. row \in Row /\ Coherent(row) /\ row.open_total_count <= logged + faults
      BY <2>2 DEF IInv, TypeOK, NoMixedSnapshot, OpeningsAreRecorded
    <3>2. obj' = [obj EXCEPT ![p] = Synced(obj[p], row)]
      BY <1>3, <2>2
    <3> QED
      BY <1>1, <1>3, <3>1, <3>2, SyncedFits, ReplaceKeeps
  <2> QED
    BY <2>1, <2>2
<1>4. CASE Fault /\ UNCHANGED obj
  <2>1. obj' = [obj EXCEPT ![p] = obj[p]] /\ faults' = faults + 1
    BY <1>4 DEF Fault, IInv, TypeOK
  <2> QED
    BY <1>1, <1>2, <2>1, ReplaceKeeps
<1> QED
  BY <1>3, <1>4 DEF SyncFromStorage

(* The first state: every process has a new object, the row is yet to come.   *)
LEMMA InitInv == Init => IInv
<1> SUFFICES ASSUME Init PROVE IInv
  OBVIOUS
<1>1. TypeOK
  BY NewBreakerFits DEF Init, TypeOK, Calls
<1>2. NoMixedSnapshot /\ OpeningsAreRecorded
  BY NewBreakerFits DEF Init, NoMixedSnapshot, OpeningsAreRecorded
<1> QED
  BY <1>1, <1>2 DEF IInv

(* A step that a method takes on its own object: what it persists is one      *)
(* transition of that object.                                                 *)
LEMMA OwnStepKeeps ==
  ASSUME IInv, NEW p \in Procs, NEW b, OneStep(obj[p], b), PersistIfMoved(p, b),
         last_sync' \in [Procs -> Int], call' \in [Procs -> Calls], now' \in Nat, crashes' \in Nat
  PROVE  IInv'
<1>1. CASE Persist(p, b)
  BY <1>1, PersistKeeps
<1>2. CASE Keep
  BY <1>2 DEF Keep, IInv, TypeOK, NoMixedSnapshot, OpeningsAreRecorded
<1> QED
  BY <1>1, <1>2 DEF PersistIfMoved

(* Every method of every process, a restart and the clock keep the invariant. *)
LEMMA StepInv == ASSUME IInv, [Next]_vars PROVE IInv'
<1>1. /\ \A p \in Procs : obj[p] \in Breaker /\ Coherent(obj[p])
      /\ \A p \in Procs : obj[p].open_total_count <= logged + faults
      /\ now \in Nat /\ crashes \in Nat /\ logged \in Nat /\ faults \in Nat
      /\ last_sync \in [Procs -> Int] /\ call \in [Procs -> Calls]
  BY DEF IInv, TypeOK, NoMixedSnapshot, OpeningsAreRecorded
<1>2. CASE UNCHANGED vars
  BY <1>2 DEF vars, IInv, TypeOK, NoMixedSnapshot, OpeningsAreRecorded
<1>3. ASSUME NEW p \in Procs, NEW op \in {"read", "evaluate", "probe"}, Begin(p, op)
      PROVE  IInv'
  <2>1. /\ call' \in [Procs -> Calls] /\ now' \in Nat /\ crashes' \in Nat
        /\ UNCHANGED <<row, logged>>
    BY <1>1, <1>3 DEF Begin, Calls
  <2>2. CASE SyncFromStorage(p)
    BY <2>1, <2>2, SyncKeeps
  <2>3. CASE UNCHANGED <<last_sync, obj, faults>>
    <3>1. obj' = [obj EXCEPT ![p] = obj[p]] /\ last_sync' \in [Procs -> Int]
      BY <1>1, <2>3 DEF IInv, TypeOK
    <3> QED
      BY <1>1, <2>1, <2>3, <3>1, ReplaceKeeps
  <2> QED
    BY <1>3, <2>2, <2>3 DEF Begin
<1>4. ASSUME NEW p \in Procs, Check(p) PROVE IInv'
  <2>1. /\ call' \in [Procs -> Calls] /\ UNCHANGED <<last_sync, now, crashes>>
        /\ PersistIfMoved(p, Refreshed(obj[p], now))
    BY <1>1, <1>4 DEF Check, Calls
  <2>2. OneStep(obj[p], Refreshed(obj[p], now))
    BY <1>1, RefreshedIsOneStep
  <2> QED
    BY <1>1, <2>1, <2>2, OwnStepKeeps
<1>5. ASSUME NEW p \in Procs, NEW rate \in Rates, Evaluate(p, rate) PROVE IInv'
  <2>1. /\ call' \in [Procs -> Calls] /\ UNCHANGED <<last_sync, now, crashes>>
        /\ PersistIfMoved(p, Evaluated(obj[p], rate, now))
    BY <1>1, <1>5 DEF Evaluate, Calls
  <2>2. OneStep(obj[p], Evaluated(obj[p], rate, now))
    BY <1>1, EvaluatedIsOneStep
  <2> QED
    BY <1>1, <2>1, <2>2, OwnStepKeeps
<1>6. ASSUME NEW p \in Procs, GrantProbe(p) PROVE IInv'
  <2>1. call' \in [Procs -> Calls] /\ UNCHANGED <<last_sync, now, crashes>>
    BY <1>1, <1>6 DEF GrantProbe, Calls
  <2>2. CASE Persist(p, WithProbe(obj[p]))
    BY <1>1, <2>1, <2>2, WithProbeIsOneStep, PersistKeeps
  <2>3. CASE Keep
    BY <2>1, <2>3 DEF Keep, IInv, TypeOK, NoMixedSnapshot, OpeningsAreRecorded
  <2> QED
    BY <1>6, <2>2, <2>3 DEF GrantProbe
<1>7. ASSUME NEW p \in Procs, GetStatus(p) PROVE IInv'
  <2>1. UNCHANGED <<call, last_sync, now, crashes>> /\ Persist(p, Refreshed(obj[p], now))
    BY <1>7 DEF GetStatus
  <2>2. OneStep(obj[p], Refreshed(obj[p], now))
    BY <1>1, RefreshedIsOneStep
  <2> QED
    BY <1>1, <2>1, <2>2, PersistKeeps
<1>8. ASSUME NEW p \in Procs, NEW s \in CircuitState, TransitionTo(p, s) PROVE IInv'
  <2>1. /\ UNCHANGED <<call, last_sync, now, crashes>>
        /\ CanMove(obj[p], s) /\ Persist(p, Move(obj[p], s, now))
    BY <1>8 DEF TransitionTo
  <2>2. OneStep(obj[p], Move(obj[p], s, now))
    BY <1>1, <2>1, MoveIsOneStep
  <2> QED
    BY <1>1, <2>1, <2>2, PersistKeeps
<1>9. ASSUME NEW p \in Procs, NEW rate \in Rates, RecordRecoveryResult(p, rate) PROVE IInv'
  <2> DEFINE pass == IsPass(rate, "unset")
  <2>1. /\ UNCHANGED <<call, last_sync, now, crashes>>
        /\ obj[p].state = "HALF_OPEN" /\ Persist(p, Settled(obj[p], pass, now))
    BY <1>9 DEF RecordRecoveryResult
  <2>2. pass \in BOOLEAN
    BY DEF IsPass
  <2>3. OneStep(obj[p], Settled(obj[p], pass, now))
    BY <1>1, <2>1, <2>2, SettledIsOneStep
  <2> QED
    BY <1>1, <2>1, <2>3, PersistKeeps
<1>10. ASSUME NEW p \in Procs, Sync(p) PROVE IInv'
  BY <1>1, <1>10, SyncKeeps DEF Sync
<1>11. ASSUME NEW p \in Procs, Restart(p) PROVE IInv'
  <2>1. /\ call' \in [Procs -> Calls] /\ last_sync' \in [Procs -> Int]
        /\ now' \in Nat /\ crashes' \in Nat /\ UNCHANGED <<row, logged>>
    BY <1>1, <1>11, SharedConfig DEF Restart, Calls
  <2>2. PICK b \in {NewBreaker, Hydrated(row)} : obj' = [obj EXCEPT ![p] = b]
    BY <1>11 DEF Restart
  <2>3. /\ b \in Breaker /\ Coherent(b) /\ b.open_total_count <= logged + faults
    <3>1. /\ row \in Row \cup {NoRow}
          /\ row # NoRow => Coherent(row)
          /\ row # NoRow => row.open_total_count <= logged + faults
      BY DEF IInv, TypeOK, NoMixedSnapshot, OpeningsAreRecorded
    <3>2. /\ Hydrated(row) \in Breaker /\ Coherent(Hydrated(row))
          /\ Hydrated(row).open_total_count = IF row = NoRow THEN 0 ELSE row.open_total_count
      BY <3>1, HydratedFits
    <3>3. CASE b = NewBreaker
      BY <1>1, <3>3, NewBreakerFits
    <3>4. CASE b = Hydrated(row)
      BY <1>1, <3>1, <3>2, <3>4
    <3> QED
      BY <3>3, <3>4
  <2>4. faults' \in {faults, faults + 1}
    BY <1>11 DEF Restart, Fault
  <2> QED
    BY <2>1, <2>2, <2>3, <2>4, ReplaceKeeps
<1>12. CASE Tick
  BY <1>1, <1>12 DEF Tick, IInv, TypeOK, NoMixedSnapshot, OpeningsAreRecorded
<1> QED
  BY <1>2, <1>3, <1>4, <1>5, <1>6, <1>7, <1>8, <1>9, <1>10, <1>11, <1>12 DEF Next, Step
-------------------------------------------------------------------------------

(* The inductive invariant holds of every reachable state of the processes.   *)
THEOREM SharedInvariant == Spec => []IInv
<1>1. Init => IInv
  BY InitInv
<1>2. IInv /\ [Next]_vars => IInv'
  BY StepInv
<1> QED
  BY <1>1, <1>2, PTL DEF Spec

(* No process acts on, and the row never holds, a mix of two breakers,        *)
(* whatever is stale, lost or restarted.                                      *)
THEOREM SharedNoMixedSnapshot == Spec => []NoMixedSnapshot
<1>1. IInv => NoMixedSnapshot
  BY DEF IInv
<1> QED
  BY <1>1, SharedInvariant, PTL

(* Every opening that a process or the row counts is on record in the         *)
(* history, but for one per failing access to the database.                   *)
THEOREM SharedOpeningsAreRecorded == Spec => []OpeningsAreRecorded
<1>1. IInv => OpeningsAreRecorded
  BY DEF IInv
<1> QED
  BY <1>1, SharedInvariant, PTL
-------------------------------------------------------------------------------

(* What the contract lets a breaker object do in one step: its state and its  *)
(* probe flag, before and after.                                              *)
ContractStep(b, c) ==
  \/ b.state = "CLOSED" /\ c.state = "OPEN" /\ ~c.probe_active
  \/ b.state = "OPEN" /\ c.state = "HALF_OPEN"
  \/ b.state = "HALF_OPEN" /\ c.state = "HALF_OPEN" /\ (c.probe_active => ~b.probe_active)
  \/ b.state = "HALF_OPEN" /\ c.state \in {"CLOSED", "OPEN"} /\ ~c.probe_active
  \/ b.state = c.state /\ b.probe_active = c.probe_active

(* A probe is out only in HALF_OPEN.                                          *)
ProbeInHalfOpen(b) == b.probe_active => b.state = "HALF_OPEN"

(* One process whose database answers: its object is what the row says, or    *)
(* new while there is no row, so that synchronising changes nothing and a     *)
(* restart only loses the probe.                                              *)
RowIsObject ==
  \A p \in Procs : /\ row = NoRow => obj[p] = NewBreaker
                   /\ row # NoRow => row = RowOf(obj[p])
                   /\ ProbeInHalfOpen(obj[p])

(* The premises of the contract: one process, and a database that answers.    *)
AloneWithDatabase == (\A p, q \in Procs : p = q) /\ MaxFaults = 0

(* A step of the object that the contract allows is a step of the contract.   *)
LEMMA ContractStepImplements ==
  ASSUME TypeOK, TypeOK', NEW p \in Procs, ContractStep(obj[p], obj'[p])
  PROVE  Contract(p)!Next \/ UNCHANGED Contract(p)!vars
<1>1. /\ obj[p].probe_active \in BOOLEAN /\ obj'[p].probe_active \in BOOLEAN
      /\ obj[p].state \in CircuitState /\ obj'[p].state \in CircuitState
  BY DEF TypeOK, Breaker
<1> QED
  BY <1>1 DEF ContractStep, Contract!Next, Contract!vars, Contract!Trip, Contract!CoolDown,
              Contract!GrantProbe, Contract!Verdict, Contract!LoseProbe

(* Every transition of an object is one the contract allows.                  *)
LEMMA TransitionsAllowed ==
  ASSUME NEW b \in Breaker, Coherent(b), ProbeInHalfOpen(b), NEW t \in Nat
  PROVE  /\ \A s \in CircuitState : CanMove(b, s) =>
              ContractStep(b, Move(b, s, t)) /\ ProbeInHalfOpen(Move(b, s, t))
         /\ ContractStep(b, Refreshed(b, t)) /\ ProbeInHalfOpen(Refreshed(b, t))
         /\ \A rate \in Rates :
              ContractStep(b, Evaluated(b, rate, t)) /\ ProbeInHalfOpen(Evaluated(b, rate, t))
         /\ ProbeAllowed(b) => ContractStep(b, WithProbe(b)) /\ ProbeInHalfOpen(WithProbe(b))
         /\ b.state = "HALF_OPEN" => \A pass \in BOOLEAN :
              ContractStep(b, Settled(b, pass, t)) /\ ProbeInHalfOpen(Settled(b, pass, t))
<1>1. ASSUME NEW s \in CircuitState, CanMove(b, s)
      PROVE  ContractStep(b, Move(b, s, t)) /\ ProbeInHalfOpen(Move(b, s, t))
  <2>1. /\ Move(b, s, t).state = s
        /\ Move(b, s, t).probe_active = (b.probe_active /\ s = "HALF_OPEN")
    BY <1>1, MoveIsOneStep
  <2>2. \/ b.state = "CLOSED" /\ s = "OPEN"
        \/ b.state = "OPEN" /\ s = "HALF_OPEN"
        \/ b.state = "HALF_OPEN" /\ s \in {"CLOSED", "OPEN"}
    BY <1>1 DEF CanMove, VALID_TRANSITIONS
  <2> QED
    BY <2>1, <2>2 DEF ContractStep, ProbeInHalfOpen
<1>2. ContractStep(b, Refreshed(b, t)) /\ ProbeInHalfOpen(Refreshed(b, t))
  <2>1. CASE TimeoutDue(b, t)
    <3>1. CanMove(b, "HALF_OPEN") /\ "HALF_OPEN" \in CircuitState
      BY <2>1 DEF TimeoutDue, CanMove, VALID_TRANSITIONS, CircuitState
    <3> QED
      BY <1>1, <2>1, <3>1 DEF Refreshed
  <2>2. CASE ~TimeoutDue(b, t)
    BY <2>2 DEF Refreshed, ContractStep
  <2> QED
    BY <2>1, <2>2
<1>3. ASSUME NEW rate \in Rates
      PROVE  ContractStep(b, Evaluated(b, rate, t)) /\ ProbeInHalfOpen(Evaluated(b, rate, t))
  <2>1. CASE Evaluated(b, rate, t) = Refreshed(b, t)
    BY <1>2, <2>1
  <2>2. CASE Trips(Refreshed(b, t), rate)
    <3>1. TimeoutDue(b, t) => Refreshed(b, t).state = "HALF_OPEN"
      <4>1. TimeoutDue(b, t) => CanMove(b, "HALF_OPEN") /\ "HALF_OPEN" \in CircuitState
        BY DEF TimeoutDue, CanMove, VALID_TRANSITIONS, CircuitState
      <4> QED
        BY <4>1, MoveIsOneStep DEF Refreshed
    <3>2. Refreshed(b, t) = b /\ b.state = "CLOSED"
      BY <2>2, <3>1 DEF Trips, Refreshed
    <3>3. CanMove(b, "OPEN") /\ "OPEN" \in CircuitState
      BY <3>2 DEF CanMove, VALID_TRANSITIONS, CircuitState
    <3>4. Evaluated(b, rate, t) = Move(b, "OPEN", t)
      BY <2>2, <3>2 DEF Evaluated
    <3> QED
      BY <1>1, <3>3, <3>4
  <2> QED
    BY <2>1, <2>2 DEF Evaluated
<1>4. ASSUME ProbeAllowed(b)
      PROVE  ContractStep(b, WithProbe(b)) /\ ProbeInHalfOpen(WithProbe(b))
  BY <1>4, WithProbeIsOneStep DEF ProbeAllowed, ContractStep, ProbeInHalfOpen
<1>5. ASSUME b.state = "HALF_OPEN", NEW pass \in BOOLEAN
      PROVE  ContractStep(b, Settled(b, pass, t)) /\ ProbeInHalfOpen(Settled(b, pass, t))
  BY <1>5, SettledIsOneStep DEF ContractStep, ProbeInHalfOpen
<1> QED
  BY <1>1, <1>2, <1>3, <1>4, <1>5

(* With the database answering, persisting leaves the row equal to the object.*)
LEMMA PersistMirrors ==
  ASSUME AloneWithDatabase, IInv, RowIsObject, NEW p \in Procs, NEW b,
         OneStep(obj[p], b), ContractStep(obj[p], b), ProbeInHalfOpen(b),
         PersistIfMoved(p, b) \/ Persist(p, b)
  PROVE  RowIsObject' /\ \A q \in Procs : ContractStep(obj[q], obj'[q])
<1>1. \A q \in Procs : q = p
  BY DEF AloneWithDatabase
<1>2. ~Fault
  BY DEF AloneWithDatabase, Fault, IInv, TypeOK
<1>3. CASE Persist(p, b)
  <2>1. obj'[p] = b /\ row' = RowOf(b)
    BY <1>2, <1>3 DEF Persist, IInv, TypeOK
  <2>2. RowOf(b) # NoRow
    BY RowFits DEF OneStep
  <2> QED
    BY <1>1, <2>1, <2>2 DEF RowIsObject
<1>4. CASE Keep
  BY <1>4 DEF Keep, RowIsObject, ContractStep, ProbeInHalfOpen
<1> QED
  BY <1>3, <1>4 DEF PersistIfMoved

(* So does synchronising: the object has nothing to learn from its own row.   *)
LEMMA SyncMirrors ==
  ASSUME AloneWithDatabase, IInv, RowIsObject, NEW p \in Procs, SyncFromStorage(p), UNCHANGED row
  PROVE  obj' = obj
<1>1. ~Fault
  BY DEF AloneWithDatabase, Fault, IInv, TypeOK
<1>2. obj' = [obj EXCEPT ![p] = IF row = NoRow THEN @ ELSE Synced(@, row)]
  BY <1>1 DEF SyncFromStorage
<1>3. obj[p] \in Breaker /\ Coherent(obj[p]) /\ obj \in [Procs -> Breaker]
  BY DEF IInv, TypeOK, NoMixedSnapshot
<1>4. CASE row = NoRow
  BY <1>2, <1>3, <1>4
<1>5. CASE row # NoRow
  <2>1. row = RowOf(obj[p]) /\ row \in Row /\ Coherent(row)
    BY <1>3, <1>5, RowFits DEF RowIsObject
  <2>2. Synced(obj[p], row) = [f \in DOMAIN obj[p] |-> IF f = "probe_active" THEN obj[p][f]
                                                                         ELSE row[f]]
    BY <1>3, <2>1, SyncedFits
  <2>3. Synced(obj[p], row) = [f \in DOMAIN obj[p] |-> obj[p][f]]
    BY <2>1, <2>2 DEF RowOf
  <2>4. obj[p] = [f \in DOMAIN obj[p] |-> obj[p][f]]
    BY <1>3 DEF Breaker
  <2> QED
    BY <1>2, <1>3, <1>5, <2>3, <2>4
<1> QED
  BY <1>4, <1>5

(* Every step of the one process is a step of the contract or none, and       *)
(* leaves object and row equal.                                               *)
LEMMA StepImplements ==
  ASSUME AloneWithDatabase, IInv, RowIsObject, [Next]_vars
  PROVE  RowIsObject' /\ \A q \in Procs : ContractStep(obj[q], obj'[q])
<1> DEFINE Goal == RowIsObject' /\ \A q \in Procs : ContractStep(obj[q], obj'[q])
<1>1. \A p \in Procs : /\ obj[p] \in Breaker /\ Coherent(obj[p]) /\ ProbeInHalfOpen(obj[p])
                       /\ \A q \in Procs : q = p
  BY DEF IInv, TypeOK, NoMixedSnapshot, RowIsObject, AloneWithDatabase
<1>2. now \in Nat
  BY DEF IInv, TypeOK
<1>3. ASSUME obj' = obj, row' = row PROVE Goal
  BY <1>3 DEF RowIsObject, ContractStep, ProbeInHalfOpen
<1>4. ASSUME NEW p \in Procs, NEW op \in {"read", "evaluate", "probe"}, Begin(p, op)
      PROVE  Goal
  BY <1>3, <1>4, SyncMirrors DEF Begin
<1>5. ASSUME NEW p \in Procs, Check(p) PROVE Goal
  <2>1. PersistIfMoved(p, Refreshed(obj[p], now))
    BY <1>5 DEF Check
  <2>2. /\ OneStep(obj[p], Refreshed(obj[p], now))
        /\ ContractStep(obj[p], Refreshed(obj[p], now)) /\ ProbeInHalfOpen(Refreshed(obj[p], now))
    BY <1>1, <1>2, RefreshedIsOneStep, TransitionsAllowed
  <2> QED
    BY <2>1, <2>2, PersistMirrors
<1>6. ASSUME NEW p \in Procs, NEW rate \in Rates, Evaluate(p, rate) PROVE Goal
  <2>1. PersistIfMoved(p, Evaluated(obj[p], rate, now))
    BY <1>6 DEF Evaluate
  <2>2. /\ OneStep(obj[p], Evaluated(obj[p], rate, now))
        /\ ContractStep(obj[p], Evaluated(obj[p], rate, now))
        /\ ProbeInHalfOpen(Evaluated(obj[p], rate, now))
    BY <1>1, <1>2, EvaluatedIsOneStep, TransitionsAllowed
  <2> QED
    BY <2>1, <2>2, PersistMirrors
<1>7. ASSUME NEW p \in Procs, GrantProbe(p) PROVE Goal
  <2>1. CASE ProbeAllowed(obj[p]) /\ Persist(p, WithProbe(obj[p]))
    <3>1. /\ OneStep(obj[p], WithProbe(obj[p]))
          /\ ContractStep(obj[p], WithProbe(obj[p])) /\ ProbeInHalfOpen(WithProbe(obj[p]))
      BY <1>1, <1>2, <2>1, WithProbeIsOneStep, TransitionsAllowed
    <3> QED
      BY <2>1, <3>1, PersistMirrors
  <2>2. CASE Keep
    BY <1>3, <2>2 DEF Keep
  <2> QED
    BY <1>7, <2>1, <2>2 DEF GrantProbe
<1>8. ASSUME NEW p \in Procs, GetStatus(p) PROVE Goal
  <2>1. Persist(p, Refreshed(obj[p], now))
    BY <1>8 DEF GetStatus
  <2>2. /\ OneStep(obj[p], Refreshed(obj[p], now))
        /\ ContractStep(obj[p], Refreshed(obj[p], now)) /\ ProbeInHalfOpen(Refreshed(obj[p], now))
    BY <1>1, <1>2, RefreshedIsOneStep, TransitionsAllowed
  <2> QED
    BY <2>1, <2>2, PersistMirrors
<1>9. ASSUME NEW p \in Procs, NEW s \in CircuitState, TransitionTo(p, s) PROVE Goal
  <2>1. CanMove(obj[p], s) /\ Persist(p, Move(obj[p], s, now))
    BY <1>9 DEF TransitionTo
  <2>2. /\ OneStep(obj[p], Move(obj[p], s, now))
        /\ ContractStep(obj[p], Move(obj[p], s, now)) /\ ProbeInHalfOpen(Move(obj[p], s, now))
    BY <1>1, <1>2, <2>1, MoveIsOneStep, TransitionsAllowed
  <2> QED
    BY <2>1, <2>2, PersistMirrors
<1>10. ASSUME NEW p \in Procs, NEW rate \in Rates, RecordRecoveryResult(p, rate) PROVE Goal
  <2> DEFINE pass == IsPass(rate, "unset")
  <2>1. obj[p].state = "HALF_OPEN" /\ Persist(p, Settled(obj[p], pass, now))
    BY <1>10 DEF RecordRecoveryResult
  <2>2. pass \in BOOLEAN
    BY DEF IsPass
  <2>3. /\ OneStep(obj[p], Settled(obj[p], pass, now))
        /\ ContractStep(obj[p], Settled(obj[p], pass, now))
        /\ ProbeInHalfOpen(Settled(obj[p], pass, now))
    BY <1>1, <1>2, <2>1, <2>2, SettledIsOneStep, TransitionsAllowed
  <2> QED
    BY <2>1, <2>3, PersistMirrors
<1>11. ASSUME NEW p \in Procs, Sync(p) PROVE Goal
  BY <1>3, <1>11, SyncMirrors DEF Sync
<1>12. ASSUME NEW p \in Procs, Restart(p) PROVE Goal
  <2>1. obj' = [obj EXCEPT ![p] = Hydrated(row)] /\ row' = row
    BY <1>12 DEF Restart, Fault, AloneWithDatabase, IInv, TypeOK
  <2>2. obj'[p] = Hydrated(row)
    BY <2>1 DEF IInv, TypeOK
  <2>3. CASE row = NoRow
    <3>1. obj'[p] = obj[p] /\ obj[p] = NewBreaker
      BY <2>2, <2>3 DEF RowIsObject, Hydrated
    <3> QED
      BY <1>1, <2>1, <2>3, <3>1 DEF RowIsObject, ContractStep
  <2>4. CASE row # NoRow
    <3>1. row = RowOf(obj[p]) /\ row \in Row /\ Coherent(row)
      BY <1>1, <2>4, RowFits DEF RowIsObject
    <3>2. /\ obj'[p] = [f \in DOMAIN NewBreaker |-> IF f = "probe_active" THEN NewBreaker[f]
                                                                          ELSE row[f]]
          /\ obj'[p] \in Breaker
      BY <2>2, <2>4, <3>1, SyncedFits, NewBreakerFits DEF Hydrated
    <3>3. /\ obj'[p].state = obj[p].state /\ ~obj'[p].probe_active
          /\ RowOf(obj'[p]) = row
      <4>1. DOMAIN NewBreaker = DOMAIN obj[p] /\ DOMAIN obj'[p] = DOMAIN obj[p]
        BY <1>1, <3>2, NewBreakerFits DEF Breaker
      <4>2. DOMAIN obj[p] = {"state", "opened_at", "probe_active", "recovery_attempts",
                             "successful_recoveries", "failed_recoveries", "open_total_count"}
        BY <1>1 DEF Breaker
      <4>3. \A f \in DOMAIN obj[p] \ {"probe_active"} : obj'[p][f] = obj[p][f]
        BY <3>1, <3>2, <4>1 DEF RowOf
      <4>4. RowOf(obj'[p]) = RowOf(obj[p])
        BY <4>1, <4>3 DEF RowOf
      <4>5. ~obj'[p].probe_active
        BY <3>2, <4>1, <4>2, NewBreakerFits
      <4> QED
        BY <3>1, <4>2, <4>3, <4>4, <4>5
    <3>4. obj[p].probe_active => obj[p].state = "HALF_OPEN"
      BY <1>1 DEF ProbeInHalfOpen
    <3>5. ContractStep(obj[p], obj'[p]) /\ ProbeInHalfOpen(obj'[p])
      BY <1>1, <3>2, <3>3, <3>4 DEF ContractStep, ProbeInHalfOpen, Breaker
    <3> QED
      BY <1>1, <2>1, <2>4, <3>3, <3>5 DEF RowIsObject
  <2> QED
    BY <2>3, <2>4
<1>13. CASE Tick \/ UNCHANGED vars
  BY <1>3, <1>13 DEF Tick, vars
<1> QED
  BY <1>4, <1>5, <1>6, <1>7, <1>8, <1>9, <1>10, <1>11, <1>12, <1>13 DEF Next, Step

(* A single process whose database answers implements BreakerContract: every  *)
(* method, synchronisation and restart at any point is one of its steps.      *)
THEOREM SharedImplementsContract ==
  ASSUME AloneWithDatabase
  PROVE  Spec => ImplementsContract
<1>1. Init => RowIsObject /\ \A p \in Procs : Contract(p)!Init
  BY NewBreakerFits DEF Init, RowIsObject, ProbeInHalfOpen, NewBreaker, Contract!Init
<1>2. IInv /\ RowIsObject /\ [Next]_vars =>
        RowIsObject' /\ \A q \in Procs : ContractStep(obj[q], obj'[q])
  BY StepImplements
<1>3. IInv /\ IInv' /\ RowIsObject /\ [Next]_vars =>
        [\A p \in Procs : Contract(p)!Next \/ UNCHANGED Contract(p)!vars]_vars
  BY <1>2, ContractStepImplements DEF IInv
<1> QED
  BY <1>1, <1>2, <1>3, SharedInvariant, PTL DEF Spec, ImplementsContract
===============================================================================
