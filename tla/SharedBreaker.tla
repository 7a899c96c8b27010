----------------------------- MODULE SharedBreaker -----------------------------
(***************************************************************************)
(* The CircuitBreaker objects of several processes (the API backend and    *)
(* the stream worker) that meet in one row of circuit_breaker_state.       *)
(*                                                                         *)
(* A method holds the lock of its own process from beginning to end, so a  *)
(* process has one call at a time; the row is not locked, so the steps of  *)
(* a call that read and write it interleave with those of the others:      *)
(*   Begin   _sync_from_storage_locked, at most once per SyncInterval;     *)
(*   Check, Evaluate   the recovery timeout and the threshold, persisted   *)
(*           when they move the object;                                    *)
(*   GrantProbe   the grant of begin_recovery_probe, persisted.            *)
(* Of the transition history, a second table that is only ever appended to *)
(* and that nothing decides upon, the openings are counted.                *)
(***************************************************************************)
EXTENDS BreakerOps

CONSTANTS Procs,          \* the processes
          SyncInterval,   \* sync_interval_seconds, in ticks
          MaxOpens,       \* bound: calls that may open start below this count
          MaxFailures,    \* bound: verdicts are recorded below this count
          MaxProbes,      \* bound: probes a process asks for below this count
          MaxClock,       \* bound: ticks of the clock
          MaxCrashes,     \* bound: process restarts
          MaxFaults,      \* bound: failing accesses to the database
          LastFault       \* bound: the tick after which none fails

ASSUME SharedConfig == SyncInterval \in Nat /\ LastFault \in Int

VARIABLES obj,        \* each process's CircuitBreaker
          last_sync,  \* each process's _last_sync_time
          call,       \* the method each process is inside, under its lock
          row,        \* the row of the pipeline, or NoRow
          logged,     \* records of an opening in circuit_breaker_history
          now,        \* the wall clock
          crashes, faults   \* how many of each so far

vars == <<obj, last_sync, call, row, logged, now, crashes, faults>>

NoRow == [state |-> "none"]
Row == [state : CircuitState, opened_at : Nat \cup {None}, recovery_attempts : Nat,
        successful_recoveries : Nat, failed_recoveries : Nat, open_total_count : Nat]

(* The row has no column for probe_active.                                  *)
RowOf(b) == [f \in DOMAIN b \ {"probe_active"} |-> b[f]]

(* Where a process is: in no method, in one that has synchronised, or in     *)
(* begin_recovery_probe after its look at the timeout.                       *)
Calls == {"none", "read", "evaluate", "probe", "grant"}

Init ==
  /\ obj = [p \in Procs |-> NewBreaker]
  /\ last_sync = [p \in Procs |-> 0]
  /\ call = [p \in Procs |-> "none"]
  /\ row = NoRow /\ logged = 0
  /\ now = 0 /\ crashes = 0 /\ faults = 0

-------------------------------------------------------------------------------

(* Deviations: a missing opened_at never clears the cached one; the state is *)
(* left as it is cached.                                                     *)
SyncedKeepsTime(b, r) ==
  [f \in DOMAIN b |->
     IF f = "probe_active" \/ (f = "opened_at" /\ r.opened_at = None) THEN b[f] ELSE r[f]]
SyncedKeepsState(b, r) ==
  [f \in DOMAIN b |-> IF f \in {"probe_active", "state"} THEN b[f] ELSE r[f]]

(* A cached object after reading row r: every column replaces its field,     *)
(* probe_active stays, and a missing opened_at clears it except in OPEN.     *)
Synced(b, r) ==
  [f \in DOMAIN b |->
     IF f = "probe_active" THEN b[f]
     ELSE IF f = "opened_at" /\ r.opened_at = None /\ r.state = "OPEN" THEN b[f]
     ELSE r[f]]

(* A deviation: the new object does not look at the row.                     *)
HydratedNever(r) == NewBreaker

(* A new object in a process that starts: its probe flag is down.            *)
Hydrated(r) == IF r = NoRow THEN NewBreaker ELSE Synced(NewBreaker, r)

SyncDue(p) == now - last_sync[p] >= SyncInterval

Fault == faults < MaxFaults /\ now <= LastFault /\ faults' = faults + 1

(* The read of the row; a failing read is swallowed and not repeated before  *)
(* the next interval.                                                        *)
SyncFromStorage(p) ==
  /\ last_sync' = [last_sync EXCEPT ![p] = now]
  /\ \/ /\ obj' = [obj EXCEPT ![p] = IF row = NoRow THEN @ ELSE Synced(@, row)]
        /\ UNCHANGED faults
     \/ Fault /\ UNCHANGED obj

(* A deviation: only trips are worth a record.                               *)
RecordTripsOnly(p, b) ==
  logged' = logged + (IF b.state = "OPEN" /\ obj[p].state = "CLOSED" THEN 1 ELSE 0)

(* record_circuit_breaker_history                                            *)
RecordHistory(p, b) ==
  logged' = logged + (IF b.state = "OPEN" /\ obj[p].state # "OPEN" THEN 1 ELSE 0)

(* The write of the row, and after it the record; a failure of either is     *)
(* swallowed and the object keeps what the tables never got. A process that  *)
(* dies between the two is the second case, and a restart.                   *)
Persist(p, b) ==
  /\ obj' = [obj EXCEPT ![p] = b]
  /\ \/ row' = RowOf(b) /\ RecordHistory(p, b) /\ UNCHANGED faults
     \/ row' = RowOf(b) /\ Fault /\ UNCHANGED logged
     \/ Fault /\ UNCHANGED <<row, logged>>

Keep == UNCHANGED <<obj, row, logged, faults>>

-------------------------------------------------------------------------------

(* A method starts: current_state, can_process and can_probe are "read".     *)
Begin(p, op) ==
  /\ call[p] = "none"
  /\ op = "evaluate" => Enabled /\ obj[p].open_total_count < MaxOpens
  /\ op = "probe" => Enabled /\ obj[p].recovery_attempts < MaxProbes
  /\ call' = [call EXCEPT ![p] = op]
  /\ IF SyncDue(p) THEN SyncFromStorage(p) ELSE UNCHANGED <<last_sync, obj, faults>>
  /\ UNCHANGED <<row, logged, now, crashes>>

PersistIfMoved(p, b) == IF b = obj[p] THEN Keep ELSE Persist(p, b)

(* The timeout, which every method looks at next.                            *)
Check(p) ==
  /\ call[p] \in {"read", "probe"}
  /\ call' = [call EXCEPT ![p] = IF @ = "read" THEN "none" ELSE "grant"]
  /\ PersistIfMoved(p, Refreshed(obj[p], now))
  /\ UNCHANGED <<last_sync, now, crashes>>

(* evaluate: an object the timeout has moved does not trip, so there is one  *)
(* write at most.                                                            *)
Evaluate(p, rate) ==
  /\ call[p] = "evaluate"
  /\ call' = [call EXCEPT ![p] = "none"]
  /\ PersistIfMoved(p, Evaluated(obj[p], rate, now))
  /\ UNCHANGED <<last_sync, now, crashes>>

GrantProbe(p) ==
  /\ call[p] = "grant"
  /\ call' = [call EXCEPT ![p] = "none"]
  /\ IF ProbeAllowed(obj[p]) THEN Persist(p, WithProbe(obj[p])) ELSE Keep
  /\ UNCHANGED <<last_sync, now, crashes>>

(* get_status and get_metrics check the timeout without synchronising.       *)
GetStatus(p) ==
  /\ call[p] = "none"
  /\ TimeoutDue(obj[p], now)
  /\ Persist(p, Refreshed(obj[p], now))
  /\ UNCHANGED <<call, last_sync, now, crashes>>

(* transition_to and record_recovery_result trust the cached state.          *)
TransitionTo(p, s) ==
  /\ call[p] = "none"
  /\ s = "OPEN" => obj[p].open_total_count < MaxOpens
  /\ CanMove(obj[p], s)
  /\ Persist(p, Move(obj[p], s, now))
  /\ UNCHANGED <<call, last_sync, now, crashes>>

RecordRecoveryResult(p, rate) ==
  /\ call[p] = "none"
  /\ obj[p].state = "HALF_OPEN"
  /\ obj[p].failed_recoveries < MaxFailures
  /\ Persist(p, Settled(obj[p], IsPass(rate, "unset"), now))
  /\ UNCHANGED <<call, last_sync, now, crashes>>

(* sync(): forget the time of the last read and read now.                    *)
Sync(p) ==
  /\ call[p] = "none"
  /\ SyncFromStorage(p)
  /\ UNCHANGED <<call, row, logged, now, crashes>>

(* The process dies, in whatever method it was, and starts again. A row it   *)
(* cannot read leaves it CLOSED, a history it cannot read does not, and      *)
(* either way a synchronisation is due at once.                              *)
Restart(p) ==
  /\ crashes < MaxCrashes /\ crashes' = crashes + 1
  /\ call' = [call EXCEPT ![p] = "none"]
  /\ \/ /\ obj' = [obj EXCEPT ![p] = Hydrated(row)]
        /\ last_sync' = [last_sync EXCEPT ![p] = now]
        /\ UNCHANGED faults
     \/ /\ Fault
        /\ \E b \in {NewBreaker, Hydrated(row)} : obj' = [obj EXCEPT ![p] = b]
        /\ last_sync' = [last_sync EXCEPT ![p] = -SyncInterval]
  /\ UNCHANGED <<row, logged, now>>

Tick ==
  /\ now < MaxClock /\ now' = now + 1
  /\ UNCHANGED <<obj, last_sync, call, row, logged, crashes, faults>>

Step(p) == Check(p) \/ (\E rate \in Rates : Evaluate(p, rate)) \/ GrantProbe(p)

Next ==
  \/ \E p \in Procs :
       \/ \E op \in {"read", "evaluate", "probe"} : Begin(p, op)
       \/ Step(p)
       \/ GetStatus(p)
       \/ \E s \in CircuitState : TransitionTo(p, s)
       \/ \E rate \in Rates : RecordRecoveryResult(p, rate)
       \/ Sync(p)
       \/ Restart(p)
  \/ Tick

(* A call that has begun runs on, every process keeps reading its breaker    *)
(* (the telemetry loop of the backend, the event loop of the worker), and    *)
(* time passes.                                                              *)
Fairness ==
  /\ WF_vars(Tick)
  /\ \A p \in Procs : WF_vars(Step(p)) /\ WF_vars(Begin(p, "read"))

Spec == Init /\ [][Next]_vars /\ Fairness

-------------------------------------------------------------------------------

TypeOK ==
  /\ obj \in [Procs -> Breaker]
  /\ last_sync \in [Procs -> Int]
  /\ call \in [Procs -> Calls]
  /\ row \in Row \cup {NoRow}
  /\ logged \in Nat /\ now \in Nat /\ crashes \in Nat /\ faults \in Nat

(* What a row or an object says of one breaker fits together.                *)
Coherent(b) ==
  /\ (b.state = "CLOSED") <=> (b.opened_at = None)
  /\ b.successful_recoveries + b.failed_recoveries
       + (IF b.state = "CLOSED" THEN 0 ELSE 1) <= b.open_total_count

(* Stale caches, swallowed write errors and restarts may replace the row by  *)
(* an older one, but no process ever acts on, and the row never holds, a mix *)
(* of two breakers: the columns are read and written together                *)
(* (_sync_from_storage_locked, _execute_transition_locked).                  *)
NoMixedSnapshot ==
  /\ \A p \in Procs : Coherent(obj[p])
  /\ row # NoRow => Coherent(row)

(* The audit trail is complete: neither a process nor the row counts an      *)
(* opening of which there is no record, but for one record per failing       *)
(* write, although openings are counted in caches that may be stale and      *)
(* replace each other, and recorded in another table.                        *)
OpeningsAreRecorded ==
  /\ \A p \in Procs : obj[p].open_total_count <= logged + faults
  /\ row # NoRow => row.open_total_count <= logged + faults

(* No process's breaker stays in one opening for ever, though its writes may *)
(* fail and a synchronisation may bring the opening back.                    *)
NoOpeningIsPermanent ==
  \A p \in Procs :
    (obj[p].state = "OPEN" /\ obj[p].opened_at + RecoveryTimeout <= MaxClock)
      ~> (obj[p].state # "OPEN" \/ obj[p].opened_at + RecoveryTimeout > MaxClock)

(* The split brain ends: a trip that reached the row stops every process, or *)
(* somebody has moved the row on, although caches synchronise only once per  *)
(* interval and may fail to.                                                 *)
TripReachesAll ==
  \A p \in Procs :
    (row.state = "OPEN" /\ row.opened_at + SyncInterval <= MaxClock)
      ~> \/ obj[p].state # "CLOSED"
         \/ row.state # "OPEN"
         \/ row.opened_at + SyncInterval > MaxClock

(* A single process whose database answers implements the contract, restarts *)
(* at any point of any method included.                                      *)
Contract(p) == INSTANCE BreakerContract WITH
                 state <- obj[p].state,
                 probes <- IF obj[p].probe_active THEN 1 ELSE 0

ImplementsContract ==
  /\ \A p \in Procs : Contract(p)!Init
  /\ [][\A p \in Procs : Contract(p)!Next \/ UNCHANGED Contract(p)!vars]_vars

===============================================================================
