------------------------------ MODULE SelfHealing ------------------------------
(***************************************************************************)
(* The self-healing loop of one backend process: the stream validator that *)
(* trips the breaker and opens incidents, the RemediationController whose  *)
(* runs drive the pipeline state, the breaker and the incident back to     *)
(* health, and the operator who pauses, resumes and recovers through the   *)
(* API. They share three things and hold no common lock:                   *)
(*   the breaker       CircuitBreaker.tla, here only its state;            *)
(*   the pipeline row  PipelineStateManager.transition_to, taken as one    *)
(*                     step of the database;                               *)
(*   the incidents     status and recovery_attempt of each row.            *)
(* The commands to Flink, whose results every caller here only logs, change *)
(* none of them and are left out.                                          *)
(* A run of execute_remediation is a worker; pc names the next statement   *)
(* of it that reads or writes shared state.                                *)
(***************************************************************************)
EXTENDS Integers, FiniteSets

CONSTANTS Workers,               \* bound: runs of execute_remediation alive at once
          MaxIncidents,          \* bound: incidents ever created
          MaxFaults,             \* bound: restarts and database errors
          MaxRecoveryAttempts    \* the controller's limit

ASSUME HealingConfig ==
  /\ MaxIncidents \in Nat /\ MaxRecoveryAttempts \in Nat

VARIABLES cb,         \* the breaker's state
          pipe,       \* the pipeline_state row: state and active_incident_id
          incidents,  \* the pipeline_incidents rows
          active,     \* _active_remediations[pipeline_id]
          worker,     \* the runs of execute_remediation
          validator,  \* the thread inside validate_event
          operator,   \* the request thread of resume
          delivered,  \* history: write_events calls that appended an incident's events
          orphaned,   \* history: incidents whose last run died in an exception or a crash
          faults      \* restarts and database errors so far

vars == <<cb, pipe, incidents, active, worker, validator, operator,
          delivered, orphaned, faults>>

Incidents == 1..MaxIncidents
NoIncident == 0

(* state_manager.VALID_TRANSITIONS *)
VALID_TRANSITIONS ==
  [ RUNNING         |-> {"PAUSED", "DEGRADED", "QUARANTINING", "CIRCUIT_OPEN"},
    PAUSED          |-> {"RUNNING", "RESUMING"},
    DEGRADED        |-> {"RUNNING", "PAUSED", "QUARANTINING", "CIRCUIT_OPEN"},
    QUARANTINING    |-> {"RUNNING", "PAUSED", "DEGRADED", "CIRCUIT_OPEN"},
    CIRCUIT_OPEN    |-> {"REMEDIATING", "REFETCHING", "RESUMING", "RUNNING", "PAUSED"},
    REMEDIATING     |-> {"REFETCHING", "RECOVERY_FAILED", "CIRCUIT_OPEN"},
    REFETCHING      |-> {"REPROCESSING", "RECOVERY_FAILED", "CIRCUIT_OPEN"},
    REPROCESSING    |-> {"VALIDATING", "RECOVERY_FAILED", "CIRCUIT_OPEN"},
    VALIDATING      |-> {"RE_INGESTING", "RESUMING", "RECOVERY_FAILED", "CIRCUIT_OPEN"},
    RE_INGESTING    |-> {"RESUMING", "RECOVERY_FAILED", "CIRCUIT_OPEN"},
    RESUMING        |-> {"RUNNING", "RECOVERY_FAILED", "CIRCUIT_OPEN"},
    RECOVERY_FAILED |-> {"CIRCUIT_OPEN", "REMEDIATING", "PAUSED", "RUNNING"},
    RECOVERED       |-> {"RUNNING"} ]

PipelineState == DOMAIN VALID_TRANSITIONS

get_pipeline_state == pipe

(* The manager goes by the row, not by what it remembers.                    *)
current_state == get_pipeline_state.state

(* Would transition_to accept the state, unforced?                           *)
Accepts(s) == s = current_state \/ s \in VALID_TRANSITIONS[current_state]

(* The row is replaced as a whole: a transition that names no incident       *)
(* forgets the one of the row.                                               *)
upsert_pipeline_state(s, i) == pipe' = [state |-> s, incident |-> i]

SetPipeline(s, i) == upsert_pipeline_state(s, i)

(* The stages of a run that are one unforced transition of the pipeline: the *)
(* state asked for and the statement after it. fetch_for_recovery, after     *)
(* REFETCHING, may fail, which ends the run properly.                        *)
Stages ==
  [ refetch   |-> [to |-> "REFETCHING",   next |-> {"reprocess", "failPipe"}],
    reprocess |-> [to |-> "REPROCESSING", next |-> {"validate"}],
    validate  |-> [to |-> "VALIDATING",   next |-> {"probe"}],
    reingest  |-> [to |-> "RE_INGESTING", next |-> {"sink"}],
    resuming  |-> [to |-> "RESUMING",     next |-> {"running"}],
    running   |-> [to |-> "RUNNING",      next |-> {"recovered"}] ]

(* Statements between the acquisition and the release of the pipeline.       *)
Inside == DOMAIN Stages \cup
  {"load", "start", "probe", "halfOpen", "record",
   "sink", "recovered", "failPipe", "failIncident", "finally"}

Statuses == {"none", "OPEN", "REMEDIATING", "RECOVERED", "RECOVERY_FAILED"}
NoWorker == [pc |-> "idle", inc |-> NoIncident]

Init ==
  /\ cb = "CLOSED"
  /\ pipe = [state |-> "RUNNING", incident |-> NoIncident]
  /\ incidents = [i \in Incidents |-> [status |-> "none", attempts |-> 0]]
  /\ active = FALSE
  /\ worker = [w \in Workers |-> NoWorker]
  /\ validator = [pc |-> "idle", old |-> "CLOSED", inc |-> NoIncident]
  /\ operator = "idle"
  /\ delivered = [i \in Incidents |-> 0]
  /\ orphaned = {}
  /\ faults = 0

-------------------------------------------------------------------------------
(* Incidents *)

Exists(i) == i # NoIncident /\ incidents[i].status # "none"

(* find_active_incident: the newest one that is not recovered.               *)
ActiveIncidents == {i \in Incidents : incidents[i].status \in {"OPEN", "REMEDIATING", "RECOVERY_FAILED"}}
NewestActive == CHOOSE i \in ActiveIncidents : \A j \in ActiveIncidents : j <= i
NextId == 1 + Cardinality({i \in Incidents : Exists(i)})

(* get_or_create_incident without an id: reuse the active incident, else     *)
(* create one; i is the incident the caller goes on with.                    *)
GetOrCreateIncident(i) ==
  IF ActiveIncidents # {}
  THEN i = NewestActive /\ UNCHANGED incidents
  ELSE /\ i = NextId
       /\ incidents' = [incidents EXCEPT ![i].status = "OPEN"]

Spawn(w, i) ==
  /\ worker[w].pc = "idle"
  /\ worker' = [worker EXCEPT ![w] = [pc |-> "enter", inc |-> i]]

-------------------------------------------------------------------------------
(* RemediationController.execute_remediation *)

At(w, pc) == worker[w].pc = pc
Goto(w, pc) == worker' = [worker EXCEPT ![w].pc = pc]

(* An exception: the run goes to its finally block with nothing recorded.    *)
Raise(w) == Goto(w, "finally") /\ orphaned' = orphaned \cup {worker[w].inc}

SetStatus(w, s) == incidents' = [incidents EXCEPT ![worker[w].inc].status = s]

(* A deviation: the flag is set, and not looked at.                          *)
EnterAnyway(w) ==
  /\ At(w, "enter")
  /\ active' = TRUE
  /\ Goto(w, "load")
  /\ UNCHANGED <<cb, pipe, incidents, validator, operator, delivered, orphaned, faults>>

(* The lock of the controller: a second run is turned away.                  *)
Enter(w) ==
  /\ At(w, "enter")
  /\ active' = TRUE
  /\ worker' = [worker EXCEPT ![w] = IF active THEN NoWorker ELSE [@ EXCEPT !.pc = "load"]]
  /\ UNCHANGED <<cb, pipe, incidents, validator, operator, delivered, orphaned, faults>>

(* A deviation: the attempts so far are compared, without the one that begins. *)
OverLimitLate(w) ==
  /\ MaxRecoveryAttempts > 0
  /\ incidents[worker[w].inc].attempts > MaxRecoveryAttempts

(* The limit on attempts counts those of earlier runs; a run over it marks   *)
(* the pipeline, not the incident.                                           *)
OverLimit(w) ==
  /\ MaxRecoveryAttempts > 0
  /\ incidents[worker[w].inc].attempts + 1 > MaxRecoveryAttempts

Load(w) ==
  /\ At(w, "load")
  /\ LET i == worker[w].inc
     IN  IF OverLimit(w)
         THEN /\ SetPipeline("RECOVERY_FAILED", i)
              /\ Goto(w, "finally")
              /\ UNCHANGED incidents
         ELSE /\ incidents' = [incidents EXCEPT ![i] = [status   |-> "REMEDIATING",
                                                       attempts |-> @.attempts + 1]]
              /\ Goto(w, "start")
              /\ UNCHANGED pipe
  /\ UNCHANGED <<cb, active, validator, operator, delivered, orphaned, faults>>

(* The one forced transition of a run that is going well. After it comes     *)
(* verify_quarantine, whose failure ends the run properly.                   *)
Start(w) ==
  /\ At(w, "start")
  /\ SetPipeline("REMEDIATING", worker[w].inc)
  /\ Goto(w, "refetch") \/ Goto(w, "failPipe")
  /\ UNCHANGED <<cb, incidents, active, validator, operator, delivered, orphaned, faults>>

(* An unforced transition raises ValueError when another thread has moved    *)
(* the pipeline to where it is not valid.                                    *)
Advance(w) ==
  /\ worker[w].pc \in DOMAIN Stages
  /\ LET stage == Stages[worker[w].pc]
     IN  IF Accepts(stage.to)
         THEN /\ SetPipeline(stage.to, worker[w].inc)
              /\ \E next \in stage.next : Goto(w, next)
              /\ UNCHANGED orphaned
         ELSE Raise(w) /\ UNCHANGED pipe
  /\ UNCHANGED <<cb, incidents, active, validator, operator, delivered, faults>>

(* The breaker is read, then moved to HALF_OPEN if it was OPEN.              *)
ReadBreaker(w) ==
  /\ At(w, "probe")
  /\ Goto(w, IF cb = "OPEN" THEN "halfOpen" ELSE "record")
  /\ UNCHANGED <<cb, pipe, incidents, active, validator, operator, delivered,
                 orphaned, faults>>

HalfOpen(w) ==
  /\ At(w, "halfOpen")
  /\ IF cb = "CLOSED" THEN Raise(w) /\ UNCHANGED cb
     ELSE cb' = "HALF_OPEN" /\ Goto(w, "record") /\ UNCHANGED orphaned
  /\ UNCHANGED <<pipe, incidents, active, validator, operator, delivered, faults>>

(* record_recovery_result and the decision. The reprocessed batch is clean,  *)
(* has invalid events within the threshold, or exceeds it: the breaker       *)
(* closes on the first two, the run succeeds on the first only.              *)
Record(w) ==
  /\ At(w, "record")
  /\ IF cb # "HALF_OPEN" THEN Raise(w) /\ UNCHANGED cb
     ELSE /\ \E batch \in {"clean", "within", "above"} :
               /\ cb' = IF batch = "above" THEN "OPEN" ELSE "CLOSED"
               /\ Goto(w, IF batch = "clean" THEN "reingest" ELSE "failPipe")
          /\ UNCHANGED orphaned
  /\ UNCHANGED <<pipe, incidents, active, validator, operator, delivered, faults>>

(* A deviation: the result of write_events is not looked at.                 *)
WriteEventsUnchecked(w) ==
  /\ At(w, "sink")
  /\ Goto(w, "resuming")
  /\ \E n \in {0, 1} : delivered' = [delivered EXCEPT ![worker[w].inc] = @ + n]
  /\ UNCHANGED <<cb, pipe, incidents, active, validator, operator, orphaned, faults>>

(* write_events: a call that reports failure may have appended its events.   *)
WriteEvents(w) ==
  /\ At(w, "sink")
  /\ \/ Goto(w, "resuming") /\ delivered' = [delivered EXCEPT ![worker[w].inc] = @ + 1]
     \/ Goto(w, "failPipe") /\ \E n \in {0, 1} :
                                 delivered' = [delivered EXCEPT ![worker[w].inc] = @ + n]
  /\ UNCHANGED <<cb, pipe, incidents, active, validator, operator, orphaned, faults>>

(* A deviation: a failed run leaves its incident as it is.                   *)
FailPipelineOnly(w) ==
  /\ At(w, "failPipe")
  /\ SetPipeline("RECOVERY_FAILED", worker[w].inc)
  /\ Goto(w, "finally")
  /\ UNCHANGED <<cb, incidents, active, validator, operator, delivered, orphaned, faults>>

(* record_failure, forced.                                                   *)
FailPipeline(w) ==
  /\ At(w, "failPipe")
  /\ SetPipeline("RECOVERY_FAILED", worker[w].inc)
  /\ Goto(w, "failIncident")
  /\ UNCHANGED <<cb, incidents, active, validator, operator, delivered, orphaned, faults>>

(* The last write to the incident, on success and on failure.                *)
Settle(w) ==
  /\ \/ At(w, "recovered")    /\ SetStatus(w, "RECOVERED")
     \/ At(w, "failIncident") /\ SetStatus(w, "RECOVERY_FAILED")
  /\ Goto(w, "finally")
  /\ orphaned' = orphaned \ {worker[w].inc}
  /\ UNCHANGED <<cb, pipe, active, validator, operator, delivered, faults>>

Finally(w) ==
  /\ At(w, "finally")
  /\ active' = FALSE
  /\ worker' = [worker EXCEPT ![w] = NoWorker]
  /\ UNCHANGED <<cb, pipe, incidents, validator, operator, delivered, orphaned, faults>>

Run(w) ==
  \/ Enter(w) \/ Load(w) \/ Start(w) \/ Advance(w)
  \/ ReadBreaker(w) \/ HalfOpen(w) \/ Record(w) \/ WriteEvents(w)
  \/ FailPipeline(w) \/ Settle(w) \/ Finally(w)

(* The row of a transition is written, its record in the history fails, and  *)
(* the caller sees an exception for a transition that took place.            *)
Transitions == [s \in DOMAIN Stages \cup {"start", "failPipe"} |->
                  CASE s = "start"    -> "REMEDIATING"
                    [] s = "failPipe" -> "RECOVERY_FAILED"
                    [] OTHER          -> Stages[s].to]

HistoryError(w) ==
  /\ faults < MaxFaults /\ faults' = faults + 1
  /\ worker[w].pc \in DOMAIN Transitions
  /\ worker[w].pc \in DOMAIN Stages => Accepts(Transitions[worker[w].pc])
  /\ SetPipeline(Transitions[worker[w].pc], worker[w].inc)
  /\ Raise(w)
  /\ UNCHANGED <<cb, incidents, active, validator, operator, delivered>>

(* Any statement that touches the database may raise.                        *)
StorageError(w) ==
  /\ faults < MaxFaults /\ faults' = faults + 1
  /\ worker[w].pc \in Inside \ {"finally"}
  /\ Raise(w)
  /\ UNCHANGED <<cb, pipe, incidents, active, validator, operator, delivered>>

-------------------------------------------------------------------------------
(* StreamQualityValidator.validate_event, from an invalid event on *)

Validate(next) ==
  /\ validator' = next
  /\ UNCHANGED <<active, operator, delivered, orphaned, faults>>

ReadState ==
  /\ validator.pc = "idle"
  /\ Validate([pc |-> "evaluate", old |-> cb, inc |-> NoIncident])
  /\ UNCHANGED <<cb, pipe, incidents, worker>>

(* evaluate, and the branch on the state read before it and the state it     *)
(* returns. high: the rate exceeds the threshold; enough: ten events or more *)
(* in the window.                                                            *)
Evaluate(high, enough) ==
  LET new  == IF cb = "CLOSED" /\ high THEN "OPEN" ELSE cb
      next == IF validator.old = "HALF_OPEN" /\ enough /\ ~high THEN "close"
              ELSE IF new = "OPEN" /\ validator.old # "OPEN" THEN "incident"
              ELSE "idle"
  IN  /\ validator.pc = "evaluate"
      /\ cb' = new
      /\ Validate([pc |-> next, old |-> "CLOSED", inc |-> NoIncident])
      /\ UNCHANGED <<pipe, incidents, worker>>

(* A deviation: the breaker is closed on the state read before evaluate.     *)
AutoCloseStale ==
  /\ validator.pc = "close"
  /\ cb' = "CLOSED"
  /\ Validate([validator EXCEPT !.pc = "idle"])
  /\ UNCHANGED <<pipe, incidents, worker>>

(* record_recovery_result(success=True); its exception is swallowed.         *)
AutoClose ==
  /\ validator.pc = "close"
  /\ cb' = IF cb = "HALF_OPEN" THEN "CLOSED" ELSE cb
  /\ Validate([validator EXCEPT !.pc = "idle"])
  /\ UNCHANGED <<pipe, incidents, worker>>

(* The incident is opened and its remediation started in a new thread before *)
(* the pipeline is marked.                                                   *)
OpenIncident ==
  /\ validator.pc = "incident"
  /\ \E i \in Incidents, w \in Workers :
       /\ GetOrCreateIncident(i)
       /\ Spawn(w, i)
       /\ Validate([validator EXCEPT !.pc = "circuitOpen", !.inc = i])
  /\ UNCHANGED <<cb, pipe>>

MarkCircuitOpen ==
  /\ validator.pc = "circuitOpen"
  /\ IF Accepts("CIRCUIT_OPEN") THEN SetPipeline("CIRCUIT_OPEN", validator.inc)
                                ELSE UNCHANGED pipe
  /\ Validate([validator EXCEPT !.pc = "idle", !.inc = NoIncident])
  /\ UNCHANGED <<cb, incidents, worker>>

(* The validator swallows the errors of both statements: without an incident *)
(* it still marks the pipeline, and a pipeline it cannot mark stays.         *)
ValidatorError ==
  /\ faults < MaxFaults /\ faults' = faults + 1
  /\ \/ validator.pc = "incident"    /\ validator' = [validator EXCEPT !.pc = "circuitOpen"]
     \/ validator.pc = "circuitOpen" /\ validator' = [validator EXCEPT !.pc = "idle",
                                                                       !.inc = NoIncident]
  /\ UNCHANGED <<cb, pipe, incidents, active, worker, operator, delivered, orphaned>>

-------------------------------------------------------------------------------
(* PipelineService: pause, resume and recover *)

Operate(next) ==
  /\ operator' = next
  /\ UNCHANGED <<cb, incidents, active, worker, validator, delivered, orphaned, faults>>

(* The unforced transition of pause names no incident; refused, it is a 400. *)
Pause ==
  /\ pipe.state # "PAUSED"
  /\ Accepts("PAUSED")
  /\ SetPipeline("PAUSED", NoIncident)
  /\ Operate(operator)

(* resume looks at the breaker and the state, then moves the pipeline.       *)
Resume ==
  /\ operator = "idle"
  /\ cb # "OPEN"
  /\ pipe.state # "RUNNING"
  /\ Operate("resuming")
  /\ UNCHANGED pipe

MarkRunning ==
  /\ operator = "resuming"
  /\ IF Accepts("RUNNING") THEN SetPipeline("RUNNING", NoIncident) ELSE UNCHANGED pipe
  /\ Operate("idle")

BeingRemediated == {"REMEDIATING", "REFETCHING", "REPROCESSING", "VALIDATING"}

(* recover: the incident asked for (one that exists), else the one the        *)
(* pipeline row names, else an active or new one, unless the pipeline is      *)
(* healthy.                                                                   *)
Recover(asked) ==
  LET known == IF asked # NoIncident THEN asked ELSE pipe.incident
  IN  /\ asked # NoIncident => Exists(asked)
      /\ pipe.state \notin BeingRemediated
      /\ \E i \in Incidents, w \in Workers :
           /\ IF known # NoIncident THEN i = known /\ UNCHANGED incidents
              ELSE ~(pipe.state = "RUNNING" /\ cb = "CLOSED") /\ GetOrCreateIncident(i)
           /\ Spawn(w, i)
      /\ UNCHANGED <<cb, pipe, active, validator, operator, delivered, orphaned, faults>>

-------------------------------------------------------------------------------

(* Some read of the breaker finds the recovery timeout elapsed.              *)
TimeoutElapsed ==
  /\ cb = "OPEN" /\ cb' = "HALF_OPEN"
  /\ UNCHANGED <<pipe, incidents, active, worker, validator, operator, delivered,
                 orphaned, faults>>

(* The process restarts: threads, lock and flags are gone, the rows and the  *)
(* breaker's state, which is hydrated from its row, are still there.         *)
Crash ==
  /\ faults < MaxFaults /\ faults' = faults + 1
  /\ orphaned' = orphaned \cup {worker[w].inc : w \in {v \in Workers : worker[v].pc \in Inside}}
  /\ worker' = [w \in Workers |-> NoWorker]
  /\ active' = FALSE
  /\ validator' = [pc |-> "idle", old |-> "CLOSED", inc |-> NoIncident]
  /\ operator' = "idle"
  /\ UNCHANGED <<cb, pipe, incidents, delivered>>

Next ==
  \/ \E w \in Workers : Run(w) \/ StorageError(w) \/ HistoryError(w)
  \/ ReadState
  \/ \E high, enough \in BOOLEAN : Evaluate(high, enough)
  \/ AutoClose
  \/ OpenIncident
  \/ MarkCircuitOpen \/ ValidatorError
  \/ Pause \/ Resume \/ MarkRunning
  \/ \E asked \in Incidents \cup {NoIncident} : Recover(asked)
  \/ TimeoutElapsed
  \/ Crash

Spec == Init /\ [][Next]_vars

-------------------------------------------------------------------------------

TypeOK ==
  /\ cb \in {"CLOSED", "OPEN", "HALF_OPEN"}
  /\ pipe \in [state : PipelineState, incident : Incidents \cup {NoIncident}]
  /\ incidents \in [Incidents -> [status : Statuses, attempts : Nat]]
  /\ active \in BOOLEAN
  /\ worker \in [Workers -> [pc : Inside \cup {"idle", "enter"},
                             inc : Incidents \cup {NoIncident}]]
  /\ validator \in [pc : {"idle", "evaluate", "close", "incident", "circuitOpen"},
                    old : {"CLOSED", "OPEN", "HALF_OPEN"},
                    inc : Incidents \cup {NoIncident}]
  /\ operator \in {"idle", "resuming"}
  /\ delivered \in [Incidents -> Nat]
  /\ orphaned \subseteq Incidents
  /\ faults \in Nat

Running(w) == worker[w].pc \in Inside

(* At most one remediation of the pipeline is under way, and the flag that   *)
(* says so is never left behind: whatever a run ends with, an exception or a *)
(* failed stage included, the next one can get in (execute_remediation, the  *)
(* lock at its start and the finally at its end).                            *)
SingleRemediation ==
  /\ Cardinality({w \in Workers : Running(w)}) <= 1
  /\ active <=> (\E w \in Workers : Running(w))

(* An incident is called RECOVERED only when its events were appended to the *)
(* lakehouse, whatever earlier runs of it, other threads and restarts did.   *)
RecoveredMeansDelivered ==
  \A i \in Incidents : incidents[i].status = "RECOVERED" => delivered[i] > 0

(* Every delivery of an incident's events is paid for by an attempt on its   *)
(* row, and the limit on attempts holds over validators that reuse the       *)
(* incident, recover calls, exceptions and restarts: it bounds how often the *)
(* same events can reach the lakehouse.                                      *)
DeliveriesWithinLimit ==
  \A i \in Incidents :
    /\ delivered[i] <= incidents[i].attempts
    /\ MaxRecoveryAttempts > 0 => incidents[i].attempts <= MaxRecoveryAttempts

(* Nothing is left half way by a run that ended by itself: when no run is    *)
(* under way, an incident still REMEDIATING and a pipeline still in a        *)
(* state of the remediation are those of a run that died in an exception or  *)
(* with its process.                                                         *)
NothingStranded ==
  ~active =>
    /\ \A i \in Incidents : incidents[i].status = "REMEDIATING" => i \in orphaned
    /\ pipe.state \in {Stages[s].to : s \in DOMAIN Stages \ {"running"}} \cup {"REMEDIATING"}
         => pipe.incident \in orphaned

(* The validator, the remediation and the clock together move the breaker    *)
(* only as BreakerContract.tla allows. No probe is ever asked for here: the  *)
(* controller records results without begin_recovery_probe.                  *)
Breaker == INSTANCE BreakerContract WITH state <- cb, probes <- 0

KeepsBreakerContract == Breaker!Spec

===============================================================================
