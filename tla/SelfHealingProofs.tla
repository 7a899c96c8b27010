--------------------------- MODULE SelfHealingProofs ---------------------------
(***************************************************************************)
(* Proofs about SelfHealing, for any number of runs of the remediation,    *)
(* incidents, faults and attempts. The inductive invariant says, for each  *)
(* statement of execute_remediation, what a run that stands there has made *)
(* sure of; the steps of the other threads are grouped by what they touch. *)
(***************************************************************************)
EXTENDS SelfHealing, FiniteSetTheorems, TLAPS

(* Where a run has counted its attempt and delivered nothing yet.             *)
BeforeSink == {"start", "refetch", "reprocess", "validate", "probe", "halfOpen", "record",
               "reingest", "sink"}

(* Where a run goes on only after write_events returned True.                 *)
AfterSink == {"resuming", "running", "recovered"}

(* Where a run answers for the status of its incident: it has set it to       *)
(* REMEDIATING and not settled it.                                            *)
Answering == Inside \ {"load", "finally"}

(* Where a run answers for the state of the pipeline.                         *)
Moving == Inside \ {"load", "start", "finally", "recovered", "failIncident"}

(* The states of the pipeline that belong to a remediation under way.         *)
Halfway == {Stages[s].to : s \in DOMAIN Stages \ {"running"}} \cup {"REMEDIATING"}

(* The lock and the flag of the controller let one run in.                    *)
OneRun ==
  /\ \A v, w \in Workers : Running(v) /\ Running(w) => v = w
  /\ active <=> (\E w \in Workers : Running(w))

(* What a run that stands at its statement has made sure of.                  *)
RunInv(w) ==
  LET i == worker[w].inc
      pc == worker[w].pc
  IN  /\ pc # "idle" => i \in Incidents
      /\ pc \in BeforeSink => delivered[i] < incidents[i].attempts
      /\ pc \in AfterSink => delivered[i] > 0
      /\ pc \in {"recovered", "failIncident"} => pipe.state \notin Halfway

(* Every incident in remediation has a run that answers for it, or is one     *)
(* whose last run died.                                                       *)
IncidentsAnswered ==
  \A i \in Incidents : incidents[i].status = "REMEDIATING" =>
    i \in orphaned \/ \E w \in Workers : worker[w].pc \in Answering /\ worker[w].inc = i

(* So has the pipeline while it is in a state of the remediation.             *)
PipelineAnswered ==
  pipe.state \in Halfway =>
    \/ pipe.incident \in orphaned
    \/ \E w \in Workers : worker[w].pc \in Moving /\ worker[w].inc = pipe.incident

IInv ==
  /\ TypeOK
  /\ OneRun
  /\ \A w \in Workers : RunInv(w)
  /\ RecoveredMeansDelivered
  /\ DeliveriesWithinLimit
  /\ IncidentsAnswered
  /\ PipelineAnswered
-------------------------------------------------------------------------------

(* Where each stage of a run leads, and the state of the pipeline it asks for.*)
LEMMA StageFacts ==
  ASSUME NEW s \in DOMAIN Stages, NEW next \in Stages[s].next
  PROVE  /\ s \in Moving /\ Stages[s].to \in PipelineState
         /\ next \in Inside \ {"load", "start", "finally", "failIncident"}
         /\ next \in BeforeSink => s \in BeforeSink
         /\ next \in AfterSink => s \in AfterSink
         /\ next = "recovered" => Stages[s].to \notin Halfway
BY DEF Stages, Inside, BeforeSink, AfterSink, Moving, Halfway, PipelineState, VALID_TRANSITIONS

(* The named places are statements between Enter and Finally.                 *)
LEMMA PlaceFacts ==
  /\ BeforeSink \subseteq Inside /\ AfterSink \subseteq Inside
  /\ Moving \subseteq Answering /\ Answering \subseteq Inside
  /\ "idle" \notin Inside /\ "enter" \notin Inside
  /\ {"load", "finally"} \subseteq Inside
  /\ BeforeSink \cup AfterSink \subseteq Answering
  /\ {"recovered", "failIncident"} \subseteq Answering
  /\ BeforeSink \ {"start"} \subseteq Moving /\ {"resuming", "failPipe"} \subseteq Moving
  /\ BeforeSink \cap AfterSink = {} /\ "failPipe" \notin BeforeSink \cup AfterSink
  /\ "failIncident" \notin BeforeSink \cup AfterSink
BY DEF Stages, Inside, BeforeSink, AfterSink, Answering, Moving

(* The states other threads give the pipeline are not those of a remediation. *)
LEMMA StateFacts ==
  /\ {"RUNNING", "PAUSED", "CIRCUIT_OPEN", "RECOVERY_FAILED"} \subseteq PipelineState \ Halfway
  /\ "REMEDIATING" \in PipelineState
BY DEF Stages, Halfway, PipelineState, VALID_TRANSITIONS

(* A goto moves one run and keeps its incident.                               *)
LEMMA GotoFields ==
  ASSUME TypeOK, NEW w \in Workers, NEW pc, Goto(w, pc)
  PROVE  /\ worker'[w].pc = pc /\ worker'[w].inc = worker[w].inc
         /\ \A u \in Workers : u # w => worker'[u] = worker[u]
         /\ pc \in Inside => worker' \in [Workers -> [pc : Inside \cup {"idle", "enter"},
                                                      inc : Incidents \cup {NoIncident}]]
BY DEF TypeOK, Goto

(* The run that is inside stays the only one when it moves on.                *)
LEMMA GotoKeepsOneRun ==
  ASSUME TypeOK, OneRun, NEW w \in Workers, Running(w), NEW pc \in Inside, Goto(w, pc),
         UNCHANGED active
  PROVE  OneRun'
BY GotoFields DEF OneRun, Running
-------------------------------------------------------------------------------

(* A step that leaves runs, incidents and deliveries alone, and gives the     *)
(* pipeline at most a state that is not of a remediation, disturbs nothing:   *)
(* the validator's reads and marks, pause, resume, the breaker's clock.       *)
LEMMA QuietKeeps ==
  ASSUME IInv, TypeOK', UNCHANGED <<incidents, active, worker, delivered, orphaned>>,
         pipe' = pipe \/ pipe'.state \notin Halfway
  PROVE  IInv'
<1>1. OneRun'
  BY DEF IInv, OneRun, Running
<1>2. ASSUME NEW w \in Workers PROVE RunInv(w)'
  BY DEF IInv, RunInv
<1>3. RecoveredMeansDelivered' /\ DeliveriesWithinLimit' /\ IncidentsAnswered'
  BY DEF IInv, RecoveredMeansDelivered, DeliveriesWithinLimit, IncidentsAnswered
<1>4. PipelineAnswered'
  BY DEF IInv, PipelineAnswered
<1> QED
  BY <1>1, <1>2, <1>3, <1>4 DEF IInv

(* A new run of the remediation starts outside the lock, for an incident that *)
(* is there or one that was just opened.                                      *)
LEMMA SpawnKeeps ==
  ASSUME IInv, TypeOK', NEW i \in Incidents, NEW w \in Workers, Spawn(w, i),
         incidents' = incidents \/ incidents' = [incidents EXCEPT ![i].status = "OPEN"],
         UNCHANGED <<pipe, active, delivered, orphaned>>
  PROVE  IInv'
<1>1. /\ worker[w].pc = "idle" /\ worker'[w] = [pc |-> "enter", inc |-> i]
      /\ \A u \in Workers : u # w => worker'[u] = worker[u]
  BY DEF IInv, TypeOK, Spawn
<1>2. \A j \in Incidents : /\ incidents'[j].attempts = incidents[j].attempts
                           /\ incidents'[j].status \in {incidents[j].status, "OPEN"}
  BY DEF IInv, TypeOK
<1>3. OneRun'
  BY <1>1, PlaceFacts DEF IInv, OneRun, Running
<1>4. ASSUME NEW u \in Workers PROVE RunInv(u)'
  BY <1>1, <1>2, PlaceFacts DEF IInv, RunInv
<1>5. RecoveredMeansDelivered' /\ DeliveriesWithinLimit'
  BY <1>2 DEF IInv, RecoveredMeansDelivered, DeliveriesWithinLimit
<1>6. IncidentsAnswered'
  BY <1>1, <1>2, PlaceFacts DEF IInv, IncidentsAnswered
<1>7. PipelineAnswered'
  BY <1>1, PlaceFacts DEF IInv, PipelineAnswered
<1> QED
  BY <1>3, <1>4, <1>5, <1>6, <1>7 DEF IInv

(* A run that dies in an exception leaves its incident among the orphaned:    *)
(* whatever it answered for is accounted for.                                 *)
LEMMA RaiseKeeps ==
  ASSUME IInv, TypeOK', NEW w \in Workers, Running(w), Raise(w),
         pipe' = pipe \/ pipe'.incident = worker[w].inc,
         UNCHANGED <<incidents, active, delivered>>
  PROVE  IInv'
<1>1. /\ worker'[w].pc = "finally" /\ worker'[w].inc = worker[w].inc
      /\ \A u \in Workers : u # w => worker'[u] = worker[u]
      /\ orphaned' = orphaned \cup {worker[w].inc}
  BY GotoFields DEF IInv, Raise
<1>2. OneRun'
  BY GotoKeepsOneRun, PlaceFacts DEF IInv, Raise
<1>3. ASSUME NEW u \in Workers, u # w PROVE ~Running(u)
  BY <1>3 DEF IInv, OneRun
<1>4. ASSUME NEW u \in Workers PROVE RunInv(u)'
  <2>1. CASE u = w
    BY <1>1, <2>1, PlaceFacts DEF IInv, RunInv, Running, Answering
  <2>2. CASE u # w
    BY <1>1, <1>3, <2>2, PlaceFacts DEF IInv, RunInv, Running
  <2> QED
    BY <2>1, <2>2
<1>5. RecoveredMeansDelivered' /\ DeliveriesWithinLimit'
  BY DEF IInv, RecoveredMeansDelivered, DeliveriesWithinLimit
<1>6. IncidentsAnswered'
  BY <1>1, <1>3, PlaceFacts DEF IInv, IncidentsAnswered, Running
<1>7. PipelineAnswered'
  BY <1>1, <1>3, PlaceFacts DEF IInv, PipelineAnswered, Running
<1> QED
  BY <1>2, <1>4, <1>5, <1>6, <1>7 DEF IInv

(* A run that goes on inside the remediation keeps answering for its incident *)
(* and, unless it leaves the pipeline in a state of no remediation, for the   *)
(* pipeline. n is what it delivers on its way.                                *)
LEMMA ForwardKeeps ==
  ASSUME IInv, TypeOK', NEW w \in Workers, NEW pc \in Answering, Goto(w, pc),
         worker[w].pc \in Answering,
         NEW n \in {0, 1},
         \A i \in Incidents : delivered'[i] = IF i = worker[w].inc THEN delivered[i] + n
                                                                    ELSE delivered[i],
         UNCHANGED <<incidents, active, orphaned>>,
         n = 1 => worker[w].pc \in BeforeSink /\ pc \notin BeforeSink,
         pc \in BeforeSink => worker[w].pc \in BeforeSink,
         pc \in AfterSink => worker[w].pc \in AfterSink \/ n = 1,
         pipe' = pipe \/ pipe'.incident = worker[w].inc,
         pc \in Moving \/ pipe'.state \notin Halfway,
         pc \in {"recovered", "failIncident"} => pipe'.state \notin Halfway
  PROVE  IInv'
<1>1. /\ worker'[w].pc = pc /\ worker'[w].inc = worker[w].inc
      /\ \A u \in Workers : u # w => worker'[u] = worker[u]
  BY GotoFields DEF IInv
<1>2. Running(w) /\ OneRun' /\ worker[w].inc \in Incidents
  BY GotoKeepsOneRun, PlaceFacts DEF IInv, Running, RunInv
<1>3. ASSUME NEW u \in Workers, u # w PROVE ~Running(u)
  BY <1>2, <1>3 DEF IInv, OneRun
<1>4. \A i \in Incidents : delivered[i] \in Nat /\ incidents[i].attempts \in Nat
  BY DEF IInv, TypeOK
<1>5. ASSUME NEW u \in Workers PROVE RunInv(u)'
  <2>1. CASE u = w
    BY <1>1, <1>2, <1>4, <2>1 DEF IInv, RunInv
  <2>2. CASE u # w
    BY <1>1, <1>3, <2>2, PlaceFacts DEF IInv, RunInv, Running
  <2> QED
    BY <2>1, <2>2
<1>6. RecoveredMeansDelivered'
  BY <1>4 DEF IInv, RecoveredMeansDelivered
<1>7. DeliveriesWithinLimit'
  BY <1>4 DEF IInv, RunInv, DeliveriesWithinLimit
<1>8. IncidentsAnswered'
  BY <1>1, <1>2, <1>3, PlaceFacts DEF IInv, IncidentsAnswered, Running
<1>9. PipelineAnswered'
  BY <1>1, <1>2, <1>3, PlaceFacts DEF IInv, PipelineAnswered, Running
<1> QED
  BY <1>2, <1>5, <1>6, <1>7, <1>8, <1>9 DEF IInv
-------------------------------------------------------------------------------

(* One breaker, one row, no run: the process starts with nothing to answer.   *)
LEMMA InitInv == Init => IInv
<1> SUFFICES ASSUME Init PROVE IInv
  OBVIOUS
<1>1. TypeOK
  BY StateFacts, HealingConfig DEF Init, TypeOK, NoWorker, NoIncident, Statuses
<1>2. \A w \in Workers : ~Running(w) /\ RunInv(w)
  BY PlaceFacts DEF Init, Running, RunInv, NoWorker
<1>3. OneRun
  BY <1>2 DEF Init, OneRun
<1>4. RecoveredMeansDelivered /\ DeliveriesWithinLimit /\ IncidentsAnswered
  BY HealingConfig DEF Init, RecoveredMeansDelivered, DeliveriesWithinLimit, IncidentsAnswered
<1>5. PipelineAnswered
  BY StateFacts DEF Init, PipelineAnswered
<1> QED
  BY <1>1, <1>2, <1>3, <1>4, <1>5 DEF IInv

(* The lock of execute_remediation lets a run in only when none is inside.    *)
LEMMA EnterKeeps ==
  ASSUME IInv, NEW w \in Workers, Enter(w)
  PROVE  IInv'
<1>1. /\ worker[w].pc = "enter" /\ worker[w].inc \in Incidents
      /\ worker'[w] = IF active THEN NoWorker ELSE [pc |-> "load", inc |-> worker[w].inc]
      /\ \A u \in Workers : u # w => worker'[u] = worker[u]
      /\ active' = TRUE
      /\ UNCHANGED <<pipe, incidents, delivered, orphaned>>
  BY DEF Enter, At, IInv, TypeOK, RunInv
<1>2. TypeOK'
  <2>1. worker'[w] \in [pc : Inside \cup {"idle", "enter"}, inc : Incidents \cup {NoIncident}]
    BY <1>1, PlaceFacts DEF NoWorker
  <2>2. worker' \in [Workers -> [pc : Inside \cup {"idle", "enter"},
                                 inc : Incidents \cup {NoIncident}]]
    BY <2>1 DEF Enter, IInv, TypeOK
  <2> QED
    BY <2>2 DEF Enter, IInv, TypeOK
<1>3. OneRun'
  BY <1>1, PlaceFacts DEF IInv, OneRun, Running, NoWorker
<1>4. ASSUME NEW u \in Workers PROVE RunInv(u)'
  BY <1>1, PlaceFacts DEF IInv, RunInv, NoWorker, Answering
<1>5. RecoveredMeansDelivered' /\ DeliveriesWithinLimit'
  BY <1>1 DEF IInv, RecoveredMeansDelivered, DeliveriesWithinLimit
<1>6. IncidentsAnswered' /\ PipelineAnswered'
  BY <1>1, PlaceFacts DEF IInv, IncidentsAnswered, PipelineAnswered
<1> QED
  BY <1>2, <1>3, <1>4, <1>5, <1>6 DEF IInv

(* The attempt is counted and the incident marked, or the limit ends the run. *)
LEMMA LoadKeeps ==
  ASSUME IInv, NEW w \in Workers, Load(w)
  PROVE  IInv'
<1> DEFINE i == worker[w].inc
<1>1. /\ worker[w].pc = "load" /\ Running(w) /\ i \in Incidents
      /\ UNCHANGED <<cb, active, validator, operator, delivered, orphaned, faults>>
      /\ \A u \in Workers : u # w => ~Running(u)
  BY PlaceFacts DEF Load, At, IInv, RunInv, Running, OneRun
<1>2. \A j \in Incidents : delivered[j] \in Nat /\ incidents[j].attempts \in Nat
  BY DEF IInv, TypeOK
<1>3. CASE OverLimit(w)
  <2>1. /\ pipe' = [state |-> "RECOVERY_FAILED", incident |-> i]
        /\ Goto(w, "finally") /\ UNCHANGED incidents
    BY <1>3 DEF Load, SetPipeline, upsert_pipeline_state
  <2>2. /\ worker'[w].pc = "finally" /\ worker'[w].inc = i
        /\ \A u \in Workers : u # w => worker'[u] = worker[u]
    BY <2>1, GotoFields DEF IInv
  <2>3. TypeOK'
    BY <1>1, <2>1, GotoFields, PlaceFacts, StateFacts DEF IInv, TypeOK
  <2>4. OneRun'
    BY <1>1, <2>1, GotoKeepsOneRun, PlaceFacts DEF IInv
  <2>5. ASSUME NEW u \in Workers PROVE RunInv(u)'
    BY <1>1, <2>2, PlaceFacts DEF IInv, RunInv, Running, Answering
  <2>6. RecoveredMeansDelivered' /\ DeliveriesWithinLimit'
    BY <1>1, <2>1 DEF IInv, RecoveredMeansDelivered, DeliveriesWithinLimit
  <2>7. IncidentsAnswered'
    BY <1>1, <2>1, <2>2 DEF IInv, IncidentsAnswered, Answering
  <2>8. PipelineAnswered'
    BY <2>1, StateFacts DEF PipelineAnswered
  <2> QED
    BY <2>3, <2>4, <2>5, <2>6, <2>7, <2>8 DEF IInv
<1>4. CASE ~OverLimit(w)
  <2>1. /\ incidents' = [incidents EXCEPT ![i] = [status |-> "REMEDIATING",
                                                  attempts |-> @.attempts + 1]]
        /\ Goto(w, "start") /\ UNCHANGED pipe
    BY <1>4 DEF Load
  <2>2. /\ worker'[w].pc = "start" /\ worker'[w].inc = i
        /\ \A u \in Workers : u # w => worker'[u] = worker[u]
    BY <2>1, GotoFields DEF IInv
  <2>3. /\ incidents'[i] = [status |-> "REMEDIATING", attempts |-> incidents[i].attempts + 1]
        /\ \A j \in Incidents : j # i => incidents'[j] = incidents[j]
    BY <1>1, <2>1 DEF IInv, TypeOK
  <2>4. "start" \in Answering /\ "start" \notin AfterSink
    BY PlaceFacts DEF BeforeSink
  <2>5. TypeOK'
    <3>1. incidents'[i] \in [status : Statuses, attempts : Nat]
      BY <1>1, <1>2, <2>3 DEF Statuses
    <3>2. incidents' \in [Incidents -> [status : Statuses, attempts : Nat]]
      BY <2>1, <2>3, <3>1 DEF IInv, TypeOK
    <3> QED
      BY <1>1, <2>1, <2>4, <3>2, GotoFields, PlaceFacts DEF IInv, TypeOK
  <2>6. OneRun'
    BY <1>1, <2>1, <2>4, GotoKeepsOneRun, PlaceFacts DEF IInv
  <2>7. delivered[i] <= incidents[i].attempts
    BY <1>1 DEF IInv, DeliveriesWithinLimit
  <2>8. ASSUME NEW u \in Workers PROVE RunInv(u)'
    <3>1. CASE u = w
      BY <1>1, <1>2, <2>2, <2>3, <2>4, <2>7, <3>1 DEF RunInv
    <3>2. CASE u # w
      BY <1>1, <2>2, <3>2, PlaceFacts DEF IInv, RunInv, Running
    <3> QED
      BY <3>1, <3>2
  <2>9. RecoveredMeansDelivered'
    BY <1>1, <2>3 DEF IInv, RecoveredMeansDelivered
  <2>10. DeliveriesWithinLimit'
    <3>1. MaxRecoveryAttempts > 0 => incidents[i].attempts + 1 <= MaxRecoveryAttempts
      BY <1>2, <1>1, <1>4, HealingConfig DEF OverLimit
    <3> QED
      BY <1>1, <1>2, <2>3, <2>7, <3>1 DEF IInv, DeliveriesWithinLimit
  <2>11. IncidentsAnswered'
    BY <1>1, <2>2, <2>3, <2>4, PlaceFacts DEF IInv, IncidentsAnswered, Running
  <2>12. PipelineAnswered'
    BY <1>1, <2>1, <2>2, PlaceFacts DEF IInv, PipelineAnswered, Running, Moving
  <2> QED
    BY <2>5, <2>6, <2>8, <2>9, <2>10, <2>11, <2>12 DEF IInv
<1> QED
  BY <1>3, <1>4

(* The forced transition to REMEDIATING, and the verification after it.       *)
LEMMA StartKeeps ==
  ASSUME IInv, NEW w \in Workers, Start(w)
  PROVE  IInv'
<1>1. PICK pc \in {"refetch", "failPipe"} : Goto(w, pc)
  BY DEF Start
<1>2. /\ worker[w].pc = "start" /\ pc \in Moving /\ pc \notin AfterSink
      /\ pipe' = [state |-> "REMEDIATING", incident |-> worker[w].inc]
      /\ UNCHANGED <<cb, incidents, active, validator, operator, delivered, orphaned, faults>>
  BY PlaceFacts DEF Start, At, SetPipeline, upsert_pipeline_state, BeforeSink, AfterSink
<1>3. worker[w].inc \in Incidents /\ worker[w].pc \in BeforeSink /\ pc \in Answering
  BY <1>2, PlaceFacts DEF IInv, RunInv, BeforeSink
<1>4. TypeOK'
  BY <1>1, <1>2, <1>3, GotoFields, PlaceFacts, StateFacts DEF IInv, TypeOK
<1>5. \A i \in Incidents : delivered'[i] = IF i = worker[w].inc THEN delivered[i] + 0
                                                               ELSE delivered[i]
  BY <1>2 DEF IInv, TypeOK
<1>6. pc \notin {"recovered", "failIncident"}
  BY <1>2 DEF Moving
<1> QED
  BY <1>1, <1>2, <1>3, <1>4, <1>5, <1>6, PlaceFacts, ForwardKeeps

(* A stage whose transition is accepted goes on, one refused ends the run.    *)
LEMMA AdvanceKeeps ==
  ASSUME IInv, NEW w \in Workers, Advance(w)
  PROVE  IInv'
<1> DEFINE here == worker[w].pc
           to == Stages[here].to
<1>1. /\ here \in DOMAIN Stages /\ Running(w) /\ worker[w].inc \in Incidents
      /\ UNCHANGED <<cb, incidents, active, validator, operator, delivered, faults>>
  BY PlaceFacts DEF Advance, IInv, RunInv, Running, Inside
<1>2. CASE ~Accepts(to)
  <2>1. Raise(w) /\ UNCHANGED pipe
    BY <1>2 DEF Advance
  <2>2. TypeOK'
    BY <1>1, <2>1, GotoFields, PlaceFacts DEF IInv, TypeOK, Raise
  <2> QED
    BY <1>1, <2>1, <2>2, RaiseKeeps
<1>3. CASE Accepts(to)
  <2>1. /\ pipe' = [state |-> to, incident |-> worker[w].inc]
        /\ UNCHANGED orphaned
        /\ \E next \in Stages[here].next : Goto(w, next)
    BY <1>3 DEF Advance, SetPipeline, upsert_pipeline_state
  <2>2. PICK next \in Stages[here].next : Goto(w, next)
    BY <2>1
  <2>3. /\ here \in Moving /\ to \in PipelineState
        /\ next \in Inside \ {"load", "start", "finally", "failIncident"}
        /\ next \in BeforeSink => here \in BeforeSink
        /\ next \in AfterSink => here \in AfterSink
        /\ next = "recovered" => to \notin Halfway
    BY <1>1, StageFacts
  <2>4. TypeOK'
    BY <1>1, <2>1, <2>2, <2>3, GotoFields DEF IInv, TypeOK
  <2>5. \A i \in Incidents : delivered'[i] = IF i = worker[w].inc THEN delivered[i] + 0
                                                                 ELSE delivered[i]
    BY <1>1 DEF IInv, TypeOK
  <2>6. next \in Answering /\ (next \in Moving \/ next = "recovered")
    BY <2>3 DEF Answering, Moving
  <2> HIDE DEF here, to
  <2>7. here \in Answering /\ (next \in Moving \/ pipe'.state \notin Halfway)
    BY <2>1, <2>3, <2>6, PlaceFacts
  <2>8. next \in {"recovered", "failIncident"} => pipe'.state \notin Halfway
    BY <2>1, <2>3
  <2>9. pipe'.incident = worker[w].inc
    BY <2>1
  <2> QED
    BY <1>1, <2>1, <2>2, <2>3, <2>4, <2>5, <2>6, <2>7, <2>8, <2>9, ForwardKeeps DEF here
<1> QED
  BY <1>2, <1>3

(* The run reads the breaker, moves it to HALF_OPEN and records the verdict,  *)
(* or dies because another thread has moved the breaker meanwhile.            *)
LEMMA BreakerStepKeeps ==
  ASSUME IInv, NEW w \in Workers, ReadBreaker(w) \/ HalfOpen(w) \/ Record(w)
  PROVE  IInv'
<1>1. /\ worker[w].pc \in {"probe", "halfOpen", "record"}
      /\ cb' \in {"CLOSED", "OPEN", "HALF_OPEN"}
      /\ UNCHANGED <<pipe, incidents, active, validator, operator, delivered, faults>>
      /\ \/ Raise(w)
         \/ UNCHANGED orphaned /\ \E pc \in {"halfOpen", "record", "reingest", "failPipe"} : Goto(w, pc)
  BY DEF ReadBreaker, HalfOpen, Record, At, IInv, TypeOK
<1>2. /\ worker[w].pc \in BeforeSink /\ worker[w].pc \in Answering /\ Running(w)
      /\ worker[w].inc \in Incidents
  BY <1>1, PlaceFacts DEF IInv, RunInv, BeforeSink, Running
<1>3. CASE Raise(w)
  <2>1. TypeOK'
    BY <1>1, <1>2, <1>3, GotoFields, PlaceFacts DEF IInv, TypeOK, Raise
  <2> QED
    BY <1>1, <1>2, <1>3, <2>1, RaiseKeeps
<1>4. ASSUME NEW pc \in {"halfOpen", "record", "reingest", "failPipe"}, Goto(w, pc),
             UNCHANGED orphaned
      PROVE  IInv'
  <2>1. pc \in Moving /\ pc \in Answering /\ pc \notin AfterSink
        /\ pc \notin {"recovered", "failIncident"}
    BY PlaceFacts DEF Moving, AfterSink, BeforeSink
  <2>2. TypeOK'
    BY <1>1, <1>4, <2>1, GotoFields, PlaceFacts DEF IInv, TypeOK
  <2>3. \A i \in Incidents : delivered'[i] = IF i = worker[w].inc THEN delivered[i] + 0
                                                                 ELSE delivered[i]
    BY <1>1 DEF IInv, TypeOK
  <2> QED
    BY <1>1, <1>2, <1>4, <2>1, <2>2, <2>3, ForwardKeeps
<1> QED
  BY <1>1, <1>3, <1>4

(* write_events: the run goes on only if it returned True, and pays for what  *)
(* was appended with the attempt it counted.                                  *)
LEMMA WriteEventsKeeps ==
  ASSUME IInv, NEW w \in Workers, WriteEvents(w)
  PROVE  IInv'
<1> DEFINE i == worker[w].inc
<1>1. /\ worker[w].pc = "sink" /\ worker[w].pc \in BeforeSink /\ worker[w].pc \in Answering
      /\ UNCHANGED <<cb, pipe, incidents, active, validator, operator, orphaned, faults>>
  BY PlaceFacts DEF WriteEvents, At, BeforeSink
<1>2. i \in Incidents /\ \A j \in Incidents : delivered[j] \in Nat
  BY <1>1 DEF IInv, RunInv, TypeOK
<1>3. PICK pc \in {"resuming", "failPipe"}, n \in {0, 1} :
        /\ Goto(w, pc) /\ delivered' = [delivered EXCEPT ![i] = @ + n]
        /\ pc = "resuming" => n = 1
  BY DEF WriteEvents
<1>4. /\ \A j \in Incidents : delivered'[j] = IF j = i THEN delivered[j] + n ELSE delivered[j]
      /\ delivered' \in [Incidents -> Nat]
  BY <1>2, <1>3 DEF IInv, TypeOK
<1>5. /\ pc \in Moving /\ pc \in Answering /\ pc \notin BeforeSink
      /\ pc \in AfterSink => n = 1
      /\ pc \notin {"recovered", "failIncident"}
  BY <1>3, PlaceFacts DEF BeforeSink
<1>6. TypeOK'
  BY <1>1, <1>3, <1>4, <1>5, GotoFields, PlaceFacts DEF IInv, TypeOK
<1> QED
  BY <1>1, <1>3, <1>4, <1>5, <1>6, ForwardKeeps

(* record_failure marks the pipeline before the incident.                     *)
LEMMA FailPipelineKeeps ==
  ASSUME IInv, NEW w \in Workers, FailPipeline(w)
  PROVE  IInv'
<1>1. /\ worker[w].pc = "failPipe" /\ Goto(w, "failIncident")
      /\ pipe' = [state |-> "RECOVERY_FAILED", incident |-> worker[w].inc]
      /\ UNCHANGED <<cb, incidents, active, validator, operator, delivered, orphaned, faults>>
  BY DEF FailPipeline, At, SetPipeline, upsert_pipeline_state
<1>2. /\ "failIncident" \in Answering /\ "failIncident" \notin BeforeSink \cup AfterSink
      /\ worker[w].pc \in Answering
  BY <1>1, PlaceFacts
<1>3. pipe'.state \notin Halfway /\ worker[w].inc \in Incidents
  BY <1>1, StateFacts DEF IInv, RunInv
<1>4. TypeOK'
  BY <1>1, <1>2, <1>3, GotoFields, PlaceFacts, StateFacts DEF IInv, TypeOK
<1>5. \A i \in Incidents : delivered'[i] = IF i = worker[w].inc THEN delivered[i] + 0
                                                               ELSE delivered[i]
  BY <1>1 DEF IInv, TypeOK
<1>6. pipe'.incident = worker[w].inc
  BY <1>1
<1> QED
  BY <1>1, <1>2, <1>3, <1>4, <1>5, <1>6, ForwardKeeps

(* The last write to the incident: it is recovered only past write_events,    *)
(* and either way the pipeline has left the states of the remediation.        *)
LEMMA SettleKeeps ==
  ASSUME IInv, NEW w \in Workers, Settle(w)
  PROVE  IInv'
<1> DEFINE i == worker[w].inc
<1>1. PICK s \in {"RECOVERED", "RECOVERY_FAILED"} :
        /\ incidents' = [incidents EXCEPT ![i].status = s]
        /\ s = "RECOVERED" => worker[w].pc = "recovered"
  BY DEF Settle, SetStatus, At
<1>2. /\ worker[w].pc \in {"recovered", "failIncident"} /\ Goto(w, "finally")
      /\ orphaned' = orphaned \ {i}
      /\ UNCHANGED <<cb, pipe, active, validator, operator, delivered, faults>>
  BY DEF Settle, At
<1>3. Running(w) /\ i \in Incidents /\ pipe.state \notin Halfway
  BY <1>2, PlaceFacts DEF IInv, RunInv, Running
<1>4. /\ worker'[w].pc = "finally" /\ worker'[w].inc = i
      /\ \A u \in Workers : u # w => worker'[u] = worker[u] /\ ~Running(u)
  BY <1>2, <1>3, GotoFields DEF IInv, OneRun
<1>5. \A j \in Incidents : /\ incidents'[j].attempts = incidents[j].attempts
                           /\ incidents'[j].status = IF j = i THEN s ELSE incidents[j].status
  BY <1>1 DEF IInv, TypeOK
<1>6. TypeOK'
  <2>1. incidents' \in [Incidents -> [status : Statuses, attempts : Nat]]
    <3> DEFINE row == [incidents[i] EXCEPT !.status = s]
    <3>1. incidents \in [Incidents -> [status : Statuses, attempts : Nat]]
      BY DEF IInv, TypeOK
    <3>2. s \in Statuses
      BY DEF Statuses
    <3>3. row \in [status : Statuses, attempts : Nat]
      BY <1>3, <3>1, <3>2
    <3>4. incidents' = [incidents EXCEPT ![i] = row]
      BY <1>1
    <3> HIDE DEF row
    <3> QED
      BY <3>1, <3>3, <3>4
  <2> QED
    BY <1>2, <2>1, GotoFields, PlaceFacts DEF IInv, TypeOK
<1>7. OneRun'
  BY <1>2, <1>3, GotoKeepsOneRun, PlaceFacts DEF IInv
<1>8. ASSUME NEW u \in Workers PROVE RunInv(u)'
  BY <1>2, <1>3, <1>4, <1>5, PlaceFacts DEF IInv, RunInv, Running, Answering
<1>9. RecoveredMeansDelivered'
  <2>1. s = "RECOVERED" => delivered[i] > 0
    BY <1>1 DEF IInv, RunInv, AfterSink
  <2> QED
    BY <1>2, <1>5, <2>1 DEF IInv, RecoveredMeansDelivered
<1>10. DeliveriesWithinLimit'
  BY <1>2, <1>5 DEF IInv, DeliveriesWithinLimit
<1>11. IncidentsAnswered'
  BY <1>2, <1>4, <1>5, PlaceFacts DEF IInv, IncidentsAnswered, Running
<1>12. PipelineAnswered'
  BY <1>2, <1>3 DEF PipelineAnswered
<1> QED
  BY <1>6, <1>7, <1>8, <1>9, <1>10, <1>11, <1>12 DEF IInv

(* The finally block lets the next run in.                                    *)
LEMMA FinallyKeeps ==
  ASSUME IInv, NEW w \in Workers, Finally(w)
  PROVE  IInv'
<1>1. /\ worker[w].pc = "finally" /\ worker' = [worker EXCEPT ![w] = NoWorker]
      /\ active' = FALSE
      /\ UNCHANGED <<cb, pipe, incidents, validator, operator, delivered, orphaned, faults>>
  BY DEF Finally, At
<1>2. \A u \in Workers : u # w => ~Running(u) /\ worker'[u] = worker[u]
  BY <1>1, PlaceFacts DEF IInv, TypeOK, OneRun, Running
<1>3. worker'[w] = NoWorker
  BY <1>1 DEF IInv, TypeOK
<1>4. TypeOK'
  BY <1>1 DEF IInv, TypeOK, NoWorker
<1>5. \A u \in Workers : ~Running(u)'
  BY <1>2, <1>3, PlaceFacts DEF Running, NoWorker
<1>6. ASSUME NEW u \in Workers PROVE RunInv(u)'
  BY <1>1, <1>2, <1>3, PlaceFacts DEF IInv, RunInv, NoWorker
<1>7. OneRun' /\ RecoveredMeansDelivered' /\ DeliveriesWithinLimit'
  BY <1>1, <1>5 DEF IInv, OneRun, RecoveredMeansDelivered, DeliveriesWithinLimit
<1>8. IncidentsAnswered' /\ PipelineAnswered'
  BY <1>1, <1>2, PlaceFacts DEF IInv, IncidentsAnswered, PipelineAnswered, Answering, Moving
<1> QED
  BY <1>4, <1>6, <1>7, <1>8 DEF IInv

(* A database error in a run, before or after the row of a transition.        *)
LEMMA FaultKeeps ==
  ASSUME IInv, NEW w \in Workers, StorageError(w) \/ HistoryError(w)
  PROVE  IInv'
<1>1. /\ Raise(w) /\ Running(w) /\ worker[w].inc \in Incidents
      /\ UNCHANGED <<cb, incidents, active, validator, operator, delivered>>
      /\ faults' = faults + 1
  <2>1. DOMAIN Transitions \subseteq Inside
    BY DEF Transitions, Stages, Inside
  <2> QED
    BY <2>1, PlaceFacts DEF StorageError, HistoryError, IInv, RunInv, Running
<1>2. \/ pipe' = pipe
      \/ /\ pipe'.incident = worker[w].inc
         /\ pipe' \in [state : PipelineState, incident : Incidents \cup {NoIncident}]
  <2>1. \A s \in DOMAIN Transitions : Transitions[s] \in PipelineState
    BY DEF Transitions, Stages, PipelineState, VALID_TRANSITIONS
  <2> QED
    BY <1>1, <2>1 DEF StorageError, HistoryError, SetPipeline, upsert_pipeline_state
<1>3. TypeOK'
  BY <1>1, <1>2, GotoFields, PlaceFacts DEF IInv, TypeOK, Raise
<1> QED
  BY <1>1, <1>2, <1>3, RaiseKeeps

(* validate_event: it reads and moves the breaker and marks the pipeline.     *)
LEMMA ValidatorKeeps ==
  ASSUME IInv, \/ ReadState
               \/ \E high, enough \in BOOLEAN : Evaluate(high, enough)
               \/ AutoClose \/ MarkCircuitOpen \/ ValidatorError
  PROVE  IInv'
<1> DEFINE Threads == [pc : {"idle", "evaluate", "close", "incident", "circuitOpen"},
                      old : {"CLOSED", "OPEN", "HALF_OPEN"},
                      inc : Incidents \cup {NoIncident}]
<1>1. UNCHANGED <<incidents, active, worker, operator, delivered, orphaned>> /\ faults' \in Nat
  BY DEF IInv, TypeOK, ReadState, Evaluate, AutoClose, MarkCircuitOpen, ValidatorError, Validate
<1>2. /\ cb' \in {"CLOSED", "OPEN", "HALF_OPEN"} /\ validator' \in Threads
      /\ \/ pipe' = pipe
         \/ pipe' = [state |-> "CIRCUIT_OPEN", incident |-> validator.inc]
  <2>1. cb \in {"CLOSED", "OPEN", "HALF_OPEN"} /\ validator \in Threads
    BY DEF IInv, TypeOK
  <2>2. CASE ReadState
    BY <2>1, <2>2 DEF ReadState, Validate
  <2>3. ASSUME NEW high \in BOOLEAN, NEW enough \in BOOLEAN, Evaluate(high, enough)
        PROVE  /\ cb' \in {"CLOSED", "OPEN", "HALF_OPEN"} /\ validator' \in Threads
               /\ pipe' = pipe
    BY <2>1, <2>3 DEF Evaluate, Validate
  <2>4. CASE AutoClose \/ MarkCircuitOpen \/ ValidatorError
    BY <2>1, <2>4 DEF AutoClose, MarkCircuitOpen, ValidatorError, Validate,
                      SetPipeline, upsert_pipeline_state
  <2> QED
    BY <2>2, <2>3, <2>4
<1>3. validator.inc \in Incidents \cup {NoIncident}
  BY DEF IInv, TypeOK
<1>4. TypeOK'
  BY <1>1, <1>2, <1>3, StateFacts DEF IInv, TypeOK
<1>5. pipe' = pipe \/ pipe'.state \notin Halfway
  BY <1>2, StateFacts
<1> QED
  BY <1>1, <1>4, <1>5, QuietKeeps

(* The validator opens or reuses an incident and starts its remediation.      *)
LEMMA OpenIncidentKeeps ==
  ASSUME IInv, OpenIncident
  PROVE  IInv'
<1>1. PICK i \in Incidents, w \in Workers :
        /\ incidents' = incidents \/ incidents' = [incidents EXCEPT ![i].status = "OPEN"]
        /\ Spawn(w, i) /\ Validate([validator EXCEPT !.pc = "circuitOpen", !.inc = i])
  BY DEF OpenIncident, GetOrCreateIncident
<1>2. UNCHANGED <<cb, pipe, active, operator, delivered, orphaned, faults>>
  BY DEF OpenIncident, Validate
<1>3. TypeOK'
  <2>1. incidents' \in [Incidents -> [status : Statuses, attempts : Nat]]
    BY <1>1 DEF IInv, TypeOK, Statuses
  <2>2. /\ worker' \in [Workers -> [pc : Inside \cup {"idle", "enter"},
                                    inc : Incidents \cup {NoIncident}]]
        /\ validator' \in [pc : {"idle", "evaluate", "close", "incident", "circuitOpen"},
                           old : {"CLOSED", "OPEN", "HALF_OPEN"},
                           inc : Incidents \cup {NoIncident}]
    BY <1>1 DEF IInv, TypeOK, Spawn, Validate
  <2> QED
    BY <1>2, <2>1, <2>2 DEF IInv, TypeOK
<1> QED
  BY <1>1, <1>2, <1>3, SpawnKeeps

(* An operator recovers an incident: a run of its own, outside the lock.      *)
LEMMA RecoverKeeps ==
  ASSUME IInv, NEW asked \in Incidents \cup {NoIncident}, Recover(asked)
  PROVE  IInv'
<1>1. PICK i \in Incidents, w \in Workers :
        /\ incidents' = incidents \/ incidents' = [incidents EXCEPT ![i].status = "OPEN"]
        /\ Spawn(w, i)
  BY DEF Recover, GetOrCreateIncident
<1>2. UNCHANGED <<cb, pipe, active, validator, operator, delivered, orphaned, faults>>
  BY DEF Recover
<1>3. TypeOK'
  BY <1>1, <1>2 DEF IInv, TypeOK, Spawn, Statuses
<1> QED
  BY <1>1, <1>2, <1>3, SpawnKeeps

(* pause and resume, and the clock of the breaker.                            *)
LEMMA OperatorKeeps ==
  ASSUME IInv, Pause \/ Resume \/ MarkRunning \/ TimeoutElapsed
  PROVE  IInv'
<1>1. /\ UNCHANGED <<incidents, active, worker, validator, delivered, orphaned, faults>>
      /\ cb' \in {"CLOSED", "OPEN", "HALF_OPEN"} /\ operator' \in {"idle", "resuming"}
  BY DEF IInv, TypeOK, Pause, Resume, MarkRunning, TimeoutElapsed, Operate
<1>2. /\ pipe' \in [state : PipelineState, incident : Incidents \cup {NoIncident}]
      /\ pipe' = pipe \/ pipe'.state \notin Halfway
  BY StateFacts DEF IInv, TypeOK, Pause, Resume, MarkRunning, TimeoutElapsed,
                    SetPipeline, upsert_pipeline_state
<1>3. TypeOK'
  BY <1>1, <1>2 DEF IInv, TypeOK
<1> QED
  BY <1>1, <1>2, <1>3, QuietKeeps

(* A restart takes every run with it: what they answered for is orphaned.     *)
LEMMA CrashKeeps ==
  ASSUME IInv, Crash
  PROVE  IInv'
<1>1. /\ \A w \in Workers : worker'[w] = NoWorker
      /\ \A w \in Workers : Running(w) => worker[w].inc \in orphaned'
      /\ orphaned \subseteq orphaned' /\ active' = FALSE
      /\ UNCHANGED <<pipe, incidents, delivered>>
  BY DEF Crash, Running
<1>2. TypeOK'
  <2>1. orphaned' \subseteq Incidents
    BY PlaceFacts DEF IInv, TypeOK, RunInv, Crash
  <2>2. worker' \in [Workers -> [pc : Inside \cup {"idle", "enter"},
                                 inc : Incidents \cup {NoIncident}]]
    BY DEF Crash, NoWorker
  <2>3. validator' \in [pc : {"idle", "evaluate", "close", "incident", "circuitOpen"},
                        old : {"CLOSED", "OPEN", "HALF_OPEN"},
                        inc : Incidents \cup {NoIncident}]
    BY DEF Crash
  <2>4. UNCHANGED <<cb, pipe, incidents, delivered>> /\ operator' \in {"idle", "resuming"}
    BY DEF Crash
  <2>5. active' \in BOOLEAN
    BY DEF Crash
  <2>6. faults' \in Nat
    <3>1. faults \in Nat
      BY DEF IInv, TypeOK
    <3>2. faults' = faults + 1
      BY DEF Crash
    <3> QED
      BY <3>1, <3>2
  <2> QED
    BY <2>1, <2>2, <2>3, <2>4, <2>5, <2>6 DEF IInv, TypeOK
<1>3. \A w \in Workers : ~Running(w)' /\ RunInv(w)'
  BY <1>1, PlaceFacts DEF Running, RunInv, NoWorker
<1>4. OneRun' /\ RecoveredMeansDelivered' /\ DeliveriesWithinLimit'
  BY <1>1, <1>3 DEF IInv, OneRun, RecoveredMeansDelivered, DeliveriesWithinLimit
<1>5. IncidentsAnswered' /\ PipelineAnswered'
  BY <1>1, PlaceFacts DEF IInv, IncidentsAnswered, PipelineAnswered, Running
<1> QED
  BY <1>2, <1>3, <1>4, <1>5 DEF IInv

(* Every step of every thread keeps the inductive invariant.                  *)
LEMMA StepInv == ASSUME IInv, [Next]_vars PROVE IInv'
<1>1. CASE UNCHANGED vars
  BY <1>1, QuietKeeps DEF vars, IInv, TypeOK
<1>2. ASSUME NEW w \in Workers, Run(w) PROVE IInv'
  BY <1>2, EnterKeeps, LoadKeeps, StartKeeps, AdvanceKeeps, BreakerStepKeeps, WriteEventsKeeps,
     FailPipelineKeeps, SettleKeeps, FinallyKeeps DEF Run
<1>3. ASSUME NEW w \in Workers, StorageError(w) \/ HistoryError(w) PROVE IInv'
  BY <1>3, FaultKeeps
<1>4. ASSUME \/ ReadState
             \/ \E high, enough \in BOOLEAN : Evaluate(high, enough)
             \/ AutoClose \/ MarkCircuitOpen \/ ValidatorError
      PROVE  IInv'
  BY <1>4, ValidatorKeeps
<1>5. CASE OpenIncident
  BY <1>5, OpenIncidentKeeps
<1>6. CASE Pause \/ Resume \/ MarkRunning \/ TimeoutElapsed
  BY <1>6, OperatorKeeps
<1>7. ASSUME NEW asked \in Incidents \cup {NoIncident}, Recover(asked) PROVE IInv'
  BY <1>7, RecoverKeeps
<1>8. CASE Crash
  BY <1>8, CrashKeeps
<1> QED
  BY <1>1, <1>2, <1>3, <1>4, <1>5, <1>6, <1>7, <1>8 DEF Next
-------------------------------------------------------------------------------

(* The inductive invariant holds of every reachable state of the loop.        *)
THEOREM HealingInvariant == Spec => []IInv
<1>1. Init => IInv
  BY InitInv
<1>2. IInv /\ [Next]_vars => IInv'
  BY StepInv
<1> QED
  BY <1>1, <1>2, PTL DEF Spec

(* At most one run of execute_remediation is between its lock and its finally *)
(* block, and the flag of the controller is set exactly while one is.         *)
THEOREM HealingSingleRemediation == Spec => []SingleRemediation
<1>1. IInv => SingleRemediation
  <2> SUFFICES ASSUME IInv PROVE SingleRemediation
    OBVIOUS
  <2> DEFINE runs == {w \in Workers : Running(w)}
  <2>1. \A v, w \in runs : v = w
    BY DEF IInv, OneRun
  <2>2. Cardinality(runs) <= 1
    <3>1. CASE runs = {}
      BY <3>1, FS_EmptySet
    <3>2. CASE runs # {}
      <4>1. PICK w : runs = {w}
        BY <2>1, <3>2
      <4>2. Cardinality({w}) = 1
        BY FS_Singleton
      <4> QED
        BY <4>1, <4>2
    <3> QED
      BY <3>1, <3>2
  <2> QED
    BY <2>2 DEF IInv, OneRun, SingleRemediation
<1> QED
  BY <1>1, HealingInvariant, PTL

(* An incident is RECOVERED only when write_events appended its events.       *)
THEOREM HealingRecoveredMeansDelivered == Spec => []RecoveredMeansDelivered
<1>1. IInv => RecoveredMeansDelivered
  BY DEF IInv
<1> QED
  BY <1>1, HealingInvariant, PTL

(* The attempts on an incident's row pay for its deliveries and stay within   *)
(* the controller's limit, over all runs, errors and restarts.                *)
THEOREM HealingDeliveriesWithinLimit == Spec => []DeliveriesWithinLimit
<1>1. IInv => DeliveriesWithinLimit
  BY DEF IInv
<1> QED
  BY <1>1, HealingInvariant, PTL

(* A run that ends by itself leaves neither its incident nor the pipeline     *)
(* half way through a remediation.                                            *)
THEOREM HealingNothingStranded == Spec => []NothingStranded
<1>1. IInv => NothingStranded
  <2> SUFFICES ASSUME IInv, ~active PROVE NothingStranded
    BY DEF NothingStranded
  <2>1. \A w \in Workers : worker[w].pc \notin Answering /\ worker[w].pc \notin Moving
    BY PlaceFacts DEF IInv, OneRun, Running
  <2> QED
    BY <2>1 DEF IInv, IncidentsAnswered, PipelineAnswered, NothingStranded, Halfway
<1> QED
  BY <1>1, HealingInvariant, PTL

(* The loop implements the contract of the breaker: each step of the          *)
(* validator, the controller and the clock is one of its transitions, or      *)
(* leaves the breaker as it is.                                               *)
THEOREM HealingKeepsBreakerContract == Spec => KeepsBreakerContract
<1>1. Init => Breaker!Init
  BY DEF Init, Breaker!Init
<1>2. ASSUME TypeOK, [Next]_vars PROVE [Breaker!Next]_Breaker!vars
  <2>1. cb' = cb \/ Breaker!Trip \/ Breaker!CoolDown \/ Breaker!Verdict
    <3>1. CASE UNCHANGED vars
      BY <3>1 DEF vars
    <3>2. ASSUME NEW w \in Workers, Run(w) \/ StorageError(w) \/ HistoryError(w)
          PROVE  cb' = cb \/ Breaker!CoolDown \/ Breaker!Verdict
      BY <1>2, <3>2 DEF TypeOK, Run, Enter, Load, Start, Advance, ReadBreaker, HalfOpen, Record,
         WriteEvents, FailPipeline, Settle, Finally, StorageError, HistoryError, At,
         Breaker!CoolDown, Breaker!Verdict
    <3>3. CASE ReadState \/ AutoClose \/ OpenIncident \/ MarkCircuitOpen \/ ValidatorError
      BY <3>3 DEF ReadState, AutoClose, OpenIncident, MarkCircuitOpen, ValidatorError,
         Breaker!Verdict
    <3>4. ASSUME NEW high \in BOOLEAN, NEW enough \in BOOLEAN, Evaluate(high, enough)
          PROVE  cb' = cb \/ Breaker!Trip
      BY <3>4 DEF Evaluate, Breaker!Trip
    <3>5. CASE Pause \/ Resume \/ MarkRunning \/ TimeoutElapsed \/ Crash
      BY <3>5 DEF Pause, Resume, MarkRunning, Operate, TimeoutElapsed, Crash, Breaker!CoolDown
    <3>6. ASSUME NEW asked \in Incidents \cup {NoIncident}, Recover(asked) PROVE cb' = cb
      BY <3>6 DEF Recover
    <3> QED
      BY <1>2, <3>1, <3>2, <3>3, <3>4, <3>5, <3>6 DEF Next
  <2> QED
    BY <2>1 DEF Breaker!Next, Breaker!vars
<1>3. IInv => TypeOK
  BY DEF IInv
<1> QED
  BY <1>1, <1>2, <1>3, HealingInvariant, PTL DEF Spec, KeepsBreakerContract, Breaker!Spec
===============================================================================
