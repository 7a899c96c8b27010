------------------------------ MODULE IncidentStore ------------------------------
(***************************************************************************)
(* The table pipeline_incidents and everybody who writes it: the incident  *)
(* service and its alert, the REST calls that acknowledge and resolve, the *)
(* remediation controller that reports an incident and the one run of it   *)
(* that a process allows. Nobody writes a column: update_incident reads    *)
(* the row, merges and writes the whole of it back, and a remediation      *)
(* writes the copy that it loaded when it began. A step is one statement   *)
(* of the database.                                                        *)
(***************************************************************************)
EXTENDS Naturals, FiniteSets, FiniteSetsExt

CONSTANTS Threads,      \* the threads that call the store
          Home,         \* the process of each
          Does,         \* what each is asked to do
          MaxAttempts,  \* max_recovery_attempts; 0: no limit
          MaxIncidents, MaxCalls, MaxFaults   \* bounds

Ops == {"raise", "report", "acknowledge", "resolve", "remediate"}

ASSUME StoreConfig ==
  /\ Does \in [Threads -> SUBSET Ops]
  /\ DOMAIN Home = Threads
  /\ {MaxAttempts, MaxIncidents, MaxCalls, MaxFaults} \subseteq Nat

VARIABLES rows,     \* the table, by incident number
          attempts, \* the table remediation_attempts, but for its rows ALERT_SENT
          call,     \* what each thread is at
          calls, faults,   \* how many of each so far
          runs,     \* history: remediations started, by incident
          raced,    \* history: incidents written behind the back of somebody
          stranded, \* history: incidents whose remediation ended without a word
          split     \* history: creations overlapped without a common lock, or
                    \* an incident became active again

vars == <<rows, attempts, call, calls, faults, runs, raced, stranded, split>>
history == <<runs, raced, stranded, split>>

Ids == 1..MaxIncidents
Statuses == {"OPEN", "ACKNOWLEDGED", "REMEDIATING", "RECOVERY_FAILED", "RECOVERED", "RESOLVED"}
Active == {"OPEN", "ACKNOWLEDGED", "REMEDIATING", "RECOVERY_FAILED"}

NoRow == [status |-> "none", attempt |-> 0, resolved |-> FALSE]
Opened == [status |-> "OPEN", attempt |-> 0, resolved |-> FALSE]
Idle == [op |-> "none", pc |-> "idle", id |-> 0, row |-> NoRow]

Init ==
  /\ rows = [id \in Ids |-> NoRow]
  /\ attempts = {}
  /\ call = [t \in Threads |-> Idle]
  /\ calls = 0 /\ faults = 0
  /\ runs = [id \in Ids |-> 0]
  /\ raced = {} /\ stranded = {} /\ split = FALSE

Known == {id \in Ids : rows[id] # NoRow}
ActiveIds == {id \in Ids : rows[id].status \in Active}

Goto(t, r) == call' = [call EXCEPT ![t] = r]
Done(t) == Goto(t, Idle)

-------------------------------------------------------------------------------
(* PostgresStorage *)

(* A thread that holds a copy, a number or a decision it will write from.    *)
Pending(r) == r.pc \in {"create", "merge", "write", "start", "finish", "recover"}

(* Deviation: the statement leaves recovery_attempt as it is in the row.      *)
UpsertForgetful(old, new) == [new EXCEPT !.attempt = old.attempt]

(* INSERT ... ON CONFLICT DO UPDATE: every column modelled here is the new one. *)
Upsert(old, new) == new

(* create_incident, and what a reader of the history would say of it.         *)
CreateIncident(t, id, new) ==
  /\ rows' = [rows EXCEPT ![id] = Upsert(@, new)]
  /\ raced' = raced \cup {i \in {id} : \E u \in Threads \ {t} :
                                          call[u].id = id /\ Pending(call[u])}

Reopens(id, new) == rows[id].status \in Statuses \ Active /\ new.status \in Active

-------------------------------------------------------------------------------
(* The threads *)

(* Deviation: the lock is given back once the number is known.               *)
HoldsLockUntilNumbered(r) == r.op = "raise" /\ r.pc \in {"find", "generate"}

(* _INCIDENT_LOCK, which only create_or_update_incident takes, and until the *)
(* row of the incident is written.                                           *)
HoldsLock(r) == r.op = "raise"

(* _active_remediations                                                      *)
Remediates(r) == r.op = "remediate"

Siblings(t) == {u \in Threads \ {t} : Home[u] = Home[t]}

Begin(t) ==
  /\ call[t].pc = "idle"
  /\ calls < MaxCalls /\ calls' = calls + 1
  /\ UNCHANGED <<rows, attempts, faults, history>>

BeginRaise(t) ==
  /\ "raise" \in Does[t]
  /\ \A u \in Siblings(t) : ~HoldsLock(call[u])
  /\ Begin(t)
  /\ Goto(t, [Idle EXCEPT !.op = "raise", !.pc = "find"])

BeginReport(t) ==
  /\ "report" \in Does[t]
  /\ Begin(t)
  /\ Goto(t, [Idle EXCEPT !.op = "report", !.pc = "find"])

(* acknowledge_incident and resolve_incident; a number nobody knows is a 404. *)
BeginAction(t) ==
  \E op \in {"acknowledge", "resolve"} \cap Does[t], id \in Known :
    /\ Begin(t)
    /\ Goto(t, [Idle EXCEPT !.op = op, !.pc = "check", !.id = id])

(* A second run in the process is skipped.                                   *)
BeginRemediation(t) ==
  /\ "remediate" \in Does[t]
  /\ \A u \in Siblings(t) : ~Remediates(call[u])
  /\ Begin(t)
  /\ \E id \in Known : Goto(t, [Idle EXCEPT !.op = "remediate", !.pc = "load", !.id = id])

At(t, pc) == call[t].pc = pc /\ UNCHANGED <<calls, faults>>

(* find_active_incident: the newest of them by the clock of its creator. The *)
(* service updates the figures of the one it finds, the controller takes it. *)
Find(t) ==
  /\ At(t, "find")
  /\ \/ /\ ActiveIds = {}
        /\ Goto(t, [call[t] EXCEPT !.pc = "generate"])
     \/ \E id \in ActiveIds :
          IF call[t].op = "raise" THEN Goto(t, [call[t] EXCEPT !.pc = "merge", !.id = id])
          ELSE Done(t)
  /\ UNCHANGED <<rows, attempts, history>>

(* generate_incident_id: one more than the last number of the day.           *)
Generate(t) ==
  /\ At(t, "generate")
  /\ Max({0} \cup Known) < MaxIncidents
  /\ Goto(t, [call[t] EXCEPT !.pc = "create", !.id = Max({0} \cup Known) + 1])
  /\ UNCHANGED <<rows, attempts, history>>

Creating(r) == r.op \in {"raise", "report"} /\ r.pc \in {"generate", "create"}

(* The service gives the lock back, alerts and writes how that went.         *)
Create(t) ==
  /\ At(t, "create")
  /\ CreateIncident(t, call[t].id, Opened)
  /\ split' = (split \/ \E u \in Threads \ {t} :
                  /\ Creating(call[u])
                  /\ {call[t].op, call[u].op} # {"raise"} \/ Home[t] # Home[u])
  /\ IF call[t].op = "raise" THEN Goto(t, [call[t] EXCEPT !.op = "alert", !.pc = "merge"])
     ELSE Done(t)
  /\ UNCHANGED <<attempts, runs, stranded>>

(* What acknowledge_incident and resolve_incident find done, or refuse.      *)
Settled(op, status) ==
  \/ status = "RESOLVED"
  \/ op = "acknowledge" /\ status = "ACKNOWLEDGED"

Check(t) ==
  /\ At(t, "check")
  /\ IF Settled(call[t].op, rows[call[t].id].status) THEN Done(t)
     ELSE Goto(t, [call[t] EXCEPT !.pc = "merge"])
  /\ UNCHANGED <<rows, attempts, history>>

(* update_incident reads the row once more ...                               *)
Merge(t) ==
  /\ At(t, "merge")
  /\ Goto(t, [call[t] EXCEPT !.pc = "write", !.row = rows[call[t].id]])
  /\ UNCHANGED <<rows, attempts, history>>

Updated(op, row) ==
  CASE op = "acknowledge" -> [row EXCEPT !.status = "ACKNOWLEDGED"]
    [] op = "resolve" -> [row EXCEPT !.status = "RESOLVED", !.resolved = TRUE]
    [] OTHER -> row   \* figures and slack_* only

(* ... and writes all of it, merged with the updates.                        *)
Write(t) ==
  LET id == call[t].id
      new == Updated(call[t].op, call[t].row)
  IN  /\ At(t, "write")
      /\ CreateIncident(t, id, new)
      /\ split' = (split \/ Reopens(id, new))
      /\ Done(t)
      /\ UNCHANGED <<attempts, runs, stranded>>

-------------------------------------------------------------------------------
(* execute_remediation, as far as the tables see it *)

Exhausted(attempt) == MaxAttempts > 0 /\ attempt > MaxAttempts

AfterLoad(r) == IF Exhausted(r.row.attempt + 1) THEN Idle ELSE [r EXCEPT !.pc = "start"]

Load(t) ==
  /\ At(t, "load")
  /\ Goto(t, AfterLoad([call[t] EXCEPT !.row = rows[call[t].id]]))
  /\ UNCHANGED <<rows, attempts, history>>

Start(t) ==
  LET id == call[t].id
      new == [call[t].row EXCEPT !.status = "REMEDIATING", !.attempt = @ + 1]
  IN  /\ At(t, "start")
      /\ CreateIncident(t, id, new)
      /\ runs' = [runs EXCEPT ![id] = @ + 1]
      /\ split' = (split \/ Reopens(id, new))
      /\ stranded' = stranded \ {id}
      /\ Goto(t, [call[t] EXCEPT !.pc = "finish", !.row = new])
      /\ UNCHANGED attempts

(* record_remediation_attempt                                                *)
Record(t, stage) ==
  attempts' = attempts \cup
    {[incident |-> call[t].id, number |-> call[t].row.attempt, stage |-> stage]}

(* Deviation: the stage is not recorded, only the outcome will be.           *)
ReingestUnrecorded(t) ==
  /\ At(t, "finish")
  /\ Goto(t, [call[t] EXCEPT !.pc = "recover"])
  /\ UNCHANGED <<rows, attempts, history>>

(* The events are in the lakehouse: the attempt is recorded before anything  *)
(* else.                                                                     *)
Reingest(t) ==
  /\ At(t, "finish")
  /\ Record(t, "RE_INGESTING")
  /\ Goto(t, [call[t] EXCEPT !.pc = "recover"])
  /\ UNCHANGED <<rows, history>>

(* Deviation: a run that fails leaves the incident to the attempts table.    *)
OutcomesUnwritten(r) ==
  IF r.pc = "recover" THEN [r.row EXCEPT !.status = "RECOVERED", !.resolved = TRUE] ELSE r.row

Outcomes(r) ==
  IF r.pc = "recover" THEN [r.row EXCEPT !.status = "RECOVERED", !.resolved = TRUE]
  ELSE [r.row EXCEPT !.status = "RECOVERY_FAILED"]

(* The last write of the incident; the record of the attempt comes after it, *)
(* but a run whose source cannot be fetched leaves none.                     *)
Finish(t) ==
  LET new == Outcomes(call[t])
  IN  /\ call[t].pc \in {"finish", "recover"} /\ UNCHANGED <<calls, faults>>
      /\ CreateIncident(t, call[t].id, new)
      /\ split' = (split \/ Reopens(call[t].id, new))
      /\ \/ Goto(t, [call[t] EXCEPT !.pc = "log", !.row = new])
         \/ call[t].pc = "finish" /\ Done(t)
      /\ UNCHANGED <<attempts, runs, stranded>>

Log(t) ==
  /\ At(t, "log")
  /\ Record(t, call[t].row.status)
  /\ Done(t)
  /\ UNCHANGED <<rows, history>>

-------------------------------------------------------------------------------
(* Faults *)

Strands(r) == {id \in {r.id} : r.pc \in {"finish", "recover"}}

(* A statement fails and the exception ends the call, with its lock and its  *)
(* run; only the alert is tried again, with the error as what to write. A    *)
(* run also ends so where a stage of it raises.                              *)
Fail(t) ==
  /\ call[t].pc # "idle"
  /\ faults < MaxFaults /\ faults' = faults + 1
  /\ IF call[t].op = "alert" THEN Goto(t, [call[t] EXCEPT !.op = "alert_error", !.pc = "merge"])
     ELSE Done(t)
  /\ stranded' = stranded \cup Strands(call[t])
  /\ UNCHANGED <<rows, attempts, calls, runs, raced, split>>

(* A process is killed.                                                      *)
Crash(p) ==
  LET dead == {t \in Threads : Home[t] = p}
  IN  /\ \E t \in dead : call[t] # Idle
      /\ faults < MaxFaults /\ faults' = faults + 1
      /\ call' = [t \in Threads |-> IF t \in dead THEN Idle ELSE call[t]]
      /\ stranded' = stranded \cup UNION {Strands(call[t]) : t \in dead}
      /\ UNCHANGED <<rows, attempts, calls, runs, raced, split>>

Next ==
  \/ \E t \in Threads :
       \/ BeginRaise(t) \/ BeginReport(t) \/ BeginAction(t) \/ BeginRemediation(t)
       \/ Find(t) \/ Generate(t) \/ Create(t)
       \/ Check(t) \/ Merge(t) \/ Write(t)
       \/ Load(t) \/ Start(t) \/ Reingest(t) \/ Finish(t) \/ Log(t)
       \/ Fail(t)
  \/ \E t \in Threads : Crash(Home[t])

Spec == Init /\ [][Next]_vars

-------------------------------------------------------------------------------
(* Properties *)

(* recovery_attempt never counts a run that was not started, and misses none *)
(* of an incident that nobody wrote behind another's back: the limit on      *)
(* attempts rests on it (controller.py:231), and every whole-row write of    *)
(* the service, of the alert and of the API carries the column along.        *)
AttemptsCounted ==
  \A id \in Ids : /\ rows[id].attempt <= runs[id]
                  /\ id \notin raced => rows[id].attempt = runs[id]

(* _INCIDENT_LOCK does what it is for: where every creation goes through the *)
(* service of one process, the pipeline has one active incident at most. Two *)
(* reports of the controller, or of two processes, may give it two, and so   *)
(* may an incident that was closed and is acknowledged or remediated again.  *)
OneActiveIncident == ~split => Cardinality(ActiveIds) <= 1

(* An incident says REMEDIATING while a run works on it, unless an exception *)
(* or a crash took the run away, or a writer with an old copy put the status *)
(* back: every other way out of execute_remediation writes what came of it.  *)
RemediatingMeansRunning ==
  \A id \in Ids \ (raced \cup stranded) :
    rows[id].status = "REMEDIATING" =>
      \E t \in Threads : call[t].id = id /\ call[t].pc \in {"finish", "recover"}

(* An incident that says RECOVERED carries the number of an attempt that is  *)
(* recorded to have re-ingested its events, whoever else has written the     *)
(* whole row since then and whatever two processes that remediate the same   *)
(* incident do to its number: the service and the API carry both columns     *)
(* along, and the controller records the stage before it claims success.     *)
RecoveredIsRecorded ==
  \A id \in Ids : rows[id].status = "RECOVERED" =>
    [incident |-> id, number |-> rows[id].attempt, stage |-> "RE_INGESTING"] \in attempts
===============================================================================
