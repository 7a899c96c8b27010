# A TLA+ model of IceStream

IceStream validates a stream of checkout events, quarantines the invalid ones,
trips a circuit breaker when too many are invalid, heals the pipeline by
fetching, reprocessing and re-ingesting the failed events, and keeps them in
Iceberg tables that a Flink job feeds. This directory holds TLA+ modules for the
parts that make this hard, TLC configurations that check them on small
instances, and TLAPS proofs for every instance.

Run a configuration with `tlc -workers 2 -config MCX.cfg MCX`, a proof
module with `tlapm XProofs.tla`. `PROJECT.json` maps each definition to the
lines of code it stands for and lists runs, mutants, findings, hazards and
theorems.

## 1. The system

| component | state | operations | hard because |
|---|---|---|---|
| `CircuitBreaker` (quality-engine/circuit_breaker) | state, opened_at, probe flag, counters, bounded history; all under `self._lock` | `current_state`, `can_process`, `can_probe`, `evaluate`, `transition_to`, `begin_recovery_probe`, `record_recovery_result`, `get_status` | any thread may call anything at any time; reads move OPEN to HALF_OPEN |
| its persistence (`circuit_breaker_state` row, `circuit_breaker_history` table) | one row per pipeline, read at most every 0.5 s | hydrate, sync, upsert, record; every error is swallowed | API backend and stream worker cache the same row; row and history are two writes |
| `RemediationController` | `_active_remediations` flag, incident rows | `execute_remediation`, `get_or_create_incident` | a run of a dozen statements holds no lock while validator, operator and clock act |
| `PipelineStateManager` | `pipeline_state` row, history | `transition_to`, `record_failure` | row and history are separate writes; forced and unforced transitions mix |
| `StreamQualityValidator`, stream worker, telemetry loop | position in the topic, the event in hand | `validate_event`, `consume_stream`, restart, reconnect | breaker read, evaluated and settled in separate steps; exceptions end the loop between two flushes |
| `ErrorRateEngine`, `WindowAggregator` | deque of outcomes, the row of window counts | record, calculate, snapshot, flush | eviction happens when somebody asks; two processes write one row |
| `QuarantineWriter`, `QuarantineRouter` | buffer under a lock, the quarantine table | `write_record`, `flush`, `close`, `route_invalid_event` | the lock is released during the append; an append that raises may have committed; a record the schema refuses stays |
| `QualityEngine`, rules, detectors, `HybridQualityEngine`, Great Expectations adapter | ids seen within a window | `validate_with_summary`, `validate_batch` | every engine has a memory of its own; two judges of one batch, who see different values of it |
| schema registry and comparator | registered versions | `register`, `get`, `compare` | what is called compatible must be readable |
| `IncidentService`, `SlackService`, incident rows | incident rows, attempts | create or update, acknowledge, resolve, alert | read, merge and write of whole rows by several threads of two processes |
| `PipelineService` (API) | none of its own | `pause`, `resume`, `recover` | checks one row, then changes another |
| `FlinkController`, `submit_flink_job.py` | last savepoint path; the job lives in Flink | `pause_job`, `resume_job`, `trigger_savepoint` | REST calls that time out, fall back, or succeed unseen |
| `IcebergLakehouseSink` | the Bronze table | `write_events` | append and refresh are retried together |
| Iceberg maintenance | snapshots, files | compact, expire, remove orphans | runs beside writers and beside itself |
| `StorageBackend` | Postgres pool of 1 to 20, or SQLite | rows of all of the above | every statement may fail, none is in a transaction with another |
| rate limiter, REST, Flink SQL, generators, frontend | little or external | | sequential, pure or external |

They interact through shared things: the breaker and its row, the pipeline row,
the incident rows, the quarantine and Bronze tables, the Flink cluster. The
validator calls engine, router, error rate engine, breaker, controller and state
manager. The controller calls the breaker, the state manager, Flink and the
sink. The API calls the state manager, Flink, the incident service, maintenance
and the controller.

What makes each correct: the breaker moves along its four edges only, grants one
probe per opening and always leaves OPEN; processes that share it agree in the
end and leave a record of each opening; one remediation runs at a time and what
it calls RECOVERED was delivered and recorded; nothing stays half way; the
quarantine writes each record, in order, again only when it cannot know that it
did, and loses none to another; a trip rests on recent evidence and is acted upon; an incident's attempts are counted; a paused
job ends; the table holds what was appended to it and its files exist; a verdict
agrees with the failures it names.

## 2. Modules

| module | models | built on |
|---|---|---|
| `BreakerOps` | the transitions of one breaker object, as operators on a record | |
| `BreakerContract` | what a breaker promises: states, edges, one probe per half-open episode | |
| `CircuitBreaker` | one object in memory, any threads, history, clock | `BreakerOps` |
| `SharedBreaker` | the objects of several processes, the row and the history table | `BreakerOps` |
| `SelfHealing` | validator, remediation runs, operator, pipeline row, incidents | |
| `StreamIngest` | the two consumers of the topic, from poll to quarantine and trip | `BreakerOps` |
| `QuarantineContract` | what the writer promises: a queue whose front becomes durable, again only when that was in doubt | |
| `QuarantineWriter` | buffered writer and the table it appends to, several threads | |
| `QualityEngine` | rules and detectors of validator and reprocessor | extends `SchemaRegistry` |
| `BatchQuality` | the hybrid verdict on batches | `QualityEngine` |
| `SchemaRegistry` | registry and comparator | |
| `IncidentStore` | incident rows and everybody who writes them | |
| `FlinkControl` | controllers, submit script and the cluster | |
| `TableContract` | what the table promises its readers, present and past | |
| `LakehouseTable` | one Iceberg table, stream, sink and maintenance | |
| `CircuitBreakerProofs`, `SharedBreakerProofs`, `SelfHealingProofs`, `IncidentStoreProofs`, `FlinkControlProofs`, `LakehouseTableProofs` | theorems about the module they are named for | that module |
| `IngestProofs` | theorems about the writer and the consumers | `QuarantineWriter`, `StreamIngest` |
| `QualityProofs` | theorems about events, batches and schemas | `BatchQuality`, which extends the other two |

An `MC` module per specification carries what TLC needs. Operators whose comment
says *a deviation* are the mutants that `PROJECT.json` pairs with properties: no
specification uses them.

`SelfHealing` and `StreamIngest` meet at `RaiseIncident`: `StreamIngest` follows
the events of two processes up to there and leaves the incident and the
remediation out, `SelfHealing` starts there with the rate as a free choice.
`IncidentStore` looks at the rows that `SelfHealing` changes in one step,
statement by statement, `FlinkControl` at the calls whose results its callers
ignore. Composing them into one specification would multiply their states
without relating anything that the code relates.

### CircuitBreaker
Each action is one public method. That is the atomicity of the code: every one
holds `self._lock` throughout. `Become` writes the object and, for a change of
state, the history. `Read` stands for all methods that only read: their one
effect is the timeout. `last_error_rate`, which decides nothing, is left out;
error rates are integers around the threshold, time is counted in ticks.

### SharedBreaker
A process is in at most one method, since the lock of its object is held while it
talks to the database, but its steps interleave with those of other processes.
`Begin` synchronises if the interval is over, `Check`, `Evaluate` and
`GrantProbe` go on with the cached object and write the row if they move it.
`Persist` writes the row and then the history, and either may fail: `logged`
counts the openings the history holds (`RecordHistory`). `Restart` may strike in
the middle of any method; hydration reads the row first and the history after it,
so a failure may leave a fresh object or a hydrated one. The code swallows every
failing access, and so does the model. The row has the columns of the table, so
`probe_active` is not in it. A database statement is one step, and a write
replaces the whole row, as the upsert does. The clocks of the processes are taken
to agree.

### SelfHealing
A run of `execute_remediation` is a worker whose `pc` names its next statement
with an effect on shared state. Any unforced transition raises if another thread
has moved the pipeline to a state that does not allow it, the breaker calls raise
if it is not in HALF_OPEN, and every exception goes to the finally block, which
releases the flag and nothing else. `StorageError` is any other exception of a
statement of a run, `HistoryError` one after the row of a transition was written
and before its history was, `ValidatorError` one that the validator swallows,
`Crash` the restart of the process with its rows intact. The validator is one
thread in the branch for invalid events (valid ones only read the breaker); pause
is one step, resume two, recover one that leaves a worker behind. `delivered` and
`orphaned` are history variables.

Abstractions: the breaker is its state (the rest is `CircuitBreaker`, the second
process `SharedBreaker`); the reprocessed batch is clean, within the threshold, or
above it, an empty batch counting as the second; the check and the write of the
pipeline row are one step; the incident named in a recover request exists;
looking for an active incident and creating one is one step; the validator
remediates by itself, as the one in the backend does (a stream worker does so
only on request, and with a controller of its own); the statuses set by
`IncidentService` are in `IncidentStore`, the commands to Flink in `FlinkControl`.

### StreamIngest
Two consumers, the stream worker and the telemetry loop of the API, each with a
position in the topic (`pos`), an error rate engine (`window`) and a quarantine
buffer. A message is its kind: good, bad, poison (invalid, with an id the
quarantine schema refuses), garbage (no JSON) or list (JSON, but no object). A
step is what `validate_event` does between two accesses to what others share:
`Poll`, `Route` or `HandleMalformedPayload`, `Examine`, `Evaluate`, `AutoClose`,
`RaiseIncident`; `PeriodicFlush` and `Close` are those of `consume_stream`.
`Restart` and `Reconnect` resume from any offset the background commit may have
reached (`Committed`); both let go of the writer, whose `__del__` flushes once more
(`LetGo`), or may do so, if an exception ended the worker. `Kill` takes buffer and
event in hand with it. `Snapshot` is a request thread that uses the API's engine
meanwhile. `Flush` is what a flush may come to: written, unwritten (with or without
a commit), or `Refused`, when a poison record makes it raise and the buffer stays.
`Probe` and `Verdict` are what a remediation does to the breaker: OPEN to HALF_OPEN,
then CLOSED or OPEN again; they, the clock and the other consumer may come between
any two steps, also between the read of the state and its evaluation. `seen`,
`closings`, `lost` and `killed` are history variables.

A window is the sequence of its outcomes, of which `Expired` says how many are
popped from the front; its counts are the numbers of its members.

Abstractions: only the window of 60 s, which feeds the breaker; the breaker is one
object here; the attempts of one flush are one outcome (`QuarantineWriter` has them
one by one); rates are exact fractions (`Scale`, which `RatesAreExact` ties to the
outcomes a process may record); the event telemetry and the metrics counters are
left out.

### QuarantineWriter
`flush` is steps, as in the code: copy under the lock, append without it, drop under
the lock by count. A thread may write while another is at its append. The elapsed
flush interval is a free choice. The attempts of `write_batch` are steps of their
own: one appends and is heard of (`AppendBatch`), or raises (`AttemptFails`), before
its commit or after it, and is then repeated with the same batch, `MaxRetries` times
in all; after that the batch stays (`GiveUp`) and a later flush begins anew.
`unheard` is a history of the records whose commit raised. A record in `Poison` makes
the construction of the Arrow table raise, outside of that loop (`BatchRaises`): the
caller has no answer, the buffer stays, and so does every record behind it.
Its specification is `WriterSpec` and its table `quarantine`, names that `IngestProofs`
can use beside those of `StreamIngest`. `QuarantineContract` is the writer seen from
outside, a queue without threads, locks, batches or attempts; `Waiting` says which
records of the buffer are still in it.

### QualityEngine and BatchQuality
An event (`IsEvent` lists its parts) is reduced to the classes its rules tell
apart: a field is ok, null or outside its list, an amount fair, nonpositive, huge,
text and so on, a time an instant or one of three ways to have none. `Failures`
holds one operator per rule of the default registry and per detector; `Verdict`
adds status and `determine_primary_error`. The state is what engines remember:
`seen`, the ids and orders by the time they were taken for new, `Purged` as the
detector purges them. The validator's engine is fed with every event and is new
after a reconnection; the reprocessor's lives as long as its process and is fed
with the recovered events of every attempt. `BatchQuality` adds the hybrid engine:
expectations judge the rows by column, rules event by event, `Unified` makes one
verdict of both. A batch comes in one of three forms: events, whose values both
halves see converted (`Converted`); dictionaries, which the expectations see as they
are; or a DataFrame, in which besides a null may be a nan (`Framed`), null to pandas
and a value to the rules. Which nulls are empty texts and which columns are missing
is a free choice in `FinishBatch`.

### SchemaRegistry
`compare` is a set of changes, one operator per kind, and the verdict their
heaviest severity; `register` and `get` are the registry. `Sends` and `Accepts`
say independently what a schema means to a writer and a reader, which is what the
two properties compare the verdict with. `ValuesSuffice` is a condition on the
model, that there are values of fields enough to tell the schemas apart; TLC
evaluates it on its instance.

### IncidentStore
A thread is in one operation; a step is one database statement.
`create_or_update_incident` holds `_INCIDENT_LOCK` from `Find` to `Create` or
`Write`, the controller's `get_or_create_incident` (`report`) holds none.
`update_incident` is `Merge`, which reads the row, and `Write`, which writes all of
it; a remediation writes the copy it loaded (`Start`, `Finish`). The alert is a
second update by the thread that created the incident. `Fail` is an exception at
any statement, `Crash` the death of a process. The lock and the flag of a
remediation are those of the process, so two processes exclude nothing.

Writers that interleave do overwrite each other here, as in the code: `raced`
marks the incidents this happened to, `split` that creations overlapped without a
common lock or that a closed incident was reopened, `stranded` that a run left an
incident without a word. The properties say what holds for the others, and what
holds even for these.

### FlinkControl
A call of a controller is a sequence of requests, each a step that may fail, or
reach Flink and lose its answer: `StopRequest`, `PollStop`, `CancelRequest` (REST,
then the command line), `Confirm`; `Submit`, `AwaitJob`; `SavepointRequest`,
`WatchSavepoint`. A savepoint that failed is reported COMPLETED, with a cause for a
location (`Location`): a pause takes that for a success, and goes on to confirm at
`trust` instead of `confirm`. The job named by an overview is any active one. The cluster
moves by itself: jobs appear late or never, restart, fail, complete or fail a
savepoint, end a cancellation. `submit_flink_job.py` runs beside the controllers.
Jobs are numbered, a savepoint is the number of its job; `paused`, `stale` and
`overlapped` are history variables. The lengths of the polling loops (10 to 20)
are one constant.

### LakehouseTable
One Iceberg table: files of the object store with the rows they hold, snapshots,
and a catalog that commits a change only if its base is still current. The stream
appends in one step. `write_events` writes a file, commits, refreshes, and repeats
all of it after an error, one whose commit had succeeded included. Compaction
reads, writes one file, overwrites if nobody came between, expires its candidates
one by one; the cleanup collects references, lists, deletes. `ManifestErrors` adds
manifests that cannot be read. A row is named by the file that first held it, a
snapshot by its number (`Newer` orders them by it). The cleanup's safety buffer is
one constant for all runs, which `BufferIsAmple` asks to be longer than a write; the
API and `--orphan-safety-seconds` take shorter ones, which are left out. `appended` (the files
committed per batch), `acked` and `calls` are what `TableHoldsEveryAppend` and
`SinkCounts` compare. `TableContract` is the table as its readers see it: rows, and
the versions that time travel can still reach; only an append adds to it.

## 3. Checks

| run | instance | states | shows |
|---|---|---|---|
| `circuit_breaker` | threshold 2, rates 2 and 3 (on it and above), timeout 2, history of 3, 3 openings, 6 ticks | 114 039 | `OutcomesWithinOpenings`, `OneProbePerOpening`, `OpeningTimeKnown`, `HistoryIsChain`, `CooldownRestarts`, the inductive `IInv` with the types, `OpenTimesOut`, refinement of `BreakerContract` |
| `shared_breaker` | 2 processes, one opening by evaluate per count, interval 1, timeout 1, 2 ticks, one restart, one failing access | 701 027 | `NoMixedSnapshot`, `OpeningsAreRecorded`, `NoOpeningIsPermanent`, `TripReachesAll` |
| `shared_restart` | 1 process, no faults, 2 restarts at any step, 3 openings, 5 ticks | 145 466 | refinement of `BreakerContract` across restarts |
| `self_healing` | 2 runs at once, 2 incidents, limit of 2 attempts, one fault | 2.37 million | `SingleRemediation`, `RecoveredMeansDelivered`, `DeliveriesWithinLimit`, `NothingStranded`, `KeepsBreakerContract` |
| `quarantine_writer` | 2 threads of which 1 flushes, 4 records of which 1 is refused, batches of 3, 5 attempts each, 6 that raise | 322 747 | `AtLeastOnceInOrder`, `AckedIsDurable`, `EveryRecordArrives`, refinement of `QuarantineContract` (`KeepsPromise`) |
| `quarantine_loss` | 2 flushers, 3 records | counterexample | `NoRecordLost` fails |
| `lakehouse_table` | 1 batch, 1 append of the stream, 2 maintenance runs, 4 files, 1 fault, 3 ticks | 7.39 million | `TableHoldsEveryAppend`, `LiveFilesExist`, `SinkCounts`, `NewestRetained` |
| `schema_registry` | schemas of up to 2 fields, 3 types, enums, a rename | 15 006 | `CompatibleIsReadable`, `BreakingIsReal` |
| `quality_engine` | events that spoil one field each, 3 events, window 1, 2 ticks, 2 attempts; batches of up to 2 in three forms | 241 218 | `DuplicateIffRecent`, `ErrorExplainsVerdict`, `BatchVerdictExplained` |
| `stream_ingest` | 2 consumers, 4 topics of 2 messages, 3 outcomes per process, 1 fault, 1 verdict, 1 snapshot, 2 ticks | 2.89 million | `NothingInvalidSlips`, `EveryTripIsRaised`, `TripsOnEvidence` |
| `incident_store` | 2 threads of the API and 1 of the worker, 2 incidents, 5 calls, 1 fault | 2.91 million | `AttemptsCounted`, `OneActiveIncident`, `RemediatingMeansRunning`, `RecoveredIsRecorded` |
| `flink_control` | 2 controllers, one of them with 2 threads, the script, 2 jobs, 3 calls | 1.70 million | `PointerIsCurrent`, `PausedJobStops` |

The first run checks `TypeOK` as a part of `IInv`. The other modules are typed by
their proofs, whose invariants include the types of all variables.

Why these bounds suffice. Three openings let the breaker close, reopen and be
probed again, and overflow a history of three; six ticks hold three timeouts.
Two processes and one fault are the smallest instance with a stale cache, a lost
write and a restart together; the clock of two ticks holds a synchronisation and
a timeout. `shared_breaker` asks for no probes because production code never
does; `shared_restart` does. Two workers and two incidents let a validator's run
meet an operator's, on the same and on different incidents; a limit of two lets a
second attempt succeed and a third be refused. Incidents and runs stop at their
bounds, so the validator may wait at `OpenIncident` in a state where the real one
would start another thread; the properties are about what the others do meanwhile.

In `quarantine_writer` six attempts that raise are one more than the loop makes, so a
flush may give up and the next one meet the batch again, with attempts that committed
in both. In `stream_ingest` the consumers start at different messages, so each can
judge what the other has not, and the topics put each kind of obstacle (poison,
garbage, list) before or behind an invalid message; connections begin anew, so two
messages make long histories, which `MaxOutcomes` bounds at three per process. One
fault is a failing append, a failing write of counts, or a kill: so a second failure
of a flush, which may lose a record, is left to the proof, and the run shows that
one failure loses none. A window of one tick and a clock of two let an outcome expire
before it is looked at, and one verdict lets a breaker read as OPEN be closed and
tripped again before the evaluation. In `incident_store`
five calls hold a creation, its alert, an acknowledgement, and two remediations
of it in different processes; with `MaxAttempts` 1 the limit is met.
In `flink_control` two jobs are a pause and the job that follows it, and three
calls a pause, a resume and a call that overlaps either; loops of two polls see an
answer late and give up. In `lakehouse_table` four files are one at the start, the
stream's, the sink's and a compacted one, and two runs overlap in every stage; the
buffer is longer than a write and a scan together, as `BufferIsAmple` demands of
the hour of the code. A second batch or a longer stream repeats what one does.
In `quality_engine` the clock crosses the edge of the window, and the events carry
times that are late or in the future at any clock. The constraint
`BatchesApart` explores batches and stream events separately, since the engines
share the schemas and the clock alone, and ends a batch's branch when two rows or more
have been judged and a result given. In `schema_registry` every pair of schemas
over two fields is compared, and a comparison looks at one field at a time.

### What holds only with a condition
The properties name the exceptions they need, each of them a behaviour of the code:
* `OpeningsAreRecorded`: a trip and its record are two writes, so each failing
  access may cost one record.
* `OneActiveIncident`: `get_or_create_incident` of the controller does not take
  the lock of the service, nor can a lock hold between processes; an acknowledged
  or remediated incident that was closed meanwhile is active again.
* `AttemptsCounted`, `RemediatingMeansRunning`: whole rows are written from copies,
  so a writer behind another's back may undo its status or its number.
* `NothingStranded`: a run that dies in an exception leaves the incident
  REMEDIATING and the pipeline in its stage. `recover` then answers "Remediation
  workflow is already in progress." for ever (pipeline_service.py:201).
* `AtLeastOnceInOrder`: not once. An attempt that raises after its commit is repeated,
  by the loop (writer.py:205) or by the next flush, and the record is there twice.
* `EveryRecordArrives`: unless a record was accepted that the schema refuses. It stays
  in the buffer and every later flush raises, so nothing accepted after it arrives.
* `NothingInvalidSlips`: a buffer goes with a process that is killed. A writer that is
  let go of (app.py:172 makes another, a worker ends) leaves records behind only after
  two failures, or if one of them is refused by the schema (`LostForCause`).
* `EveryTripIsRaised`: a trip is recognised by the state read before the evaluation. If
  that was OPEN and a recovery has closed the breaker since, the new trip passes for
  the old one and no incident is opened (`ClosedSinceRead`). The theorem says that
  this is the only case.
* `PausedJobStops`: a pause whose savepoint failed and was reported COMPLETED has
  cancelled nothing; one failed request for the overview confirms it all the same.
* `PointerIsCurrent`: two threads that share a controller can leave a superseded
  pointer. A resume whose overview request failed starts a second job beside the
  first, `submit_flink_job.py` sees RUNNING jobs only and may do the same.
* `BatchVerdictExplained`: a numeral in a batch of dictionaries or a DataFrame is a
  number to the rules and a text to Great Expectations; a nan in a DataFrame is a
  value to the rules and a null to Great Expectations. Either may make a batch FAILED
  without an invalid event. What the rules refuse, the verdict refuses always.
* `CompatibleIsReadable`: a renamed field is compared by its type alone, and an
  enum put on a field that had none is reported as added values.
* `BreakingIsReal`: for pairs of versions between which no optional field is removed,
  since the documents call that BREAKING and the code a WARNING (see below).
* `LiveFilesExist`: for a safety buffer longer than any write stays uncommitted.

### What the counterexample says
`NoRecordLost`: two concurrent flushes append one copy twice and drop twice as
many records. Production has one flusher per writer, for which
`AtLeastOnceInOrder` holds.

### Where documents and code part
Found while modelling; the modules follow the code.
* docs/circuit-breaker.md:81 promises one concurrent probe. `probe_active` lives
  in each process; two that share the row are each granted one. No production code
  calls `begin_recovery_probe`.
* docs/automated-remediation.md:68 says a failed validation leaves the circuit
  OPEN. The breaker accepts a batch within the threshold (controller.py:385), the
  controller only one without an invalid event (:391), so the circuit may be CLOSED.
* pipeline_service.py:145 forbids a resume to bypass an OPEN breaker; the check is
  at :147, the transition at :173, and a trip in between is overlooked.
* flink_controller.py:376 confirms that the job's state changed; :379 takes a failed
  request for it. After an accepted cancellation that does no harm (`PausedJobStops`).
  But :328 takes the status COMPLETED for a savepoint, which Flink also gives to one
  that failed, with a failure-cause and no location: nothing is cancelled, and a
  failed overview lets pause_job answer SUCCESS while the job runs.
* docs/schema-evolution.md:170-171 and schema/README.md:57 call it BREAKING to remove
  a field, required or optional; `SchemaComparator` calls the removal of an optional
  field a WARNING and the versions compatible (compatibility.py:225-256).
* hybrid_engine.py:157 has failures of Great Expectations bear on the validity of
  events, and does nothing there. A DataFrame whose event_id is a nan passes
  `EventIdNotNullRule` (rules/base.py:207) and fails the expectation: the batch is
  FAILED and counts no invalid event.
* docs/incident-management.md:74 and the docstring db.py:690 name OPEN and
  ACKNOWLEDGED as the active statuses; the query adds REMEDIATING and RECOVERY_FAILED.
* snapshot_manager.py:255 says the safety buffer protects writes in flight;
  models/lakehouse.py:51 accepts one of 60 s, run_maintenance.py:66 any integer.
* writer.py:4 promises failure preservation. A record that pyarrow refuses (:201)
  raises out of `flush` instead of being reported, and blocks those behind it.
* flink_controller.py:374: a stop whose savepoint was not seen in time falls back
  to a cancellation and forgets the savepoint; the resume starts from the group
  offsets. pipeline_service.py:119 and :170 ignore what Flink answered.
* manager.py:206 says a dry run simulates the destructive actions; `dry_run` is
  passed to the cleanup only (:258), compaction and expiry go on.
* reprocessor.py:80 speaks of a fresh engine; one engine judges all attempts, so
  what is fetched again within the duplicate window fails as a duplicate.
* stream_validator.py:265: a valid event returns before the evaluation, so a stream
  that has healed completely leaves the breaker HALF_OPEN until someone settles it.
* error_rate.py:256: the fallback to persisted counts asks for an engine without
  local events and without a reference time; every caller records or passes one.
  :372 writes the snapshot of one process over the counts of the other.

### Fairness
`CircuitBreaker`: time passes and someone keeps reading, as the telemetry loop and
the status endpoints do. `SharedBreaker`: a call that began goes on (the lock is
held, database calls return or fail), and every process keeps reading its
breaker: the backend in its telemetry loop, the worker for every event.
Evaluations, probes and verdicts get no fairness. `QuarantineWriter`: a thread in
`flush` goes on, and the consumer flushes again (it does every fifty events, and on
its way out); nothing is asked of the outcome of an attempt, but only `MaxFailures`
of them raise. `FlinkControl`: Flink ends a job whose cancellation it has accepted;
the controllers get none. The other modules state safety only and assume none.

## 4. Proofs

TLAPS proves every safety invariant and action property that a passing run
checks, the three refinements of `BreakerContract`, and those of
`QuarantineContract` and `TableContract`, for all values of the constants: any
processes, threads, events, tables, limits and bounds. The
theorems rest on the assumptions the modules make about their constants, which
TLC evaluates on the instances, and on the premises named below, each of which
stands in the theorem.

An invariant of a run is seldom inductive by itself. Each module of proofs
begins with what has to be added (`IInv`, or invariants in layers), then shows it
for the initial states (`InitInv` or `InitHolds`), for every step, one lemma per
action or group of actions that touch the same variables (`...Keeps`), and draws
the properties from it.

**CircuitBreakerProofs**: the invariants of the run, and `Refinement`. It
rests on `BreakerConfig` (the ranges `CircuitBreakerConfig` validates) and
`HistoryBound` (a history of at least one entry). `OneProbePerOpening` needs to
know that an opening which may still grant a probe has one left;
`OutcomesWithinOpenings` that the current opening is not settled;
`CooldownRestarts` that the newest entry of the history carries the opening time
of an OPEN breaker. `ObjectInv` says this of the object, `HistoryInv` of the
history and how it hangs on the object.

1. `MoveFields`, `MoveKeeps`: an accepted change of state keeps `ObjectInv`.
   From it `RefreshedKeeps`, `EvaluatedKeeps`, `WithProbeKeeps`, `SettledKeeps`.
2. `RememberFacts`: appending to the bounded deque keeps the newest entries and
   shifts by at most one. `BecomeKeeps`: a method that changes the object along a
   valid edge, for a true reason, keeps `IInv`.
3. `InitHolds`, `NextKeeps` (one step per method), `Invariance`.
4. `StepShape` says what a step may do to state and probe flag; `Refinement` maps
   that to the steps of the contract. A granted probe exists in HALF_OPEN only,
   by `IInv`, so every step that leaves HALF_OPEN returns it.

**SharedBreakerProofs**: `NoMixedSnapshot` and `OpeningsAreRecorded` for any
number of processes, lost writes and restarts. With the types they are inductive,
by one fact about the operators of a breaker (`OneStep`, from `MoveIsOneStep`):
what a method makes of a coherent object is coherent, and counts one opening more
exactly if it opened. `SharedImplementsContract` has the premise
`AloneWithDatabase`, one process and no failing access, as in `shared_restart`:
then the row is the object but for its probe (`RowIsObject`), a synchronisation
changes nothing, and a restart only takes back a probe. With two processes or a
lost row the contract does not hold, as the code stands: an object may jump from
OPEN to CLOSED by another's row.

**SelfHealingProofs**: `SingleRemediation`, `RecoveredMeansDelivered`,
`DeliveriesWithinLimit`, `NothingStranded` and `KeepsBreakerContract`, for any
number of runs, incidents, faults and attempts. `OneRun` ties the flag to the
run that is inside. `RunInv` says what a run has made sure of at its statement:
up to the sink it has counted an attempt that delivered nothing yet
(`BeforeSink`), behind it something was delivered (`AfterSink`).
`IncidentsAnswered` and `PipelineAnswered` name for each incident REMEDIATING and
each state halfway the run that answers for it, unless its last run died.

**IngestProofs**, the writer: `AtLeastOnceInOrder` and `AckedIsDurable`, and
`NoRecordLost` besides, under `OneFlusher`, which is how production uses the
writer and without which `quarantine_loss` has its counterexample. The copy a
flush holds is the front of the buffer (`InFlush`), so that dropping by count is
dropping what was written (`FrontAndRest`). `Ordered` is the invariant of the
records: what waits is the end of what was accepted, the rest is in the table, and
what waits is in the table only if a commit of it was not heard of. Every step takes a record, makes the front of what waits
durable, does so in doubt, or at most tells a caller what is in the table already
(`RecordStep`), and `WriterKeepsPromise` maps these to the steps of
`QuarantineContract`. That the drop does not show is the point: what waits is the
same before and after it.

The consumers: every step has one of four shapes, by what it does to the
consumer's records, window and breaker (`Passive`, `Examines`, `Evaluates`,
`Rests`; `IngestSteps`); the three properties follow from the shapes.
`NothingInvalidSlips` holds for each consumer by itself (`HeldBy`), over all its
connections, since a step takes a message into the buffer, moves records from there
to the table, leaves them with a writer or process that is gone, or goes back to an
offset it had reached; and a buffer that waits for its end has seen a failure
(`Excused`), so what is lost has seen two. `EveryTripIsRaised` needs that a breaker
read as OPEN is found CLOSED only after a recovery that was counted since
(`ReadOpen`), whatever remediation, clock and other consumers do in between.
`TripsOnEvidence` needs that a window is the history of outcomes without a front
that is outdated (`Tracks`), so the metrics a consumer evaluates are the counts of
its recent outcomes (`Evidenced`), and a fact about integer division (`RateFacts`).

**IncidentStoreProofs**: `AttemptsCounted`, `OneActiveIncident`,
`RemediatingMeansRunning` and `RecoveredIsRecorded`. `CallInv` says what the copy
of each thread is worth: it counts no run too many, is still the row unless
somebody wrote behind its back, and says RECOVERED only if the attempt was
recorded. `LockHeld` and `ActiveOnce` say that a thread about to create an incident
finds none active, as long as nobody creates without the lock.

**FlinkControlProofs**: `PointerIsCurrent`, for any controllers and threads and
whatever Flink does. A thread that polls for a savepoint has asked for it itself,
so one that it sees completed was completed after every job its controller has
confirmed (`Fresh`), unless two threads are inside one controller, which is noted
(`OverlapNoted`).

**LakehouseTableProofs**, in layers:
1. `SnapshotInv`: snapshots are told apart by number, the last one committed is
   there, and what an expiry still has to remove is neither current nor among the
   newest. From it `NewestRetained`.
2. `FilesInv`: what snapshots or an unfinished commit need is stored; what a
   cleanup is to delete is needed by nobody, since a file that its scan missed was
   committed during the scan and so is younger than the buffer (`CleanupFits`,
   with `BufferIsAmple`). From it `LiveFilesExist`, under the premise
   `~ManifestErrors`: with a manifest that cannot be read it fails, which is a
   hazard of the code and no oversight of the proof.
3. `RowsInv`: a compaction that can still commit holds the rows of the table.
   From it `TableHoldsEveryAppend`. Every step leaves the rows of the table, adds one,
   or puts them into one file (`RowsStep`), and a file in use keeps its content, so
   the table implements `TableContract` (`TableStep`, `LakehouseRefinement`), and a
   later snapshot holds what an earlier one does (`LakehouseVersionsGrow`): whoever
   was new in a step is current after it (`NewestIsCurrent`).
4. `CountInv`: a batch has at most as many appends as its calls had attempts, and
   a call about to report success has one that is not reported yet. From it
   `SinkCounts`.

**QualityProofs**: `ErrorExplainsVerdict`, as the failures of every rule have a
grade and the primary error is the heaviest of them (`LastFits`).
`DuplicateIffRecent`, as an engine's memory agrees with the history of what it
took for new, but for keys that are out of the window (`Recalls`, `MemoryFits`).
`BatchVerdictExplained`, from the verdicts on the rows judged so far
(`RowsJudged`) and `ExpectationsMatchRules`, the agreement of the configured
expectations with the rules, for rows in every form (`FrameFacts`): a cell that an
expectation refuses is refused by a rule, but for a numeral and a nan (`CellsFail`).
`CompatibleIsReadable` for all schemas, and `BreakingIsReal` for all for which there
are values enough (`ValuesSuffice`).
`SchemaUpgradePathIsReadable` is about two upgrades in a row, which the comparator is
never asked about: COMPATIBLE does not compose as a verdict, but what it promises
does, since the part of an event that the middle version knows is one its writers
may send (`KnownPartIsSent`). The premise is `NoFieldReturns`; without it a field
could come back with another type and no comparison of neighbours would tell.

`ImplementsTable`, `VersionsGrow` and `UpgradePathIsReadable` are in no run. TLC
confirms `ImplementsTable` on the instance of `lakehouse_table` when it is added to
that configuration; it is left out because it adds half again to the longest
search of the project.

Only model-checked: the liveness properties `OpenTimesOut`, `NoOpeningIsPermanent`,
`TripReachesAll`, `EveryRecordArrives` and `PausedJobStops`. The prover has no rule
for liveness under fairness and does not reason about `ENABLED`. Nothing here needed
induction over data, of which it is not capable either: where a definition could
have been recursive (the eviction of a window, the newest snapshots, the greatest
number) it is a choice, a set or a cardinality, and the least element of a set of
numbers comes from the library's theorems on well-founded relations.

## 5. Not modelled

* The rate limiter: one window under one lock, in one process.
* Flink SQL, Kafka, load tests, data generators, the presentation generator and the
  frontend: external, or nothing depends on them. `FlinkControl` has the cluster as
  the controller sees it, `LakehouseTable` the catalog as pyiceberg uses it.
* The REST layer but for the telemetry loop and the routes that start an operation:
  authentication, dashboards and websockets only read.
* The connection pool and the SQLite fallback of `StorageBackend`: every module has
  the failing query, none its cause.
* `config/loader.py` and `rules.yaml`, `route_batch`, the 300 s window,
  health thresholds, partition statistics and the audit log of maintenance: no
  running process calls the first two, the others decide nothing.
* What the source adapter fetches: `Recovered` in `QualityEngine` is any set of
  events. In production its last fallback makes up one sound event per incident.
* The check and the write of `PipelineStateManager.transition_to` are one step.
* `last_error_rate`, messages, metrics and the wording of alerts.

## 6. Next

`PipelineStateManager.transition_to` as two steps, and the commands to Flink that
precede a transition (pipeline_service.py:147, :167), which `SelfHealing` takes as
one step. Of the hazards that no property covers, some are of this kind; the others
are what the code does, so that a property against them would be false of it.
`StreamIngest` over `SharedBreaker` instead of one breaker object, so that a consumer
evaluates a cached state. A contract for several processes that share a row, weaker than
`BreakerContract`, which `SharedBreaker` could implement with faults.
