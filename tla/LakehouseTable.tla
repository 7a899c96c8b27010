---------------------------- MODULE LakehouseTable ----------------------------
(***************************************************************************)
(* One Iceberg table and those who change it at the same time: the stream  *)
(* that appends to it, the lakehouse sink that appends healed events, and  *)
(* maintenance (compaction, snapshot expiry, orphan cleanup) started by    *)
(* the API or the command line. The catalog, external, commits a change    *)
(* only if the snapshot it was made from is still the current one. A file  *)
(* is written before the commit that makes it part of the table, so until  *)
(* then it looks like garbage; the safety buffer of the cleanup is all     *)
(* that protects it.                                                       *)
(***************************************************************************)
EXTENDS Integers, FiniteSets, FiniteSetsExt

CONSTANTS Batches,        \* healed batches given to write_events
          Maintainers,    \* threads and processes that run maintenance
          MaxRetries,     \* max_retries of the sink
          CompactRetries, \* max_retries of the compactor
          MinFiles,       \* min_file_count of the compaction
          Retain,         \* retain_last of the expiry
          SafetyBuffer,   \* safety_buffer_seconds all runs ask for, in ticks
          WriteTime,      \* environment: ticks between writing a file and committing it
          ScanTime,       \* environment: ticks the cleanup takes to collect references
          Operations,     \* what a run of maintenance may be asked for by the API
          Flags,          \* and on the command line
          DryRun,         \* values of dry_run
          ManifestErrors, \* environment: may a manifest be unreadable for a moment?
          MaxFiles, MaxStream, MaxCalls, MaxRuns, MaxFaults, MaxClock  \* bounds

ASSUME LakehouseConfig ==
  /\ {MaxRetries, CompactRetries} \subseteq Nat \ {0}
  /\ {MinFiles, Retain} \subseteq Nat \ {0}
  /\ {SafetyBuffer, WriteTime, ScanTime} \subseteq Nat
  /\ ManifestErrors \in BOOLEAN
  /\ Operations \cup Flags \subseteq SUBSET {"compact", "expire", "orphans"}
  /\ DryRun \subseteq BOOLEAN
  /\ "stream" \notin Batches
(* What the buffer is chosen for: a file is committed, and a scan is over,   *)
(* well within it. That is so of the hour it is by default; but the API      *)
(* takes any buffer from a minute on, and --orphan-safety-seconds of the     *)
(* script any number at all, which this assumption excludes.                 *)
ASSUME BufferIsAmple == WriteTime + ScanTime < SafetyBuffer

VARIABLES files,      \* the object store: each data file's rows and time, or absent
          snapshots,  \* the table's metadata: its snapshots, numbered as they came
          commits,    \* commits so far, which number the snapshots
          sink,       \* the thread inside write_events
          maint,      \* the maintenance runs
          now,        \* clock
          faults,     \* errors of catalog and store so far
          runs,       \* maintenance runs started
          appended,   \* history: the appends that were committed, by what they added
          calls, acked \* history: calls of write_events, and those that reported success

vars == <<files, snapshots, commits, sink, maint, now, faults, runs, appended, calls, acked>>
history == <<appended, calls, acked>>

Stream == "stream"
Sources == Batches \cup {Stream}
Files == 1..MaxFiles
Zero == [s \in Sources |-> 0]
Absent == [there |-> FALSE, rows |-> {}, at |-> 0]

Current == CHOOSE s \in snapshots : s.id = commits
Stored == {f \in Files : files[f].there}
Referenced == UNION {s.files : s \in snapshots}

(* What one append adds is a row, named by the data file it was written to   *)
(* first: two appends of a batch, as after a lost answer, are two rows.      *)
Rows(fs) == UNION {files[f].rows : f \in fs}

(* A name never used before: uuids in the code.                              *)
NewFile == CHOOSE f \in Files : files[f] = Absent
CanWrite == \E f \in Files : files[f] = Absent

NoSink == [pc |-> "idle", batch |-> Stream, base |-> 0, attempts |-> 0, file |-> 0]
NoRun == [pc |-> "idle", ops |-> {}, dry |-> FALSE, base |-> 0, attempts |-> 0, file |-> 0,
          rows |-> {}, comp |-> "none", failed |-> FALSE, set |-> {}, since |-> 0]

Init ==
  /\ files = [f \in Files |-> Absent]
  /\ snapshots = {[id |-> 0, files |-> {}]}
  /\ commits = 0
  /\ sink = NoSink
  /\ maint = [m \in Maintainers |-> NoRun]
  /\ now = 0 /\ faults = 0 /\ runs = 0
  /\ appended = [s \in Sources |-> {}] /\ calls = Zero /\ acked = Zero

-------------------------------------------------------------------------------
(* The catalog and the object store *)

WriteFile(f, rows) == files' = [files EXCEPT ![f] = [there |-> TRUE, rows |-> rows, at |-> now]]

Commit(fs) ==
  /\ snapshots' = snapshots \cup {[id |-> commits + 1, files |-> fs]}
  /\ commits' = commits + 1

Fault == faults < MaxFaults /\ faults' = faults + 1

(* The Flink job appends to the table, too.                                  *)
StreamAppend ==
  /\ Cardinality(appended[Stream]) < MaxStream
  /\ CanWrite
  /\ WriteFile(NewFile, {NewFile})
  /\ Commit(Current.files \cup {NewFile})
  /\ appended' = [appended EXCEPT ![Stream] = @ \cup {NewFile}]
  /\ UNCHANGED <<sink, maint, now, faults, runs, calls, acked>>

-------------------------------------------------------------------------------
(* IcebergLakehouseSink.write_events *)

WriteEvents(b) ==
  /\ sink.pc = "idle"
  /\ calls[b] < MaxCalls
  /\ calls' = [calls EXCEPT ![b] = @ + 1]
  /\ sink' = [NoSink EXCEPT !.pc = "write", !.batch = b, !.base = Current.id]
  /\ UNCHANGED <<files, snapshots, commits, maint, now, faults, runs, appended, acked>>

(* table.append, first half: the data file.                                  *)
AppendFile ==
  /\ sink.pc = "write"
  /\ CanWrite
  /\ WriteFile(NewFile, {NewFile})
  /\ sink' = [sink EXCEPT !.pc = "commit", !.attempts = @ + 1, !.file = NewFile]
  /\ UNCHANGED <<snapshots, commits, maint, now, faults, runs, history>>

(* Second half: the commit, refused if the table has moved on. Its answer    *)
(* may be lost.                                                              *)
AppendCommit ==
  /\ sink.pc = "commit"
  /\ IF sink.base = Current.id
     THEN /\ Commit(Current.files \cup {sink.file})
          /\ appended' = [appended EXCEPT ![sink.batch] = @ \cup {sink.file}]
          /\ \/ sink' = [sink EXCEPT !.pc = "refresh"] /\ UNCHANGED faults
             \/ sink' = [sink EXCEPT !.pc = "retry"] /\ Fault
     ELSE /\ sink' = [sink EXCEPT !.pc = "retry"]
          /\ UNCHANGED <<snapshots, commits, appended, faults>>
  /\ UNCHANGED <<files, maint, now, runs, calls, acked>>

(* A deviation: a call that runs out of attempts reports success as well.    *)
SinkDoneAnyway ==
  /\ \/ sink.pc = "refresh"
     \/ sink.pc = "retry" /\ sink.attempts >= MaxRetries
  /\ acked' = [acked EXCEPT ![sink.batch] = @ + 1]
  /\ sink' = NoSink
  /\ UNCHANGED <<files, snapshots, commits, maint, now, faults, runs, appended, calls>>

(* The refresh after the append succeeds, and the call reports success.      *)
SinkDone ==
  /\ sink.pc = "refresh"
  /\ acked' = [acked EXCEPT ![sink.batch] = @ + 1]
  /\ sink' = NoSink
  /\ UNCHANGED <<files, snapshots, commits, maint, now, faults, runs, appended, calls>>

MayRetry == sink.attempts < MaxRetries

(* Whatever failed, append or refresh: refresh and append again, or report   *)
(* failure.                                                                  *)
SinkRetry ==
  /\ sink.pc = "retry"
  /\ sink' = IF MayRetry THEN [sink EXCEPT !.pc = "write", !.base = Current.id] ELSE NoSink
  /\ UNCHANGED <<files, snapshots, commits, maint, now, faults, runs, history>>

(* An error of store or catalog: in the loop it costs an attempt, in the     *)
(* refresh before the next attempt it ends the call.                         *)
SinkError ==
  /\ sink.pc \in {"write", "refresh", "retry"}
  /\ Fault
  /\ sink' = CASE sink.pc = "write"   -> [sink EXCEPT !.pc = "retry", !.attempts = @ + 1]
               [] sink.pc = "refresh" -> [sink EXCEPT !.pc = "retry"]
               [] sink.pc = "retry"   -> NoSink
  /\ UNCHANGED <<files, snapshots, commits, maint, now, runs, history>>

-------------------------------------------------------------------------------
(* LakehouseMaintenanceService.run_table_maintenance: compaction, expiry and *)
(* orphan cleanup, each of them optional. comp is the outcome of the first,  *)
(* "none" also when it ended in an exception; failed is has_failure.         *)

SetMaint(m, r) ==
  /\ maint' = [maint EXCEPT ![m] = r]
  /\ UNCHANGED <<sink, now, runs, history>>

AfterExpiry(r) ==
  IF "orphans" \in r.ops /\ ~r.failed
  THEN [NoRun EXCEPT !.pc = "references", !.dry = r.dry] ELSE NoRun

AfterCompaction(r) ==
  IF "expire" \in r.ops /\ r.comp # "failed"
  THEN [NoRun EXCEPT !.pc = "expire", !.ops = r.ops, !.dry = r.dry, !.failed = r.failed]
  ELSE AfterExpiry(r)

Compacted(r) == AfterCompaction([r EXCEPT !.comp = "done"])
CompactionFailed(r) == AfterCompaction([r EXCEPT !.comp = "failed", !.failed = TRUE])

(* Only the cleanup is told that the run is a dry one.                       *)
RunTableMaintenance(m, ops, dry) ==
  /\ maint[m].pc = "idle"
  /\ runs < MaxRuns /\ runs' = runs + 1
  /\ LET r == [NoRun EXCEPT !.pc = "plan", !.ops = ops, !.dry = dry /\ "orphans" \in ops]
     IN  maint' = [maint EXCEPT ![m] = IF "compact" \in ops THEN r ELSE AfterCompaction(r)]
  /\ UNCHANGED <<files, snapshots, commits, sink, now, faults, history>>

(* scripts/iceberg/run_maintenance.py: without a flag it compacts and expires. *)
(* (--retain-last and --orphan-safety-seconds are Retain and SafetyBuffer.)    *)
Actions(flags) == IF flags = {} THEN {"compact", "expire"} ELSE flags

MaintenanceScript(m, flags, dry) == RunTableMaintenance(m, Actions(flags), dry)

(* TableCompactor.compact_table. Few files need no compaction.               *)
Plan(m) ==
  /\ maint[m].pc = "plan"
  /\ SetMaint(m, IF Cardinality(Current.files) < MinFiles THEN Compacted(maint[m])
                 ELSE [maint[m] EXCEPT !.pc = "read"])
  /\ UNCHANGED <<files, snapshots, commits, faults>>

(* Refresh, and read every row.                                              *)
ReadTable(m) ==
  /\ maint[m].pc = "read"
  /\ LET rows == Rows(Current.files)
     IN  SetMaint(m, IF rows = {} THEN Compacted(maint[m])
                     ELSE [maint[m] EXCEPT !.pc = "rewrite", !.base = Current.id,
                                           !.attempts = @ + 1, !.rows = rows])
  /\ UNCHANGED <<files, snapshots, commits, faults>>

RewriteFile(m) ==
  /\ maint[m].pc = "rewrite"
  /\ CanWrite
  /\ WriteFile(NewFile, maint[m].rows)
  /\ SetMaint(m, [maint[m] EXCEPT !.pc = "overwrite", !.file = NewFile])
  /\ UNCHANGED <<snapshots, commits, faults>>

(* A deviation: the overwrite replaces whatever the table holds by now.      *)
OverwriteBlindly(m) ==
  /\ maint[m].pc = "overwrite"
  /\ Commit({maint[m].file})
  /\ SetMaint(m, [maint[m] EXCEPT !.pc = "verify"])
  /\ UNCHANGED <<files, faults>>

(* Only a conflict is tried again; a lost answer, like any other error, ends *)
(* the compaction.                                                           *)
Overwrite(m) ==
  /\ maint[m].pc = "overwrite"
  /\ IF maint[m].base = Current.id
     THEN /\ Commit({maint[m].file})
          /\ \/ SetMaint(m, [maint[m] EXCEPT !.pc = "verify"]) /\ UNCHANGED faults
             \/ SetMaint(m, CompactionFailed(maint[m])) /\ Fault
     ELSE /\ SetMaint(m, IF maint[m].attempts < CompactRetries
                         THEN [maint[m] EXCEPT !.pc = "read"]
                         ELSE CompactionFailed(maint[m]))
          /\ UNCHANGED <<snapshots, commits, faults>>
  /\ UNCHANGED files

(* The record count after it, of a table others may have added to.           *)
Verify(m) ==
  /\ maint[m].pc = "verify"
  /\ SetMaint(m, IF Cardinality(Rows(Current.files)) = Cardinality(maint[m].rows)
                 THEN Compacted(maint[m]) ELSE CompactionFailed(maint[m]))
  /\ UNCHANGED <<files, snapshots, commits, faults>>

Newer(s) == {t \in snapshots : t.id > s.id}

(* A deviation: the newest snapshots are counted one short.                  *)
CandidatesOneMore ==
  {s.id : s \in {x \in snapshots : Cardinality(Newer(x)) + 1 >= Retain}} \ {Current.id}

(* expire_snapshots: all but the newest, and never the current one.          *)
Candidates ==
  {s.id : s \in {x \in snapshots : Cardinality(Newer(x)) >= Retain}} \ {Current.id}

Expire(m) ==
  /\ maint[m].pc = "expire"
  /\ SetMaint(m, IF Candidates = {} THEN AfterExpiry(maint[m])
                 ELSE [maint[m] EXCEPT !.pc = "expiring", !.set = Candidates])
  /\ UNCHANGED <<files, snapshots, commits, faults>>

(* One commit per snapshot, oldest first; an error is logged and skipped.    *)
ExpireOne(m) ==
  /\ maint[m].pc = "expiring"
  /\ LET r    == maint[m]
         id   == Min(r.set)
         rest == [r EXCEPT !.set = @ \ {id}]
     IN  /\ \/ snapshots' = {s \in snapshots : s.id # id} /\ UNCHANGED faults
            \/ Fault /\ UNCHANGED snapshots
         /\ SetMaint(m, IF rest.set = {} THEN AfterExpiry(rest) ELSE rest)
  /\ UNCHANGED <<files, commits>>

(* cleanup_orphan_files. A manifest that cannot be read is logged at debug   *)
(* level, and its files are missing from the references.                     *)
CollectReferences(m) ==
  /\ maint[m].pc = "references"
  /\ \E unread \in IF ManifestErrors THEN SUBSET Referenced ELSE {{}} :
       SetMaint(m, [maint[m] EXCEPT !.pc = "list", !.set = Referenced \ unread, !.since = now])
  /\ UNCHANGED <<files, snapshots, commits, faults>>

(* A deviation: a file just a tick too young is taken as well.               *)
OrphansEarly(refs) == {f \in Stored \ refs : now - files[f].at >= SafetyBuffer - 1}

Orphans(refs) == {f \in Stored \ refs : now - files[f].at >= SafetyBuffer}

ListOrphans(m) ==
  /\ maint[m].pc = "list"
  /\ SetMaint(m, [maint[m] EXCEPT !.pc = "delete", !.set = Orphans(maint[m].set)])
  /\ UNCHANGED <<files, snapshots, commits, faults>>

(* A dry run deletes nothing; an error of the store is logged only.          *)
DeleteOrphans(m) ==
  /\ maint[m].pc = "delete"
  /\ \/ ~maint[m].dry
        /\ files' = [f \in Files |-> IF f \in maint[m].set THEN [files[f] EXCEPT !.there = FALSE]
                                  ELSE files[f]]
        /\ UNCHANGED faults
     \/ maint[m].dry /\ UNCHANGED <<files, faults>>
     \/ ~maint[m].dry /\ Fault /\ UNCHANGED files
  /\ SetMaint(m, NoRun)
  /\ UNCHANGED <<snapshots, commits>>

(* Any other error: in compact_table before its loop, and in expiry and      *)
(* cleanup, the coordinator catches it; in the loop it fails the compaction. *)
MaintError(m) ==
  /\ maint[m].pc \in {"plan", "read", "rewrite", "verify", "expire", "references", "list"}
  /\ Fault
  /\ LET r == [maint[m] EXCEPT !.failed = TRUE]
     IN  SetMaint(m, CASE r.pc = "plan"                 -> AfterCompaction(r)
                       [] r.pc \in {"read", "rewrite", "verify"} -> CompactionFailed(r)
                       [] r.pc \in {"expire", "references", "list"} -> AfterExpiry(r))
  /\ UNCHANGED <<files, snapshots, commits>>

Maintain(m) ==
  \/ Plan(m) \/ ReadTable(m) \/ RewriteFile(m) \/ Overwrite(m) \/ Verify(m)
  \/ Expire(m) \/ ExpireOne(m)
  \/ CollectReferences(m) \/ ListOrphans(m) \/ DeleteOrphans(m) \/ MaintError(m)

-------------------------------------------------------------------------------

(* Time waits for a writer between its file and its commit, and for a scan.  *)
Tick ==
  /\ now < MaxClock /\ now' = now + 1
  /\ sink.pc = "commit" => now < files[sink.file].at + WriteTime
  /\ \A m \in Maintainers :
       /\ maint[m].pc = "overwrite" => now < files[maint[m].file].at + WriteTime
       /\ maint[m].pc = "list" => now < maint[m].since + ScanTime
  /\ UNCHANGED <<files, snapshots, commits, sink, maint, faults, runs, history>>

Next ==
  \/ StreamAppend
  \/ \E b \in Batches : WriteEvents(b)
  \/ AppendFile \/ AppendCommit \/ SinkDone \/ SinkRetry \/ SinkError
  \/ \E m \in Maintainers, dry \in DryRun :
       \/ \E ops \in Operations : RunTableMaintenance(m, ops, dry)
       \/ \E flags \in Flags : MaintenanceScript(m, flags, dry)
  \/ \E m \in Maintainers : Maintain(m)
  \/ Tick

Spec == Init /\ [][Next]_vars

-------------------------------------------------------------------------------

TypeOK ==
  /\ files \in [Files -> [there : BOOLEAN, rows : SUBSET Files, at : Nat]]
  /\ snapshots \subseteq [id : 0..commits, files : SUBSET Files]
  /\ sink.pc \in {"idle", "write", "commit", "refresh", "retry"}
  /\ sink.attempts \in 0..MaxRetries
  /\ \A m \in Maintainers : maint[m].attempts \in 0..CompactRetries

(* The current snapshot holds every append that was committed, and once:     *)
(* compaction, whose read and overwrite are apart, neither drops what the    *)
(* stream and the sink add meanwhile nor doubles it.                         *)
TableHoldsEveryAppend ==
  /\ Rows(Current.files) = UNION {appended[s] : s \in Sources}
  /\ \A f, g \in Current.files : f # g => files[f].rows \cap files[g].rows = {}

(* No file of a retained snapshot is ever deleted, however writes, expiry    *)
(* and cleanup overlap: the buffer covers a file written before the          *)
(* references were collected and committed after.                            *)
LiveFilesExist == Referenced \subseteq Stored

(* A write_events that reported success has appended, and one that was       *)
(* repeated inside, after a refresh or an answer was lost, has appended at   *)
(* most once per attempt.                                                    *)
SinkCounts ==
  \A b \in Batches : /\ acked[b] <= Cardinality(appended[b])
                     /\ Cardinality(appended[b]) <= calls[b] * MaxRetries

(* What expiry removes was not among the newest at that moment, although it  *)
(* chose its candidates earlier: others only add to the table.               *)
NewestRetained ==
  [][\A s \in snapshots : Cardinality(Newer(s)) < Retain => s \in snapshots']_vars

(* To its readers the table is the one of TableContract: whatever files,     *)
(* conflicts, retries and overlapping runs it is made of, each step is one   *)
(* append, an expiry, or nothing.                                            *)
Table == INSTANCE TableContract WITH
  Row <- Files,
  rows <- Rows(Current.files),
  versions <- {Rows(s.files) : s \in snapshots}
ImplementsTable == Table!Spec
===============================================================================
