-------------------------- MODULE LakehouseTableProofs --------------------------
(***************************************************************************)
(* Proofs about LakehouseTable, for any batches, maintenance runs, retries,*)
(* times and bounds. The invariants come in layers, each proved with the   *)
(* help of those before it: the types and the snapshots with what expiry   *)
(* has chosen among them; the data files, which the safety buffer protects *)
(* (for a cleanup that can read every manifest); the rows of the table;    *)
(* and what the sink counts.                                               *)
(***************************************************************************)
EXTENDS LakehouseTable, FiniteSetTheorems, WellFoundedInduction, TLAPS

Ops == {"compact", "expire", "orphans"}

SinkStates == [pc : {"idle", "write", "commit", "refresh", "retry"}, batch : Sources,
               base : Nat, attempts : Nat, file : {0} \cup Files]

Run == [pc : {"idle", "plan", "read", "rewrite", "overwrite", "verify", "expire", "expiring",
              "references", "list", "delete"},
        ops : SUBSET Ops, dry : BOOLEAN, base : Nat, attempts : Nat, file : {0} \cup Files,
        rows : SUBSET Files, comp : {"none", "done", "failed"}, failed : BOOLEAN,
        set : SUBSET Nat, since : Nat]

Typed ==
  /\ TypeOK
  /\ commits \in Nat /\ now \in Nat
  /\ sink \in SinkStates
  /\ sink.pc # "idle" => sink.batch \in Batches
  /\ sink.pc = "write" => sink.attempts < MaxRetries
  /\ sink.pc = "commit" => sink.file \in Files
  /\ maint \in [Maintainers -> Run]
  /\ \A m \in Maintainers :
       /\ maint[m].pc \in {"plan", "read"} => maint[m].attempts < CompactRetries
       /\ maint[m].pc = "overwrite" => maint[m].file \in Files
  /\ appended \in [Sources -> SUBSET Files]
  /\ calls \in [Sources -> Nat] /\ acked \in [Sources -> Nat]

(* Snapshots have numbers of their own, and the last one committed is there.  *)
SnapshotsFit ==
  /\ IsFiniteSet(snapshots)
  /\ \A s, t \in snapshots : s.id = t.id => s = t
  /\ \E s \in snapshots : s.id = commits

(* What an expiry still has to remove is not among the newest, nor current.   *)
ExpiryFits(m) ==
  maint[m].pc = "expiring" =>
    /\ maint[m].set # {}
    /\ \A id \in maint[m].set : id < commits
    /\ \A s \in snapshots : s.id \in maint[m].set => Cardinality(Newer(s)) >= Retain

SnapshotInv ==
  /\ Typed
  /\ SnapshotsFit
  /\ \A m \in Maintainers : ExpiryFits(m)

(* Files that held a row at any time; nothing is written to one again.        *)
Used == {f \in Files : files[f].rows # {}}

(* Files written and not committed yet.                                       *)
Pending ==
  {f \in Files : \/ sink.pc = "commit" /\ sink.file = f
                 \/ \E m \in Maintainers : maint[m].pc = "overwrite" /\ maint[m].file = f}

(* What a cleanup must not delete.                                            *)
Needed == Referenced \cup Pending

(* A file that a scan has missed was committed since, so it is young; and of  *)
(* what a cleanup deletes nothing is needed, nor will be.                     *)
CleanupFits(m) ==
  LET r == maint[m]
  IN  /\ r.pc = "list" =>
           /\ r.since <= now /\ now <= r.since + ScanTime
           /\ \A f \in Needed : f \in r.set \/ r.since <= files[f].at + WriteTime
      /\ r.pc = "delete" => r.set \subseteq Used \ Needed

FilesInv ==
  /\ \A f \in Files : files[f].at <= now
  /\ Needed \subseteq Stored /\ Stored \subseteq Used
  /\ \A f \in Pending : now <= files[f].at + WriteTime
  /\ \A m \in Maintainers : maint[m].pc = "rewrite" => maint[m].rows # {}
  /\ \A m \in Maintainers : CleanupFits(m)

(* Every append that was committed, by the file that held it first.           *)
Added == UNION {appended[s] : s \in Sources}

(* No file of the table, or about to be, has its name given away; the sink    *)
(* commits a file of its own; and a compaction that can still commit has the  *)
(* rows of the table in its hands.                                            *)
SinkRowsFit ==
  sink.pc = "commit" => files[sink.file].rows = {sink.file} /\ sink.file \notin Added

RunRowsFit(m) ==
  LET r == maint[m]
  IN  /\ r.pc = "rewrite" => r.rows # {}
      /\ r.pc \in {"rewrite", "overwrite"} =>
           r.base <= commits /\ (r.base = commits => r.rows = Rows(Current.files))
      /\ r.pc = "overwrite" => files[r.file].rows = r.rows

RowsInv ==
  /\ TableHoldsEveryAppend
  /\ Needed \subseteq Used /\ Added \subseteq Used
  /\ SinkRowsFit
  /\ \A m \in Maintainers : RunRowsFit(m)

(* Appends of a batch by its calls: the calls that ended used up their        *)
(* attempts at most, the one under way those it has made, and one that is     *)
(* about to report success has appended something that is not reported yet.   *)
Earlier(b) == IF sink.pc # "idle" /\ sink.batch = b THEN calls[b] - 1 ELSE calls[b]
Attempts(b) ==
  IF sink.pc = "idle" \/ sink.batch # b THEN 0
  ELSE IF sink.pc = "commit" THEN sink.attempts - 1 ELSE sink.attempts

CountsFit(b) ==
  /\ IsFiniteSet(appended[b])
  /\ Earlier(b) \in Nat
  /\ Cardinality(appended[b]) <= Earlier(b) * MaxRetries + Attempts(b)
  /\ acked[b] <= Cardinality(appended[b])
  /\ sink.pc = "refresh" /\ sink.batch = b => acked[b] < Cardinality(appended[b])

CountInv ==
  /\ sink.pc = "commit" => sink.attempts > 0
  /\ \A b \in Batches : CountsFit(b)
-------------------------------------------------------------------------------

(* A data file gets a name that was never used.                               *)
LEMMA NewFileFacts == ASSUME CanWrite PROVE NewFile \in Files /\ files[NewFile] = Absent
BY DEF CanWrite, NewFile

(* Where a run goes after a stage: to the next one it was asked for, afresh.  *)
LEMMA StageFits ==
  ASSUME NEW r \in Run,
         NEW n \in {AfterExpiry(r), AfterCompaction(r), Compacted(r), CompactionFailed(r)}
  PROVE  n \in Run /\ n.pc \in {"idle", "expire", "references"} /\ n.attempts = 0
<1>1. NoRun \in Run /\ NoRun.pc = "idle" /\ NoRun.attempts = 0
  BY DEF NoRun, Run
<1>2. ASSUME NEW q \in Run
      PROVE  /\ AfterExpiry(q) \in Run /\ AfterExpiry(q).pc \in {"idle", "references"}
             /\ AfterExpiry(q).attempts = 0
  BY <1>1 DEF AfterExpiry, Run, NoRun
<1>3. ASSUME NEW q \in Run
      PROVE  /\ AfterCompaction(q) \in Run /\ AfterCompaction(q).attempts = 0
             /\ AfterCompaction(q).pc \in {"idle", "expire", "references"}
  <2> DEFINE e == [NoRun EXCEPT !.pc = "expire", !.ops = q.ops, !.dry = q.dry, !.failed = q.failed]
  <2>1. e \in Run /\ e.pc = "expire" /\ e.attempts = 0
    BY <1>1 DEF Run, NoRun
  <2>2. AfterCompaction(q) \in {e, AfterExpiry(q)}
    BY DEF AfterCompaction
  <2> QED
    BY <1>2, <2>1, <2>2
<1>4. [r EXCEPT !.comp = "done"] \in Run /\ [r EXCEPT !.comp = "failed", !.failed = TRUE] \in Run
  BY DEF Run
<1> QED
  BY <1>2, <1>3, <1>4 DEF Compacted, CompactionFailed

FileTable == [Files -> [there : BOOLEAN, rows : SUBSET Files, at : Nat]]
Metadata(n) == [id : 0..n, files : SUBSET Files]

(* A step of a maintenance run, as far as types go.                           *)
LEMMA RunTyped ==
  ASSUME Typed, NEW m \in Maintainers, NEW r \in Run,
         maint' = [maint EXCEPT ![m] = r], UNCHANGED <<sink, now, history>>,
         r.attempts <= CompactRetries,
         r.pc \in {"plan", "read"} => r.attempts < CompactRetries,
         r.pc = "overwrite" => r.file \in Files,
         files' \in FileTable, commits' \in Nat, snapshots' \subseteq Metadata(commits')
  PROVE  Typed'
<1>1. /\ maint' \in [Maintainers -> Run] /\ maint'[m] = r
      /\ \A n \in Maintainers \ {m} : maint'[n] = maint[n]
  BY DEF Typed
<1>2. \A n \in Maintainers : maint'[n].attempts \in 0..CompactRetries
  <2>1. r.attempts \in Nat /\ CompactRetries \in Nat
    BY LakehouseConfig DEF Run
  <2> QED
    BY <1>1, <2>1 DEF Typed, TypeOK
<1>3. TypeOK'
  BY <1>2 DEF Typed, TypeOK, FileTable, Metadata
<1> QED
  BY <1>1, <1>3 DEF Typed, history

(* A step of the sink.                                                        *)
LEMMA SinkTyped ==
  ASSUME Typed, NEW r \in SinkStates, sink' = r, UNCHANGED <<maint, now>>,
         r.pc # "idle" => r.batch \in Batches,
         r.attempts <= MaxRetries, r.pc = "write" => r.attempts < MaxRetries,
         r.pc = "commit" => r.file \in Files,
         files' \in FileTable, commits' \in Nat, snapshots' \subseteq Metadata(commits'),
         appended' \in [Sources -> SUBSET Files],
         calls' \in [Sources -> Nat], acked' \in [Sources -> Nat]
  PROVE  Typed'
<1>1. sink'.attempts \in 0..MaxRetries
  BY LakehouseConfig DEF SinkStates
<1>2. TypeOK'
  BY <1>1 DEF Typed, TypeOK, FileTable, Metadata, SinkStates
<1> QED
  BY <1>2 DEF Typed

(* What the store's own operations, writing a file and committing a snapshot, *)
(* do to the types.                                                           *)
LEMMA StoreTyped ==
  ASSUME Typed
  PROVE  /\ files \in FileTable /\ snapshots \subseteq Metadata(commits)
         /\ \A fs \in SUBSET Files, f \in Files, rows \in SUBSET Files :
              /\ WriteFile(f, rows) => files' \in FileTable
              /\ Commit(fs) => commits' \in Nat /\ snapshots' \subseteq Metadata(commits')
         /\ Rows(Files) \subseteq Files
<1>1. files \in FileTable /\ snapshots \subseteq Metadata(commits) /\ commits \in Nat
  BY DEF Typed, TypeOK, FileTable, Metadata
<1>2. ASSUME NEW f \in Files, NEW rows \in SUBSET Files, WriteFile(f, rows)
      PROVE  files' \in FileTable
  BY <1>1, <1>2 DEF WriteFile, FileTable, Typed
<1>3. ASSUME NEW fs \in SUBSET Files, Commit(fs)
      PROVE  commits' \in Nat /\ snapshots' \subseteq Metadata(commits')
  <2>1. commits' = commits + 1 /\ snapshots' = snapshots \cup {[id |-> commits + 1, files |-> fs]}
    BY <1>3 DEF Commit
  <2>2. commits' \in Nat /\ 0..commits \subseteq 0..commits' /\ commits + 1 \in 0..commits'
    BY <1>1, <2>1
  <2>3. Metadata(commits) \subseteq Metadata(commits')
    BY <2>2 DEF Metadata
  <2>4. [id |-> commits + 1, files |-> fs] \in Metadata(commits')
    BY <2>2 DEF Metadata
  <2> QED
    BY <1>1, <2>1, <2>2, <2>3, <2>4
<1>4. Rows(Files) \subseteq Files
  BY <1>1 DEF Rows, FileTable
<1> QED
  BY <1>1, <1>2, <1>3, <1>4

(* The current snapshot is the one with the number of the last commit.        *)
LEMMA CurrentFacts ==
  ASSUME Typed, SnapshotsFit
  PROVE  /\ Current \in snapshots /\ Current.id = commits
         /\ Current.files \in SUBSET Files
         /\ \A s \in snapshots : s.id \in 0..commits /\ s.files \subseteq Files
<1>1. Current \in snapshots /\ Current.id = commits
  BY DEF SnapshotsFit, Current
<1>2. \A s \in snapshots : s.id \in 0..commits /\ s.files \subseteq Files
  BY DEF Typed, TypeOK
<1> QED
  BY <1>1, <1>2

(* The steps of the sink, with its retries, keep the types.                   *)
LEMMA SinkSteps ==
  ASSUME Typed, SnapshotsFit,
         \/ StreamAppend \/ (\E b \in Batches : WriteEvents(b))
         \/ AppendFile \/ AppendCommit \/ SinkDone \/ SinkRetry \/ SinkError
  PROVE  Typed'
<1>1. /\ sink \in SinkStates /\ sink.attempts \in 0..MaxRetries /\ MaxRetries \in Nat \ {0}
      /\ sink.pc # "idle" => sink.batch \in Batches
      /\ commits \in Nat /\ Batches \subseteq Sources /\ Stream \in Sources
      /\ appended \in [Sources -> SUBSET Files]
      /\ calls \in [Sources -> Nat] /\ acked \in [Sources -> Nat]
  BY LakehouseConfig DEF Typed, TypeOK, Sources
<1>2. /\ files \in FileTable /\ snapshots \subseteq Metadata(commits)
      /\ Current.id = commits /\ Current.files \in SUBSET Files
      /\ \A fs \in SUBSET Files, f \in Files, rows \in SUBSET Files :
           /\ WriteFile(f, rows) => files' \in FileTable
           /\ Commit(fs) => commits' \in Nat /\ snapshots' \subseteq Metadata(commits')
  BY StoreTyped, CurrentFacts
<1>3. NoSink \in SinkStates /\ NoSink.pc = "idle" /\ NoSink.attempts = 0 /\ Zero \in [Sources -> Nat]
  BY <1>1 DEF NoSink, SinkStates, Zero
<1>4. \A s \in Sources, f \in Files : [appended EXCEPT ![s] = @ \cup {f}] \in [Sources -> SUBSET Files]
  BY <1>1
<1>5. \A b \in Sources : /\ [calls EXCEPT ![b] = @ + 1] \in [Sources -> Nat]
                         /\ [acked EXCEPT ![b] = @ + 1] \in [Sources -> Nat]
  BY <1>1
<1>6. CASE StreamAppend
  <2>1. /\ NewFile \in Files /\ {NewFile} \in SUBSET Files
        /\ Current.files \cup {NewFile} \in SUBSET Files
        /\ WriteFile(NewFile, {NewFile}) /\ Commit(Current.files \cup {NewFile})
        /\ appended' = [appended EXCEPT ![Stream] = @ \cup {NewFile}]
        /\ UNCHANGED <<sink, maint, now, calls, acked>>
    BY <1>2, <1>6, NewFileFacts DEF StreamAppend
  <2>2. /\ files' \in FileTable /\ commits' \in Nat /\ snapshots' \subseteq Metadata(commits')
        /\ appended' \in [Sources -> SUBSET Files]
    BY <1>1, <1>2, <1>4, <2>1
  <2> QED
    BY <1>1, <2>1, <2>2, SinkTyped DEF Typed
<1>7. CASE \E b \in Batches : WriteEvents(b)
  <2>1. PICK b \in Batches : WriteEvents(b)
    BY <1>7
  <2> DEFINE r == [NoSink EXCEPT !.pc = "write", !.batch = b, !.base = Current.id]
  <2>2. r \in SinkStates /\ r.pc = "write" /\ r.batch = b /\ r.attempts = 0
    BY <1>1, <1>2, <1>3 DEF SinkStates
  <2>3. /\ sink' = r /\ calls' = [calls EXCEPT ![b] = @ + 1]
        /\ UNCHANGED <<files, snapshots, commits, maint, now, appended, acked>>
    BY <2>1 DEF WriteEvents
  <2> HIDE DEF r
  <2> QED
    BY <1>1, <1>2, <1>5, <2>2, <2>3, SinkTyped
<1>8. CASE AppendFile
  <2> DEFINE r == [sink EXCEPT !.pc = "commit", !.attempts = @ + 1, !.file = NewFile]
  <2>1. /\ NewFile \in Files /\ {NewFile} \in SUBSET Files
        /\ WriteFile(NewFile, {NewFile}) /\ sink.pc = "write"
        /\ sink' = r /\ UNCHANGED <<snapshots, commits, maint, now, history>>
    BY <1>8, NewFileFacts DEF AppendFile
  <2>2. /\ sink.attempts + 1 \in Nat /\ sink.attempts + 1 <= MaxRetries
    <3>1. sink.attempts < MaxRetries /\ sink.attempts \in Nat
      BY <1>1, <2>1 DEF Typed
    <3> QED
      BY <1>1, <3>1
  <2>3. \A n \in Nat : LET q == [sink EXCEPT !.pc = "commit", !.attempts = n, !.file = NewFile]
                       IN  /\ q \in SinkStates /\ q.pc = "commit" /\ q.batch = sink.batch
                           /\ q.attempts = n /\ q.file = NewFile
    BY <1>1, <2>1 DEF SinkStates
  <2>4. r = [sink EXCEPT !.pc = "commit", !.attempts = sink.attempts + 1, !.file = NewFile]
    BY <1>1 DEF SinkStates
  <2>5. /\ r \in SinkStates /\ r.pc = "commit" /\ r.batch = sink.batch /\ r.file = NewFile
        /\ r.attempts <= MaxRetries
    BY <2>2, <2>3, <2>4
  <2> HIDE DEF r
  <2> QED
    BY <1>1, <1>2, <2>1, <2>5, SinkTyped DEF history
<1>9. ASSUME NEW pc \in {"refresh", "retry"}, sink.pc # "idle", sink' = [sink EXCEPT !.pc = pc],
             UNCHANGED <<files, maint, now, calls, acked>>,
             commits' \in Nat, snapshots' \subseteq Metadata(commits'),
             appended' \in [Sources -> SUBSET Files]
      PROVE  Typed'
  <2> DEFINE r == [sink EXCEPT !.pc = pc]
  <2>1. r \in SinkStates /\ r.pc = pc /\ r.batch = sink.batch /\ r.attempts = sink.attempts
    BY <1>1 DEF SinkStates
  <2>2. sink' = r
    BY <1>9
  <2> HIDE DEF r
  <2> QED
    BY <1>1, <1>2, <1>9, <2>1, <2>2, SinkTyped
<1>10. CASE AppendCommit
  <2>1. sink.pc = "commit" /\ sink.file \in Files /\ Current.files \cup {sink.file} \in SUBSET Files
    BY <1>2, <1>10 DEF AppendCommit, Typed
  <2>2. CASE sink.base = Current.id
    <3>1. Commit(Current.files \cup {sink.file})
          /\ appended' = [appended EXCEPT ![sink.batch] = @ \cup {sink.file}]
          /\ \E pc \in {"refresh", "retry"} : sink' = [sink EXCEPT !.pc = pc]
          /\ UNCHANGED <<files, maint, now, calls, acked>>
      BY <1>10, <2>2 DEF AppendCommit
    <3> QED
      BY <1>1, <1>2, <1>4, <1>9, <2>1, <3>1
  <2>3. CASE sink.base # Current.id
    BY <1>1, <1>2, <1>9, <1>10, <2>1, <2>3 DEF AppendCommit
  <2> QED
    BY <2>2, <2>3
<1>11. ASSUME sink' = NoSink, UNCHANGED <<files, snapshots, commits, maint, now, appended, calls>>,
              acked' \in [Sources -> Nat]
       PROVE  Typed'
  BY <1>1, <1>2, <1>3, <1>11, SinkTyped
<1>12. CASE SinkDone
  BY <1>1, <1>5, <1>11, <1>12 DEF SinkDone
<1>13. CASE SinkRetry
  <2> DEFINE r == [sink EXCEPT !.pc = "write", !.base = Current.id]
  <2>1. /\ sink.pc = "retry" /\ UNCHANGED <<files, snapshots, commits, maint, now, history>>
    BY <1>13 DEF SinkRetry
  <2>2. CASE sink' = r /\ MayRetry
    <3>1. /\ r \in SinkStates /\ r.pc = "write" /\ r.batch = sink.batch
          /\ r.attempts = sink.attempts
      BY <1>1, <1>2 DEF SinkStates
    <3> HIDE DEF r
    <3> QED
      BY <1>1, <1>2, <2>1, <2>2, <3>1, SinkTyped DEF MayRetry, history
  <2>3. CASE sink' = NoSink
    BY <1>1, <1>11, <2>1, <2>3 DEF history
  <2> QED
    BY <1>13, <2>2, <2>3 DEF SinkRetry
<1>14. CASE SinkError
  <2>1. UNCHANGED <<files, snapshots, commits, maint, now, appended, calls, acked>>
    BY <1>14 DEF SinkError, history
  <2>2. CASE sink.pc = "write"
    <3> DEFINE r == [sink EXCEPT !.pc = "retry", !.attempts = @ + 1]
    <3>1. sink' = r
      BY <1>14, <2>2 DEF SinkError
    <3>2. sink.attempts + 1 \in Nat /\ sink.attempts + 1 <= MaxRetries
      <4>1. sink.attempts < MaxRetries /\ sink.attempts \in Nat
        BY <1>1, <2>2 DEF Typed
      <4> QED
        BY <1>1, <4>1
    <3>3. \A n \in Nat : LET q == [sink EXCEPT !.pc = "retry", !.attempts = n]
                         IN  /\ q \in SinkStates /\ q.pc = "retry" /\ q.batch = sink.batch
                             /\ q.attempts = n
      BY <1>1 DEF SinkStates
    <3>4. r = [sink EXCEPT !.pc = "retry", !.attempts = sink.attempts + 1]
      BY <1>1 DEF SinkStates
    <3>5. /\ r \in SinkStates /\ r.pc = "retry" /\ r.batch = sink.batch
          /\ r.attempts <= MaxRetries
      BY <3>2, <3>3, <3>4
    <3> HIDE DEF r
    <3> QED
      BY <1>1, <1>2, <2>1, <2>2, <3>1, <3>5, SinkTyped
  <2>3. CASE sink.pc = "refresh"
    BY <1>1, <1>2, <1>9, <1>14, <2>1, <2>3 DEF SinkError
  <2>4. CASE sink.pc = "retry"
    BY <1>1, <1>11, <1>14, <2>1, <2>4 DEF SinkError
  <2> QED
    BY <1>14, <2>2, <2>3, <2>4 DEF SinkError
<1> QED
  BY <1>6, <1>7, <1>8, <1>10, <1>12, <1>13, <1>14
-------------------------------------------------------------------------------

(* The steps of a maintenance run by what they do to the table.               *)
Quiet == {"idle", "plan", "read", "verify", "expire", "references"}

GoesOn(m) == maint'[m].pc \in Quiet /\ UNCHANGED <<files, snapshots, commits>>

TakesRows(m) ==
  /\ UNCHANGED <<files, snapshots, commits>>
  /\ maint'[m].pc = "rewrite" /\ maint'[m].base = commits
  /\ maint'[m].rows = Rows(Current.files) /\ maint'[m].rows # {}

WritesRows(m) ==
  /\ maint[m].pc = "rewrite" /\ maint'[m].pc = "overwrite"
  /\ CanWrite /\ WriteFile(NewFile, maint[m].rows)
  /\ maint'[m].file = NewFile /\ maint'[m].rows = maint[m].rows /\ maint'[m].base = maint[m].base
  /\ UNCHANGED <<snapshots, commits>>

CommitsRows(m) ==
  /\ maint[m].pc = "overwrite" /\ maint[m].base = commits /\ maint'[m].pc \in Quiet
  /\ Commit({maint[m].file}) /\ UNCHANGED files

ChoosesSnapshots(m) ==
  /\ maint'[m].pc = "expiring" /\ maint'[m].set = Candidates /\ Candidates # {}
  /\ UNCHANGED <<files, snapshots, commits>>

ExpiresOne(m) ==
  /\ maint[m].pc = "expiring" /\ UNCHANGED <<files, commits>>
  /\ \E id \in maint[m].set :
       /\ snapshots' \in {snapshots, {s \in snapshots : s.id # id}}
       /\ \/ maint'[m].pc \in Quiet
          \/ /\ maint'[m].pc = "expiring" /\ maint'[m].set = maint[m].set \ {id}
             /\ maint'[m].set # {}

TakesReferences(m) ==
  /\ maint'[m].pc = "list" /\ maint'[m].since = now
  /\ ~ManifestErrors => maint'[m].set = Referenced
  /\ UNCHANGED <<files, snapshots, commits>>

ChoosesOrphans(m) ==
  /\ maint[m].pc = "list" /\ maint'[m].pc = "delete" /\ maint'[m].set = Orphans(maint[m].set)
  /\ UNCHANGED <<files, snapshots, commits>>

DeletesSome(m) ==
  /\ maint[m].pc = "delete" /\ maint'[m].pc \in Quiet
  /\ \/ files' = [f \in Files |-> IF f \in maint[m].set THEN [files[f] EXCEPT !.there = FALSE]
                                  ELSE files[f]]
     \/ UNCHANGED files
  /\ UNCHANGED <<snapshots, commits>>

Moves(m) ==
  \/ GoesOn(m) \/ TakesRows(m) \/ WritesRows(m) \/ CommitsRows(m)
  \/ ChoosesSnapshots(m) \/ ExpiresOne(m)
  \/ TakesReferences(m) \/ ChoosesOrphans(m) \/ DeletesSome(m)

(* A step of run m, and of nobody else.                                       *)
Alone(m) ==
  /\ UNCHANGED <<sink, now, history>>
  /\ \A n \in Maintainers \ {m} : maint'[n] = maint[n]

(* A set of numbers has a least one: the oldest snapshot that is left.        *)
LEMMA LeastNumber == ASSUME NEW S \in SUBSET Nat, S # {} PROVE Min(S) \in S
<1> DEFINE R == OpToRel(<, Nat)
<1>1. PICK x \in S : \A y \in S : ~ (<<y, x>> \in R)
  <2>1. IsWellFoundedOn(R, Nat)
    BY NatLessThanWellFounded
  <2> HIDE DEF R
  <2> QED
    BY <2>1, WFMin
<1>2. \A y \in S : ~(y < x)
  BY <1>1 DEF OpToRel
<1>3. \A y \in S : x <= y
  BY <1>2
<1> QED
  BY <1>3 DEF Min

(* Each step of a maintenance run keeps the types, moves this run alone, and  *)
(* is one of the moves that the invariants are proved from.                   *)
LEMMA MaintSteps ==
  ASSUME SnapshotInv, NEW m \in Maintainers,
         \/ Maintain(m)
         \/ \E ops \in Operations, dry \in DryRun : RunTableMaintenance(m, ops, dry)
         \/ \E flags \in Flags, dry \in DryRun : MaintenanceScript(m, flags, dry)
  PROVE  Typed' /\ Alone(m) /\ Moves(m)
<1> DEFINE run == maint[m]
<1>1. /\ Typed /\ SnapshotsFit /\ run \in Run /\ commits \in Nat /\ now \in Nat
      /\ run.pc \in {"plan", "read"} => run.attempts < CompactRetries
      /\ run.pc = "overwrite" => run.file \in Files
      /\ run.attempts \in 0..CompactRetries /\ CompactRetries \in Nat \ {0}
  BY LakehouseConfig DEF SnapshotInv, Typed, TypeOK
<1>2. /\ files \in FileTable /\ snapshots \subseteq Metadata(commits)
      /\ Current.id = commits /\ Current.files \in SUBSET Files
      /\ \A fs \in SUBSET Files, f \in Files, rows \in SUBSET Files :
           /\ WriteFile(f, rows) => files' \in FileTable
           /\ Commit(fs) => commits' \in Nat /\ snapshots' \subseteq Metadata(commits')
      /\ \A s \in snapshots : s.id \in 0..commits /\ s.files \subseteq Files
  BY <1>1, StoreTyped, CurrentFacts
<1>3. ASSUME NEW r \in Run, maint' = [maint EXCEPT ![m] = r], UNCHANGED <<sink, now, history>>
      PROVE  maint'[m] = r /\ Alone(m)
  BY <1>1, <1>3 DEF Alone, Typed
<1>4. ASSUME NEW r \in Run, SetMaint(m, r), r.attempts <= CompactRetries,
             r.pc \in {"plan", "read"} => r.attempts < CompactRetries,
             r.pc = "overwrite" => r.file \in Files,
             files' \in FileTable, commits' \in Nat, snapshots' \subseteq Metadata(commits')
      PROVE  Typed' /\ Alone(m) /\ maint'[m] = r
  BY <1>1, <1>3, <1>4, RunTyped DEF SetMaint
<1>5. ASSUME NEW r, r \in {AfterExpiry(run), AfterCompaction(run), Compacted(run),
                           CompactionFailed(run)},
             SetMaint(m, r),
             files' \in FileTable, commits' \in Nat, snapshots' \subseteq Metadata(commits')
      PROVE  Typed' /\ Alone(m) /\ maint'[m].pc \in Quiet
  <2>1. r \in Run /\ r.pc \in {"idle", "expire", "references"} /\ r.attempts = 0
    BY <1>1, <1>5, StageFits
  <2> QED
    BY <1>1, <1>4, <1>5, <2>1 DEF Quiet
<1>6. ASSUME NEW ops \in SUBSET Ops, NEW dry \in BOOLEAN, RunTableMaintenance(m, ops, dry)
      PROVE  Typed' /\ Alone(m) /\ GoesOn(m)
  <2> DEFINE dryrun == dry /\ "orphans" \in ops
             first == [NoRun EXCEPT !.pc = "plan", !.ops = ops, !.dry = dryrun]
             next == IF "compact" \in ops THEN first ELSE AfterCompaction(first)
  <2>1. maint' = [maint EXCEPT ![m] = next]
        /\ UNCHANGED <<files, snapshots, commits, sink, now, history>>
    BY <1>6 DEF RunTableMaintenance
  <2>2. first \in Run /\ first.pc = "plan" /\ first.attempts = 0
    <3>1. dryrun \in BOOLEAN
      OBVIOUS
    <3> HIDE DEF dryrun
    <3> QED
      BY <3>1 DEF NoRun, Run
  <2>3. next \in Run /\ next.pc \in Quiet \ {"read"} /\ next.attempts = 0
    <3> HIDE DEF first
    <3>1. /\ AfterCompaction(first) \in Run /\ AfterCompaction(first).attempts = 0
          /\ AfterCompaction(first).pc \in {"idle", "expire", "references"}
      BY <2>2, StageFits
    <3> QED
      BY <2>2, <3>1 DEF Quiet
  <2> HIDE DEF next
  <2>4. next.attempts < CompactRetries /\ next.attempts <= CompactRetries /\ next.pc # "overwrite"
    BY <1>1, <2>3 DEF Quiet
  <2>5. Typed'
    <3>1. maint' = [maint EXCEPT ![m] = next] /\ UNCHANGED <<sink, now, history>>
      BY <2>1
    <3>2. files' \in FileTable /\ commits' \in Nat /\ snapshots' \subseteq Metadata(commits')
      BY <1>1, <1>2, <2>1
    <3> QED
      BY <1>1, <2>3, <2>4, <3>1, <3>2, RunTyped
  <2> QED
    BY <1>3, <2>1, <2>3, <2>5 DEF GoesOn
<1>7. ASSUME NEW ops \in Operations, NEW dry \in DryRun, RunTableMaintenance(m, ops, dry)
      PROVE  Typed' /\ Alone(m) /\ Moves(m)
  <2>1. ops \in SUBSET Ops /\ dry \in BOOLEAN
    BY LakehouseConfig DEF Ops
  <2> QED
    BY <1>6, <1>7, <2>1 DEF Moves
<1>8. ASSUME NEW flags \in Flags, NEW dry \in DryRun, MaintenanceScript(m, flags, dry)
      PROVE  Typed' /\ Alone(m) /\ Moves(m)
  <2>1. Actions(flags) \in SUBSET Ops /\ dry \in BOOLEAN
    BY LakehouseConfig DEF Ops, Actions
  <2> QED
    BY <1>6, <1>8, <2>1 DEF Moves, MaintenanceScript
<1>9. ASSUME NEW pc \in {"read", "verify"}, SetMaint(m, [run EXCEPT !.pc = pc]),
             pc = "read" => run.attempts < CompactRetries,
             files' \in FileTable, commits' \in Nat, snapshots' \subseteq Metadata(commits')
      PROVE  Typed' /\ Alone(m) /\ maint'[m].pc \in Quiet
  <2> DEFINE r == [run EXCEPT !.pc = pc]
  <2>1. r \in Run /\ r.pc = pc /\ r.attempts = run.attempts
    BY <1>1 DEF Run
  <2>2. SetMaint(m, r)
    BY <1>9
  <2> HIDE DEF r
  <2> QED
    BY <1>1, <1>4, <1>9, <2>1, <2>2 DEF Quiet
<1>10. CASE Plan(m)
  <2>1. /\ run.pc = "plan" /\ UNCHANGED <<files, snapshots, commits>>
        /\ SetMaint(m, Compacted(run)) \/ SetMaint(m, [run EXCEPT !.pc = "read"])
    BY <1>10 DEF Plan
  <2>2. CASE SetMaint(m, Compacted(run))
    BY <1>1, <1>2, <1>5, <2>1, <2>2 DEF Moves, GoesOn
  <2>3. CASE SetMaint(m, [run EXCEPT !.pc = "read"])
    BY <1>1, <1>2, <1>9, <2>1, <2>3 DEF Moves, GoesOn
  <2> QED
    BY <2>1, <2>2, <2>3
<1>11. CASE ReadTable(m)
  <2> DEFINE rows == Rows(Current.files)
  <2>1. run.pc = "read" /\ UNCHANGED <<files, snapshots, commits>>
    BY <1>11 DEF ReadTable
  <2>2. CASE SetMaint(m, Compacted(run))
    BY <1>1, <1>2, <1>5, <2>1, <2>2 DEF Moves, GoesOn
  <2>3. CASE rows # {} /\ SetMaint(m, [run EXCEPT !.pc = "rewrite", !.base = Current.id,
                                                  !.attempts = @ + 1, !.rows = rows])
    <3> DEFINE r == [run EXCEPT !.pc = "rewrite", !.base = Current.id,
                                !.attempts = @ + 1, !.rows = rows]
    <3>1. run.attempts + 1 \in Nat /\ run.attempts + 1 <= CompactRetries
      <4>1. run.attempts < CompactRetries /\ run.attempts \in Nat /\ CompactRetries \in Nat
        BY <1>1, <2>1
      <4> HIDE DEF run
      <4> QED
        BY <4>1
    <3>2. rows \in SUBSET Files
      BY <1>2 DEF FileTable, Rows
    <3> HIDE DEF rows
    <3>3. \A n \in Nat :
            LET q == [run EXCEPT !.pc = "rewrite", !.base = Current.id, !.attempts = n, !.rows = rows]
            IN  /\ q \in Run /\ q.pc = "rewrite" /\ q.base = commits /\ q.attempts = n
                /\ q.rows = rows
      BY <1>1, <1>2, <3>2 DEF Run
    <3>4. r = [run EXCEPT !.pc = "rewrite", !.base = Current.id, !.attempts = run.attempts + 1,
                          !.rows = rows]
      BY <1>1 DEF Run
    <3>5. /\ r \in Run /\ r.pc = "rewrite" /\ r.base = commits /\ r.rows = rows
          /\ r.attempts <= CompactRetries
      BY <3>1, <3>3, <3>4
    <3>6. SetMaint(m, r)
      BY <2>3
    <3> HIDE DEF r
    <3>7. Typed' /\ Alone(m) /\ maint'[m] = r
      BY <1>1, <1>2, <1>4, <2>1, <3>5, <3>6
    <3> QED
      BY <2>1, <2>3, <3>5, <3>7 DEF Moves, TakesRows, rows
  <2> QED
    BY <1>11, <2>2, <2>3 DEF ReadTable
<1>12. CASE RewriteFile(m)
  <2> DEFINE r == [run EXCEPT !.pc = "overwrite", !.file = NewFile]
  <2>1. /\ run.pc = "rewrite" /\ CanWrite /\ NewFile \in Files /\ WriteFile(NewFile, run.rows)
        /\ SetMaint(m, r) /\ UNCHANGED <<snapshots, commits>>
    BY <1>12, NewFileFacts DEF RewriteFile
  <2>2. run.rows \in SUBSET Files
    BY <1>1 DEF Run
  <2>3. /\ r \in Run /\ r.pc = "overwrite" /\ r.file = NewFile /\ r.rows = run.rows
        /\ r.base = run.base /\ r.attempts = run.attempts
    BY <1>1, <2>1 DEF Run
  <2> HIDE DEF r
  <2>4. files' \in FileTable
    BY <1>2, <2>1, <2>2
  <2>5. Typed' /\ Alone(m) /\ maint'[m] = r
    BY <1>1, <1>2, <1>4, <2>1, <2>3, <2>4
  <2> QED
    BY <2>1, <2>3, <2>5 DEF Moves, WritesRows
<1>13. CASE Overwrite(m)
  <2>1. run.pc = "overwrite" /\ run.file \in Files /\ UNCHANGED files
    BY <1>1, <1>13 DEF Overwrite
  <2>2. CASE run.base = Current.id
    <3>1. /\ Commit({run.file})
          /\ SetMaint(m, [run EXCEPT !.pc = "verify"]) \/ SetMaint(m, CompactionFailed(run))
      BY <1>13, <2>2 DEF Overwrite
    <3>2. commits' \in Nat /\ snapshots' \subseteq Metadata(commits') /\ files' \in FileTable
      BY <1>2, <2>1, <3>1
    <3>3. Typed' /\ Alone(m) /\ maint'[m].pc \in Quiet
      BY <1>5, <1>9, <3>1, <3>2
    <3> QED
      BY <1>2, <2>1, <2>2, <3>1, <3>3 DEF Moves, CommitsRows
  <2>3. CASE run.base # Current.id
    <3>1. /\ UNCHANGED <<snapshots, commits>>
          /\ \/ run.attempts < CompactRetries /\ SetMaint(m, [run EXCEPT !.pc = "read"])
             \/ SetMaint(m, CompactionFailed(run))
      BY <1>13, <2>3 DEF Overwrite
    <3> QED
      BY <1>1, <1>2, <1>5, <1>9, <2>1, <3>1 DEF Moves, GoesOn
  <2> QED
    BY <2>2, <2>3
<1>14. CASE Verify(m)
  <2>1. /\ UNCHANGED <<files, snapshots, commits>>
        /\ SetMaint(m, Compacted(run)) \/ SetMaint(m, CompactionFailed(run))
    BY <1>14 DEF Verify
  <2> QED
    BY <1>1, <1>2, <1>5, <2>1 DEF Moves, GoesOn
<1>15. ASSUME NEW pc \in {"expiring", "list", "delete"}, NEW set \in SUBSET Nat, NEW since \in Nat,
              SetMaint(m, [run EXCEPT !.pc = pc, !.set = set, !.since = since]),
              UNCHANGED <<files, commits>>, snapshots' \subseteq Metadata(commits)
       PROVE  /\ Typed' /\ Alone(m)
              /\ maint'[m].pc = pc /\ maint'[m].set = set /\ maint'[m].since = since
  <2> DEFINE r == [run EXCEPT !.pc = pc, !.set = set, !.since = since]
  <2>1. r \in Run /\ r.pc = pc /\ r.set = set /\ r.since = since /\ r.attempts = run.attempts
    BY <1>1 DEF Run
  <2>2. SetMaint(m, r)
    BY <1>15
  <2> HIDE DEF r
  <2> QED
    BY <1>1, <1>2, <1>4, <1>15, <2>1, <2>2
<1>16. \A pc \in {"expiring", "delete"}, set \in SUBSET Nat :
         [run EXCEPT !.pc = pc, !.set = set]
           = [run EXCEPT !.pc = pc, !.set = set, !.since = run.since]
  BY <1>1 DEF Run
<1>17. run.since \in Nat /\ run.set \in SUBSET Nat
  BY <1>1 DEF Run
<1>18. CASE Expire(m)
  <2>1. UNCHANGED <<files, snapshots, commits>>
    BY <1>18 DEF Expire
  <2>2. CASE SetMaint(m, AfterExpiry(run))
    BY <1>1, <1>2, <1>5, <2>1, <2>2 DEF Moves, GoesOn
  <2>3. CASE Candidates # {} /\ SetMaint(m, [run EXCEPT !.pc = "expiring", !.set = Candidates])
    <3>1. Candidates \in SUBSET Nat
      BY <1>2 DEF Candidates
    <3> HIDE DEF run
    <3>2. SetMaint(m, [run EXCEPT !.pc = "expiring", !.set = Candidates, !.since = run.since])
      BY <1>16, <2>3, <3>1
    <3>3. UNCHANGED <<files, commits>> /\ snapshots' \subseteq Metadata(commits)
      BY <1>2, <2>1
    <3>4. Typed' /\ Alone(m) /\ maint'[m].pc = "expiring" /\ maint'[m].set = Candidates
      BY <1>15, <1>17, <3>1, <3>2, <3>3
    <3> QED
      BY <2>1, <2>3, <3>4 DEF Moves, ChoosesSnapshots
  <2> QED
    BY <1>18, <2>2, <2>3 DEF Expire
<1>19. CASE ExpireOne(m)
  <2> DEFINE id == Min(run.set)
             left == run.set \ {id}
             rest == [run EXCEPT !.set = left]
  <2>1. /\ run.pc = "expiring" /\ UNCHANGED <<files, commits>>
        /\ snapshots' \in {snapshots, {s \in snapshots : s.id # id}}
        /\ SetMaint(m, IF rest.set = {} THEN AfterExpiry(rest) ELSE rest)
    BY <1>19 DEF ExpireOne
  <2>2. left \in SUBSET Nat /\ rest \in Run /\ rest.set = left /\ rest.pc = "expiring"
        /\ rest = [run EXCEPT !.pc = "expiring", !.set = left]
    BY <1>1, <1>17, <2>1 DEF Run
  <2>3. snapshots' \subseteq Metadata(commits) /\ snapshots' \subseteq Metadata(commits')
        /\ files' \in FileTable /\ commits' \in Nat
    BY <1>1, <1>2, <2>1
  <2>4. /\ Typed' /\ Alone(m)
        /\ \/ maint'[m].pc \in Quiet
           \/ maint'[m].pc = "expiring" /\ maint'[m].set = left /\ left # {}
    <3>1. CASE left = {}
      <4> HIDE DEF rest
      <4> DEFINE n == AfterExpiry(rest)
      <4>1. n \in Run /\ n.pc \in {"idle", "expire", "references"} /\ n.attempts = 0
        BY <2>2, StageFits
      <4>2. SetMaint(m, n)
        BY <2>1, <2>2, <3>1
      <4> HIDE DEF n
      <4> QED
        BY <1>1, <1>4, <2>3, <4>1, <4>2 DEF Quiet
    <3>2. CASE left # {}
      <4>1. SetMaint(m, [run EXCEPT !.pc = "expiring", !.set = left, !.since = run.since])
        BY <1>16, <2>1, <2>2, <3>2
      <4> HIDE DEF run, left, rest
      <4> QED
        BY <1>15, <1>17, <2>1, <2>2, <2>3, <3>2, <4>1
    <3> QED
      BY <3>1, <3>2
  <2>5. id \in run.set
    <3>1. run.set # {}
      BY <2>1 DEF SnapshotInv, ExpiryFits
    <3> QED
      BY <1>17, <3>1, LeastNumber
  <2> QED
    <3> HIDE DEF id
    <3> QED
      BY <2>1, <2>4, <2>5 DEF Moves, ExpiresOne
<1>20. CASE CollectReferences(m)
  <2>1. PICK set : /\ set \subseteq Referenced /\ (~ManifestErrors => set = Referenced)
                   /\ SetMaint(m, [run EXCEPT !.pc = "list", !.set = set, !.since = now])
                   /\ UNCHANGED <<files, snapshots, commits>>
    <3>1. PICK unread \in IF ManifestErrors THEN SUBSET Referenced ELSE {{}} :
            SetMaint(m, [run EXCEPT !.pc = "list", !.set = Referenced \ unread, !.since = now])
      BY <1>20 DEF CollectReferences
    <3>2. UNCHANGED <<files, snapshots, commits>>
      BY <1>20 DEF CollectReferences
    <3>3. Referenced \ unread \subseteq Referenced
          /\ (~ManifestErrors => Referenced \ unread = Referenced)
      BY <3>1
    <3> QED
      BY <3>1, <3>2, <3>3
  <2>2. set \in SUBSET Nat
    BY <1>2, <2>1 DEF Referenced, Files
  <2> HIDE DEF run
  <2>3. Typed' /\ Alone(m) /\ maint'[m].pc = "list" /\ maint'[m].set = set /\ maint'[m].since = now
    BY <1>1, <1>2, <1>15, <2>1, <2>2
  <2> QED
    BY <2>1, <2>3 DEF Moves, TakesReferences
<1>21. CASE ListOrphans(m)
  <2>1. /\ run.pc = "list" /\ UNCHANGED <<files, snapshots, commits>>
        /\ SetMaint(m, [run EXCEPT !.pc = "delete", !.set = Orphans(run.set)])
    BY <1>21 DEF ListOrphans
  <2>2. Orphans(run.set) \in SUBSET Nat
    BY DEF Orphans, Stored, Files
  <2>3. Typed' /\ Alone(m) /\ maint'[m].pc = "delete" /\ maint'[m].set = Orphans(run.set)
    <3> DEFINE set == Orphans(run.set)
    <3>1. set \in SUBSET Nat /\ SetMaint(m, [run EXCEPT !.pc = "delete", !.set = set])
      BY <2>1, <2>2
    <3> HIDE DEF run, set
    <3>2. SetMaint(m, [run EXCEPT !.pc = "delete", !.set = set, !.since = run.since])
      BY <1>16, <3>1
    <3>3. UNCHANGED <<files, commits>> /\ snapshots' \subseteq Metadata(commits)
      BY <1>2, <2>1
    <3>4. Typed' /\ Alone(m) /\ maint'[m].pc = "delete" /\ maint'[m].set = set
      BY <1>15, <1>17, <3>1, <3>2, <3>3
    <3> QED
      BY <3>4 DEF set
  <2> QED
    BY <2>1, <2>3 DEF Moves, ChoosesOrphans
<1>22. CASE DeleteOrphans(m)
  <2>1. /\ run.pc = "delete" /\ SetMaint(m, NoRun) /\ UNCHANGED <<snapshots, commits>>
        /\ \/ files' = [f \in Files |-> IF f \in run.set THEN [files[f] EXCEPT !.there = FALSE]
                                        ELSE files[f]]
           \/ UNCHANGED files
    BY <1>22 DEF DeleteOrphans
  <2>2. files' \in FileTable
    <3> DEFINE D == [there : BOOLEAN, rows : SUBSET Files, at : Nat]
    <3>1. \A d \in D : [d EXCEPT !.there = FALSE] \in D
      OBVIOUS
    <3> HIDE DEF D
    <3>2. \A f \in Files : files[f] \in D
      BY <1>2 DEF FileTable, D
    <3>3. files \in [Files -> D]
      BY <1>2 DEF FileTable, D
    <3>4. [f \in Files |-> IF f \in run.set THEN [files[f] EXCEPT !.there = FALSE] ELSE files[f]]
            \in [Files -> D]
      BY <3>1, <3>2
    <3>5. files' \in [Files -> D]
      BY <2>1, <3>3, <3>4
    <3> QED
      BY <3>5 DEF FileTable, D
  <2>3. NoRun \in Run /\ NoRun.pc = "idle" /\ NoRun.attempts = 0
    BY DEF NoRun, Run
  <2>4. Typed' /\ Alone(m) /\ maint'[m] = NoRun
    BY <1>1, <1>2, <1>4, <2>1, <2>2, <2>3
  <2> QED
    BY <2>1, <2>3, <2>4 DEF Moves, DeletesSome, Quiet
<1>23. CASE MaintError(m)
  <2> DEFINE r == [run EXCEPT !.failed = TRUE]
  <2>1. r \in Run /\ r.pc = run.pc
    BY <1>1 DEF Run
  <2>2. /\ UNCHANGED <<files, snapshots, commits>>
        /\ \E n \in {AfterExpiry(r), AfterCompaction(r), CompactionFailed(r)} : SetMaint(m, n)
    <3>1. /\ run.pc \in {"plan", "read", "rewrite", "verify", "expire", "references", "list"}
          /\ UNCHANGED <<files, snapshots, commits>>
          /\ SetMaint(m, CASE r.pc = "plan"                 -> AfterCompaction(r)
                       [] r.pc \in {"read", "rewrite", "verify"} -> CompactionFailed(r)
                       [] r.pc \in {"expire", "references", "list"} -> AfterExpiry(r))
      BY <1>23 DEF MaintError
    <3> HIDE DEF r, run
    <3> QED
      BY <2>1, <3>1
  <2> HIDE DEF r
  <2>3. PICK n \in {AfterExpiry(r), AfterCompaction(r), CompactionFailed(r)} : SetMaint(m, n)
    BY <2>2
  <2>4. n \in Run /\ n.pc \in {"idle", "expire", "references"} /\ n.attempts = 0
    BY <2>1, <2>3, StageFits
  <2>5. Typed' /\ Alone(m) /\ maint'[m] = n
    BY <1>1, <1>2, <1>4, <2>2, <2>3, <2>4
  <2> QED
    BY <2>2, <2>4, <2>5 DEF Moves, GoesOn, Quiet
<1> QED
  BY <1>7, <1>8, <1>10, <1>11, <1>12, <1>13, <1>14, <1>18, <1>19, <1>20, <1>21, <1>22, <1>23
     DEF Maintain
-------------------------------------------------------------------------------

(* The snapshots, and what expiry has chosen among them.                      *)

Old(s) == Cardinality(Newer(s)) >= Retain

(* What a step may do to the snapshots: those that are not among the newest   *)
(* stay so, and of the newest none is removed.                                *)
SnapshotStep ==
  /\ SnapshotsFit' /\ commits <= commits'
  /\ \A s \in snapshots' : s \in snapshots \/ s.id > commits
  /\ \A s \in snapshots \cap snapshots' : Old(s) => Old(s)'
  /\ \A s \in snapshots : ~Old(s) => s \in snapshots'

(* Newer snapshots are finitely many.                                         *)
LEMMA NewerFacts ==
  ASSUME Typed, SnapshotsFit
  PROVE  \A s \in snapshots : IsFiniteSet(Newer(s)) /\ Cardinality(Newer(s)) \in Nat
<1>1. \A s \in snapshots : Newer(s) \subseteq snapshots /\ IsFiniteSet(snapshots)
  BY DEF Newer, SnapshotsFit
<1> QED
  BY <1>1, FS_Subset, FS_CardinalityType

(* A step that leaves the metadata alone.                                     *)
LEMMA SameSnapshots ==
  ASSUME Typed, SnapshotsFit, UNCHANGED <<snapshots, commits>> PROVE SnapshotStep
<1>1. commits \in Nat
  BY DEF Typed
<1>2. \A s : Newer(s)' = Newer(s)
  BY DEF Newer
<1>3. \A s : Old(s)' = Old(s)
  BY <1>2 DEF Old
<1>4. SnapshotsFit'
  BY DEF SnapshotsFit
<1> QED
  BY <1>1, <1>3, <1>4 DEF SnapshotStep

(* A commit adds one snapshot, newer than all others.                         *)
LEMMA CommitSnapshots ==
  ASSUME Typed, SnapshotsFit, Typed', NEW fs \in SUBSET Files, Commit(fs) PROVE SnapshotStep
<1> DEFINE new == [id |-> commits + 1, files |-> fs]
<1>1. snapshots' = snapshots \cup {new} /\ commits' = commits + 1 /\ commits \in Nat
      /\ new.id = commits + 1
  BY DEF Commit, Typed
<1>2. \A s \in snapshots : s.id \in 0..commits
  BY CurrentFacts
<1>3. \A s \in snapshots : s.id # new.id
  BY <1>1, <1>2
<1>4. SnapshotsFit'
  <2>1. IsFiniteSet(snapshots')
    BY <1>1, FS_AddElement DEF SnapshotsFit
  <2> HIDE DEF new
  <2> QED
    BY <1>1, <1>3, <2>1 DEF SnapshotsFit
<1>5. ASSUME NEW s \in snapshots, Old(s) PROVE Old(s)'
  <2> HIDE DEF new
  <2>1. Newer(s) \subseteq Newer(s)' /\ s \in snapshots'
    BY <1>1 DEF Newer
  <2>2. IsFiniteSet(Newer(s)') /\ Cardinality(Newer(s)') \in Nat
    <3>1. Newer(s)' \subseteq snapshots' /\ IsFiniteSet(snapshots')
      BY <1>4 DEF Newer, SnapshotsFit
    <3> QED
      BY <3>1, FS_Subset, FS_CardinalityType
  <2>3. Cardinality(Newer(s)) <= Cardinality(Newer(s)') /\ Cardinality(Newer(s)) \in Nat
    BY <2>1, <2>2, FS_Subset, NewerFacts
  <2>4. Cardinality(Newer(s)) >= Retain /\ Retain \in Nat
    BY <1>5, LakehouseConfig DEF Old
  <2>5. Cardinality(Newer(s)') >= Retain
    BY <2>2, <2>3, <2>4
  <2> QED
    BY <2>5 DEF Old
<1> HIDE DEF new
<1> QED
  BY <1>1, <1>4, <1>5 DEF SnapshotStep

(* The expiry of one chosen snapshot. One that is older still has lost a      *)
(* newer one, but those newer than the removed one are enough.                *)
LEMMA ExpireSnapshots ==
  ASSUME SnapshotInv, NEW m \in Maintainers, maint[m].pc = "expiring",
         NEW id \in maint[m].set, snapshots' = {s \in snapshots : s.id # id}, UNCHANGED commits
  PROVE  SnapshotStep
<1>1. /\ Typed /\ SnapshotsFit /\ commits \in Nat /\ Retain \in Nat
      /\ \A s \in snapshots : s.id \in 0..commits
      /\ id < commits
      /\ \A s \in snapshots : s.id = id => Old(s)
  BY LakehouseConfig, CurrentFacts DEF SnapshotInv, Typed, ExpiryFits, Old
<1>2. snapshots' \subseteq snapshots /\ \A s \in snapshots : s \in snapshots' <=> s.id # id
  OBVIOUS
<1>3. SnapshotsFit'
  <2>1. IsFiniteSet(snapshots')
    BY <1>1, <1>2, FS_Subset DEF SnapshotsFit
  <2>2. PICK s \in snapshots : s.id = commits
    BY <1>1 DEF SnapshotsFit
  <2>3. s \in snapshots'
    BY <1>1, <1>2, <2>2
  <2> QED
    BY <1>1, <1>2, <2>1, <2>2, <2>3 DEF SnapshotsFit
<1>4. ASSUME NEW s \in snapshots, s \in snapshots', Old(s) PROVE Old(s)'
  <2>1. IsFiniteSet(Newer(s)') /\ Cardinality(Newer(s)') \in Nat
    <3>1. Newer(s)' \subseteq snapshots' /\ IsFiniteSet(snapshots')
      BY <1>3 DEF Newer, SnapshotsFit
    <3> QED
      BY <3>1, FS_Subset, FS_CardinalityType
  <2>2. CASE \E x \in snapshots : x.id = id /\ x.id > s.id
    <3>1. PICK x \in snapshots : x.id = id /\ x.id > s.id
      BY <2>2
    <3>2. Newer(x) \subseteq Newer(s)'
      <4>1. ASSUME NEW y \in snapshots, y.id > x.id PROVE y.id > s.id /\ y.id # id
        <5>1. y.id \in Nat /\ x.id \in Nat /\ s.id \in Nat
          BY <1>1
        <5> QED
          BY <3>1, <4>1, <5>1
      <4> QED
        BY <1>2, <4>1 DEF Newer
    <3>3. Cardinality(Newer(x)) <= Cardinality(Newer(s)') /\ Cardinality(Newer(x)) \in Nat
      BY <1>1, <2>1, <3>2, FS_Subset, NewerFacts
    <3>4. Cardinality(Newer(x)) >= Retain
      BY <1>1, <3>1 DEF Old
    <3>5. Cardinality(Newer(s)') >= Retain
      BY <1>1, <2>1, <3>3, <3>4
    <3> QED
      BY <3>5 DEF Old
  <2>3. CASE ~\E x \in snapshots : x.id = id /\ x.id > s.id
    <3>1. Newer(s)' = Newer(s)
      BY <1>2, <2>3 DEF Newer
    <3> QED
      BY <1>4, <3>1 DEF Old
  <2> QED
    BY <2>2, <2>3
<1> QED
  BY <1>1, <1>2, <1>3, <1>4 DEF SnapshotStep

(* Steps of the writers: the stream and the sink.                             *)
Write ==
  \/ StreamAppend \/ \E b \in Batches : WriteEvents(b)
  \/ AppendFile \/ AppendCommit \/ SinkDone \/ SinkRetry \/ SinkError

(* Every step is one of a writer, of one run, a tick of the clock, or none.   *)
LEMMA StepKinds ==
  ASSUME SnapshotInv, [Next]_vars
  PROVE  /\ Typed'
         /\ \/ Write
            \/ \E m \in Maintainers : Alone(m) /\ Moves(m)
            \/ Tick
            \/ UNCHANGED vars
<1>1. CASE Write
  BY <1>1, SinkSteps DEF SnapshotInv, Write
<1>2. ASSUME NEW m \in Maintainers,
             \/ Maintain(m)
             \/ \E ops \in Operations, dry \in DryRun : RunTableMaintenance(m, ops, dry)
             \/ \E flags \in Flags, dry \in DryRun : MaintenanceScript(m, flags, dry)
      PROVE  Typed' /\ Alone(m) /\ Moves(m)
  BY <1>2, MaintSteps
<1>3. CASE Tick
  <2>1. /\ UNCHANGED <<files, snapshots, commits, sink, maint, appended, calls, acked>>
        /\ now' = now + 1 /\ now \in Nat
    BY <1>3 DEF Tick, history, SnapshotInv, Typed
  <2>2. now' \in Nat
    BY <2>1
  <2> QED
    BY <1>3, <2>1, <2>2 DEF SnapshotInv, Typed, TypeOK
<1>4. CASE UNCHANGED vars
  BY <1>4 DEF vars, SnapshotInv, Typed, TypeOK
<1> QED
  BY <1>1, <1>2, <1>3, <1>4 DEF Next, Write

(* What a step does to the snapshots.                                         *)
LEMMA WriteSnapshots ==
  ASSUME SnapshotInv, Typed', Write PROVE SnapshotStep /\ UNCHANGED <<maint, now>>
<1>1. /\ \/ UNCHANGED <<snapshots, commits>>
         \/ \E fs \in SUBSET Files : Commit(fs)
      /\ UNCHANGED <<maint, now>>
  <2>1. Current.files \in SUBSET Files
    BY CurrentFacts DEF SnapshotInv
  <2>2. CASE StreamAppend
    <3>1. Current.files \cup {NewFile} \in SUBSET Files
      BY <2>1, <2>2, NewFileFacts DEF StreamAppend
    <3> QED
      BY <2>2, <3>1 DEF StreamAppend
  <2>3. CASE AppendCommit
    <3>1. Current.files \cup {sink.file} \in SUBSET Files
      BY <2>1, <2>3 DEF AppendCommit, SnapshotInv, Typed
    <3> QED
      BY <2>3, <3>1 DEF AppendCommit
  <2>4. CASE \/ \E b \in Batches : WriteEvents(b)
             \/ AppendFile \/ SinkDone \/ SinkRetry \/ SinkError
    BY <2>4 DEF WriteEvents, AppendFile, SinkDone, SinkRetry, SinkError
  <2> QED
    BY <2>2, <2>3, <2>4 DEF Write
<1> QED
  BY <1>1, SameSnapshots, CommitSnapshots DEF SnapshotInv

(* No step of a maintenance run drops a snapshot other than by the expiry.    *)
LEMMA RunSnapshots ==
  ASSUME SnapshotInv, Typed', NEW m \in Maintainers, Moves(m) PROVE SnapshotStep
<1>1. CASE UNCHANGED <<snapshots, commits>>
  BY <1>1, SameSnapshots DEF SnapshotInv
<1>2. CASE CommitsRows(m)
  <2>1. {maint[m].file} \in SUBSET Files /\ Commit({maint[m].file})
    BY <1>2 DEF CommitsRows, SnapshotInv, Typed
  <2> QED
    BY <2>1, CommitSnapshots DEF SnapshotInv
<1>3. CASE ExpiresOne(m)
  BY <1>1, <1>3, ExpireSnapshots DEF ExpiresOne
<1> QED
  BY <1>1, <1>2, <1>3
     DEF Moves, GoesOn, TakesRows, WritesRows, ChoosesSnapshots, TakesReferences, ChoosesOrphans,
         DeletesSome

(* Expiry's candidates are old, and stay so while others commit and expire.   *)
LEMMA CandidateFacts ==
  ASSUME Typed, SnapshotsFit
  PROVE  /\ \A id \in Candidates : id < commits
         /\ \A s \in snapshots : s.id \in Candidates => Old(s)
<1>1. Current.id = commits /\ \A s \in snapshots : s.id \in 0..commits
  BY CurrentFacts
<1>2. ASSUME NEW id \in Candidates PROVE id < commits
  <2>1. PICK s \in snapshots : s.id = id /\ id # commits
    BY <1>1 DEF Candidates
  <2> QED
    BY <1>1, <2>1 DEF Typed
<1>3. ASSUME NEW s \in snapshots, s.id \in Candidates PROVE Old(s)
  <2>1. PICK t \in snapshots : t.id = s.id /\ Cardinality(Newer(t)) >= Retain
    BY <1>3 DEF Candidates
  <2> QED
    BY <2>1 DEF SnapshotsFit, Old
<1> QED
  BY <1>2, <1>3

(* An expiry that goes on with a part of what it chose, or that has just      *)
(* chosen, still keeps the newest snapshots.                                  *)
LEMMA ExpiryGoesOn ==
  ASSUME SnapshotInv, Typed', SnapshotStep, NEW n \in Maintainers,
         maint'[n].pc = "expiring" =>
           /\ maint'[n].set # {}
           /\ \/ maint[n].pc = "expiring" /\ maint'[n].set \subseteq maint[n].set
              \/ maint'[n].set = Candidates
  PROVE  ExpiryFits(n)'
<1> SUFFICES ASSUME maint'[n].pc = "expiring"
             PROVE  /\ \A id \in maint'[n].set : id < commits'
                    /\ \A s \in snapshots' : s.id \in maint'[n].set => Old(s)'
  BY DEF ExpiryFits, Old
<1>1. commits \in Nat /\ commits' \in Nat /\ maint'[n].set \subseteq Nat
  <2>1. maint'[n] \in Run
    BY DEF Typed
  <2> QED
    BY <2>1 DEF SnapshotInv, Typed, Run
<1>2. /\ \A id \in maint'[n].set : id < commits
      /\ \A s \in snapshots : s.id \in maint'[n].set => Old(s)
  <2>1. CASE maint[n].pc = "expiring" /\ maint'[n].set \subseteq maint[n].set
    BY <2>1 DEF SnapshotInv, ExpiryFits, Old
  <2>2. CASE maint'[n].set = Candidates
    BY <2>2, CandidateFacts DEF SnapshotInv
  <2> QED
    BY <2>1, <2>2
<1>3. \A id \in maint'[n].set : id < commits'
  <2>1. commits <= commits'
    BY DEF SnapshotStep
  <2> QED
    BY <1>1, <1>2, <2>1
<1>4. ASSUME NEW s \in snapshots', s.id \in maint'[n].set PROVE Old(s)'
  <2>1. s.id < commits /\ s.id \in Nat
    BY <1>1, <1>2, <1>4
  <2>2. s \in snapshots
    BY <1>1, <2>1 DEF SnapshotStep
  <2> QED
    BY <1>2, <1>4, <2>2 DEF SnapshotStep
<1> QED
  BY <1>3, <1>4

(* The snapshot invariant is inductive, and every step keeps the newest       *)
(* snapshots (SnapshotManager.expire_snapshots).                              *)
LEMMA SnapshotInductive == ASSUME SnapshotInv, [Next]_vars PROVE SnapshotInv' /\ SnapshotStep
<1>1. Typed'
  BY StepKinds
<1>2. SnapshotStep /\ \A n \in Maintainers : ExpiryFits(n)'
  <2>1. ASSUME SnapshotStep, NEW n \in Maintainers, maint'[n] = maint[n] PROVE ExpiryFits(n)'
    BY <1>1, <2>1, ExpiryGoesOn DEF SnapshotInv, ExpiryFits
  <2>2. CASE Write
    BY <1>1, <2>1, <2>2, WriteSnapshots
  <2>3. ASSUME NEW m \in Maintainers, Alone(m), Moves(m)
        PROVE  SnapshotStep /\ \A n \in Maintainers : ExpiryFits(n)'
    <3>1. SnapshotStep
      BY <1>1, <2>3, RunSnapshots
    <3>2. ExpiryFits(m)'
      <4>1. maint'[m].pc = "expiring" => ChoosesSnapshots(m) \/ ExpiresOne(m)
        BY <2>3 DEF Moves, GoesOn, TakesRows, WritesRows, CommitsRows, TakesReferences,
                    ChoosesOrphans, DeletesSome, Quiet
      <4>2. maint'[m].pc = "expiring" =>
              /\ maint'[m].set # {}
              /\ \/ maint[m].pc = "expiring" /\ maint'[m].set \subseteq maint[m].set
                 \/ maint'[m].set = Candidates
        BY <4>1 DEF ChoosesSnapshots, ExpiresOne, Quiet
      <4> QED
        BY <1>1, <3>1, <4>2, ExpiryGoesOn
    <3> QED
      BY <2>1, <2>3, <3>1, <3>2 DEF Alone
  <2>4. CASE Tick \/ UNCHANGED vars
    <3>1. UNCHANGED <<snapshots, commits, maint>>
      BY <2>4 DEF Tick, vars
    <3> QED
      BY <2>1, <3>1, SameSnapshots DEF SnapshotInv
  <2> QED
    BY <2>2, <2>3, <2>4, StepKinds
<1> QED
  BY <1>1, <1>2 DEF SnapshotInv, SnapshotStep

(* The snapshot invariant at the start: one snapshot without files.           *)
LEMMA SnapshotInitially == Init => SnapshotInv
<1> SUFFICES ASSUME Init PROVE SnapshotInv
  OBVIOUS
<1>1. NoRun \in Run /\ NoRun.pc = "idle" /\ NoRun.attempts = 0 /\ NoSink \in SinkStates
      /\ NoSink.pc = "idle" /\ NoSink.attempts = 0
  BY DEF NoRun, Run, NoSink, SinkStates, Sources
<1>2. Absent \in [there : BOOLEAN, rows : SUBSET Files, at : Nat] /\ Zero \in [Sources -> Nat]
  BY DEF Absent, Zero
<1>3. \A m \in Maintainers : maint[m] = NoRun
  BY DEF Init
<1>4. Typed
  <2>1. TypeOK
    BY <1>1, <1>2, <1>3, LakehouseConfig DEF Init, TypeOK
  <2> QED
    BY <1>1, <1>2, <1>3, <2>1, LakehouseConfig DEF Init, Typed
<1>5. SnapshotsFit
  BY FS_Singleton DEF Init, SnapshotsFit
<1> QED
  BY <1>1, <1>3, <1>4, <1>5 DEF SnapshotInv, ExpiryFits

(* The types hold, every snapshot keeps a number of its own, and what an      *)
(* expiry chose stays choosable until it is done (expire_snapshots removes    *)
(* its candidates one commit at a time, while others commit and expire).      *)
THEOREM LakehouseSnapshotInvariant == Spec => []SnapshotInv
BY SnapshotInitially, SnapshotInductive, PTL DEF Spec

(* Expiry never removes one of the newest snapshots, not even by candidates   *)
(* it chose earlier: SnapshotManager.expire_snapshots, for any number of      *)
(* maintenance runs that expire at the same time.                             *)
THEOREM LakehouseNewestRetained == Spec => NewestRetained
<1>1. ASSUME SnapshotInv, [Next]_vars
      PROVE  [\A s \in snapshots : Cardinality(Newer(s)) < Retain => s \in snapshots']_vars
  <2>1. ASSUME NEW s \in snapshots, Cardinality(Newer(s)) < Retain PROVE s \in snapshots'
    <3>1. Cardinality(Newer(s)) \in Nat /\ Retain \in Nat
      <4>1. Typed /\ SnapshotsFit
        BY <1>1 DEF SnapshotInv
      <4> QED
        BY <4>1, NewerFacts, LakehouseConfig
    <3>2. ~Old(s)
      BY <2>1, <3>1 DEF Old
    <3> QED
      BY <1>1, <3>2, SnapshotInductive DEF SnapshotStep
  <2> QED
    BY <2>1
<1> QED
  BY <1>1, LakehouseSnapshotInvariant, PTL DEF Spec, NewestRetained
-------------------------------------------------------------------------------

(* The data files. A step that changes none, or writes a new one.             *)
FileStep ==
  /\ now' = now
  /\ \/ UNCHANGED files /\ Needed' \subseteq Needed /\ Pending' \subseteq Pending
     \/ \E f \in Files, rows \in SUBSET Files :
          /\ files[f] = Absent /\ rows # {} /\ WriteFile(f, rows)
          /\ Needed' \subseteq Needed \cup {f} /\ Pending' \subseteq Pending \cup {f}

FilesKept ==
  /\ \A f \in Files : files[f].at <= now
  /\ Needed \subseteq Stored /\ Stored \subseteq Used
  /\ \A f \in Pending : now <= files[f].at + WriteTime

(* A step that deletes no file keeps what is known of the files, and what a   *)
(* cleanup that does not move has chosen stays deletable.                     *)
LEMMA FileStepKeeps ==
  ASSUME Typed, FilesInv, FileStep
  PROVE  FilesKept' /\ \A n \in Maintainers : maint'[n] = maint[n] => CleanupFits(n)'
<1>1. /\ files \in FileTable /\ now \in Nat /\ now' = now /\ WriteTime \in Nat
      /\ \A f \in Files : files[f].at \in Nat /\ files[f].rows \subseteq Files
      /\ \A n \in Maintainers : maint[n] \in Run
  BY StoreTyped, LakehouseConfig DEF Typed, FileTable, FileStep
<1>2. CASE UNCHANGED files /\ Needed' \subseteq Needed /\ Pending' \subseteq Pending
  <2>1. Stored' = Stored /\ Used' = Used
    BY <1>2 DEF Stored, Used
  <2>2. FilesKept'
    BY <1>1, <1>2, <2>1 DEF FilesKept, FilesInv, Pending
  <2>3. ASSUME NEW n \in Maintainers, maint'[n] = maint[n] PROVE CleanupFits(n)'
    BY <1>1, <1>2, <2>1, <2>3 DEF CleanupFits, FilesInv
  <2> QED
    BY <2>2, <2>3
<1>3. ASSUME NEW f \in Files, NEW rows \in SUBSET Files,
             files[f] = Absent, rows # {}, WriteFile(f, rows),
             Needed' \subseteq Needed \cup {f}, Pending' \subseteq Pending \cup {f}
      PROVE  FilesKept' /\ \A n \in Maintainers : maint'[n] = maint[n] => CleanupFits(n)'
  <2>1. /\ files'[f].there /\ files'[f].rows = rows /\ files'[f].at = now
        /\ \A g \in Files \ {f} : files'[g] = files[g]
    BY <1>1, <1>3 DEF WriteFile, FileTable
  <2>2. f \notin Stored /\ f \notin Used
    BY <1>3 DEF Absent, Stored, Used
  <2>3. Stored' = Stored \cup {f} /\ Used' = Used \cup {f}
    BY <1>3, <2>1 DEF Stored, Used
  <2>4. \A g \in Needed \cup Pending : g \in Files \ {f}
    <3>1. Needed \subseteq Stored /\ Pending \subseteq Needed /\ Stored \subseteq Files
      BY DEF FilesInv, Needed, Stored
    <3> QED
      BY <2>2, <3>1
  <2>5. FilesKept'
    <3>1. \A g \in Files : files'[g].at <= now'
      BY <1>1, <2>1 DEF FilesInv
    <3>2. Needed' \subseteq Stored' /\ Stored' \subseteq Used'
      BY <1>3, <2>3 DEF FilesInv
    <3>3. ASSUME NEW g \in Pending' PROVE now' <= files'[g].at + WriteTime
      <4>1. CASE g = f
        BY <1>1, <2>1, <4>1
      <4>2. CASE g \in Pending /\ g # f
        BY <1>1, <2>1, <2>4, <4>2 DEF FilesInv
      <4> QED
        BY <1>3, <4>1, <4>2
    <3> QED
      BY <3>1, <3>2, <3>3 DEF FilesKept
  <2>6. ASSUME NEW n \in Maintainers, maint'[n] = maint[n] PROVE CleanupFits(n)'
    <3>1. ASSUME maint[n].pc = "list"
          PROVE  /\ maint[n].since <= now /\ now <= maint[n].since + ScanTime
                 /\ \A g \in Needed' : \/ g \in maint[n].set
                                       \/ maint[n].since <= files'[g].at + WriteTime
      <4>1. /\ maint[n].since <= now /\ now <= maint[n].since + ScanTime
            /\ \A g \in Needed : g \in maint[n].set \/ maint[n].since <= files[g].at + WriteTime
        BY <3>1 DEF FilesInv, CleanupFits
      <4>2. maint[n].since <= files'[f].at + WriteTime
        <5>1. maint[n].since \in Nat
          BY <1>1 DEF Run
        <5> QED
          BY <1>1, <2>1, <4>1, <5>1
      <4> QED
        BY <1>3, <2>1, <2>4, <4>1, <4>2
    <3>2. maint[n].pc = "delete" => maint[n].set \subseteq Used' \ Needed'
      BY <1>3, <2>2, <2>3 DEF FilesInv, CleanupFits
    <3> QED
      BY <1>1, <2>6, <3>1, <3>2 DEF CleanupFits
  <2> QED
    BY <2>5, <2>6
<1> QED
  BY <1>2, <1>3 DEF FileStep

(* What is referenced after a commit.                                         *)
LEMMA CommitReferences ==
  ASSUME NEW fs, Commit(fs) PROVE Referenced' = Referenced \cup fs
<1> DEFINE new == [id |-> commits + 1, files |-> fs]
<1>1. snapshots' = snapshots \cup {new} /\ new.files = fs
  BY DEF Commit
<1> HIDE DEF new
<1> QED
  BY <1>1 DEF Referenced

(* Only a file that was written makes the sink commit.                        *)
LEMMA SinkLeaves ==
  ASSUME Typed, (\E b \in Batches : WriteEvents(b)) \/ SinkDone \/ SinkRetry \/ SinkError
  PROVE  sink'.pc # "commit"
<1>1. NoSink.pc = "idle" /\ NoSink \in SinkStates
  BY DEF NoSink, SinkStates, Sources
<1>2. sink \in SinkStates
  BY DEF Typed
<1>3. CASE \E b \in Batches : WriteEvents(b)
  BY <1>1, <1>3 DEF WriteEvents, SinkStates
<1>4. CASE SinkDone
  BY <1>1, <1>4 DEF SinkDone
<1>5. CASE SinkRetry
  BY <1>1, <1>2, <1>5 DEF SinkRetry, SinkStates
<1>6. CASE SinkError
  BY <1>1, <1>2, <1>6 DEF SinkError, SinkStates
<1> QED
  BY <1>3, <1>4, <1>5, <1>6

(* The steps of the sink are file steps: they write files and commit them,    *)
(* and delete nothing.                                                        *)
LEMMA WriteFiles == ASSUME SnapshotInv, Write PROVE FileStep
<1>1. /\ Typed /\ SnapshotsFit /\ Current.files \subseteq Referenced /\ Current.files \in SUBSET Files
      /\ sink.pc = "commit" => sink.file \in Files
  BY CurrentFacts DEF SnapshotInv, Typed, Referenced
<1>2. UNCHANGED <<maint, now>>
  BY DEF Write, StreamAppend, WriteEvents, AppendFile, AppendCommit, SinkDone, SinkRetry, SinkError
<1>3. CASE StreamAppend
  <2>1. /\ NewFile \in Files /\ files[NewFile] = Absent /\ WriteFile(NewFile, {NewFile})
        /\ Commit(Current.files \cup {NewFile}) /\ UNCHANGED sink
    BY <1>3, NewFileFacts DEF StreamAppend
  <2>2. Referenced' \subseteq Referenced \cup {NewFile}
    BY <1>1, <2>1, CommitReferences
  <2>3. Pending' = Pending
    BY <1>2, <2>1 DEF Pending
  <2> QED
    BY <1>2, <2>1, <2>2, <2>3 DEF FileStep, Needed
<1>4. CASE AppendFile
  <2>1. /\ NewFile \in Files /\ files[NewFile] = Absent /\ WriteFile(NewFile, {NewFile})
        /\ sink' = [sink EXCEPT !.pc = "commit", !.attempts = @ + 1, !.file = NewFile]
        /\ UNCHANGED snapshots
    BY <1>4, NewFileFacts DEF AppendFile
  <2>2. Referenced' = Referenced
    BY <2>1 DEF Referenced
  <2>3. sink'.file = NewFile
    BY <1>1, <2>1 DEF Typed, SinkStates
  <2>4. Pending' \subseteq Pending \cup {NewFile}
    BY <1>2, <2>3 DEF Pending
  <2> QED
    BY <1>2, <2>1, <2>2, <2>4 DEF FileStep, Needed
<1>5. CASE AppendCommit
  <2>1. sink.pc = "commit" /\ sink.file \in Files /\ UNCHANGED files
    BY <1>1, <1>5 DEF AppendCommit
  <2>2. Referenced' \subseteq Referenced \cup {sink.file}
    <3>1. CASE Commit(Current.files \cup {sink.file})
      BY <1>1, <3>1, CommitReferences
    <3>2. CASE UNCHANGED snapshots
      BY <3>2 DEF Referenced
    <3> QED
      BY <1>5, <3>1, <3>2 DEF AppendCommit
  <2>3. sink'.pc # "commit"
    <3>1. \E pc \in {"refresh", "retry"} : sink' = [sink EXCEPT !.pc = pc]
      BY <1>5 DEF AppendCommit
    <3> QED
      BY <1>1, <3>1 DEF Typed, SinkStates
  <2>4. Pending' \subseteq Pending /\ sink.file \in Pending
    BY <1>2, <2>1, <2>3 DEF Pending
  <2> QED
    BY <1>2, <2>1, <2>2, <2>4 DEF FileStep, Needed
<1>6. CASE (\E b \in Batches : WriteEvents(b)) \/ SinkDone \/ SinkRetry \/ SinkError
  <2>1. UNCHANGED <<files, snapshots>>
    BY <1>6 DEF WriteEvents, SinkDone, SinkRetry, SinkError
  <2>2. sink'.pc # "commit"
    BY <1>1, <1>6, SinkLeaves
  <2>3. Referenced' = Referenced /\ Pending' \subseteq Pending
    BY <1>2, <2>1, <2>2 DEF Referenced, Pending
  <2> QED
    BY <1>2, <2>1, <2>3 DEF FileStep, Needed
<1> QED
  BY <1>3, <1>4, <1>5, <1>6 DEF Write

(* The steps of a maintenance run are file steps too, but for the one that    *)
(* deletes.                                                                   *)
LEMMA RunFiles ==
  ASSUME SnapshotInv, NEW m \in Maintainers, Alone(m), Moves(m), ~DeletesSome(m),
         maint[m].pc = "rewrite" => maint[m].rows # {}
  PROVE  FileStep
<1>1. /\ UNCHANGED <<sink, now>> /\ \A n \in Maintainers \ {m} : maint'[n] = maint[n]
      /\ maint[m].pc = "overwrite" => maint[m].file \in Files
      /\ maint[m] \in Run
  BY DEF Alone, SnapshotInv, Typed
<1>2. maint'[m].pc # "overwrite" => Pending' \subseteq Pending
  BY <1>1 DEF Pending
<1>3. CASE WritesRows(m)
  <2>1. /\ NewFile \in Files /\ files[NewFile] = Absent /\ WriteFile(NewFile, maint[m].rows)
        /\ maint'[m].file = NewFile /\ UNCHANGED snapshots /\ maint[m].rows # {}
    BY <1>3, NewFileFacts DEF WritesRows
  <2>2. Referenced' = Referenced
    BY <2>1 DEF Referenced
  <2>3. Pending' \subseteq Pending \cup {NewFile}
    BY <1>1, <2>1 DEF Pending
  <2>4. maint[m].rows \in SUBSET Files
    BY <1>1 DEF Run
  <2> QED
    BY <1>1, <2>1, <2>2, <2>3, <2>4 DEF FileStep, Needed
<1>4. CASE CommitsRows(m)
  <2>1. /\ maint[m].pc = "overwrite" /\ maint'[m].pc # "overwrite" /\ maint[m].file \in Files
        /\ Commit({maint[m].file}) /\ UNCHANGED files
    BY <1>1, <1>4 DEF CommitsRows, Quiet
  <2>2. Referenced' = Referenced \cup {maint[m].file}
    BY <2>1, CommitReferences
  <2>3. maint[m].file \in Pending
    BY <2>1 DEF Pending
  <2> QED
    BY <1>1, <1>2, <2>1, <2>2, <2>3 DEF FileStep, Needed
<1>5. CASE GoesOn(m) \/ TakesRows(m) \/ ChoosesSnapshots(m) \/ TakesReferences(m)
           \/ ChoosesOrphans(m) \/ ExpiresOne(m)
  <2>1. maint'[m].pc # "overwrite" /\ UNCHANGED files /\ snapshots' \subseteq snapshots
    BY <1>5 DEF GoesOn, TakesRows, ChoosesSnapshots, TakesReferences, ChoosesOrphans, ExpiresOne,
                Quiet
  <2>2. Referenced' \subseteq Referenced
    BY <2>1 DEF Referenced
  <2> QED
    BY <1>1, <1>2, <2>1, <2>2 DEF FileStep, Needed
<1> QED
  BY <1>3, <1>4, <1>5 DEF Moves

(* The rest of a cleanup's own steps, when it can read every manifest: it     *)
(* misses only what was written within the buffer, or committed since.        *)
LEMMA CleanupSteps ==
  ASSUME SnapshotInv, FilesInv, ~ManifestErrors, Typed', NEW m \in Maintainers,
         Alone(m), Moves(m), ~DeletesSome(m)
  PROVE  CleanupFits(m)'
<1>1. /\ now \in Nat /\ now' = now /\ {WriteTime, ScanTime, SafetyBuffer} \subseteq Nat
      /\ \A f \in Files : files[f].at \in Nat
      /\ Needed \subseteq Stored /\ Stored \subseteq Files /\ Stored \subseteq Used
      /\ \A f \in Pending : now <= files[f].at + WriteTime
      /\ CleanupFits(m) /\ maint[m] \in Run
  BY StoreTyped, LakehouseConfig
     DEF SnapshotInv, Typed, FileTable, Alone, FilesInv, Stored
<1>2. CASE TakesReferences(m)
  <2>1. /\ maint'[m].pc = "list" /\ maint'[m].since = now /\ maint'[m].set = Referenced
        /\ UNCHANGED files /\ Needed' \subseteq Needed
    <3>1. UNCHANGED <<files, snapshots, sink>> /\ maint'[m].pc = "list"
      BY <1>2 DEF TakesReferences, Alone
    <3>2. Pending' \subseteq Pending /\ Referenced' = Referenced
      BY <3>1 DEF Pending, Referenced, Alone
    <3> QED
      BY <1>2, <3>1, <3>2 DEF TakesReferences, Needed
  <2>2. \A f \in Needed' : f \in maint'[m].set \/ maint'[m].since <= files'[f].at + WriteTime
    BY <1>1, <2>1 DEF Needed
  <2>3. now <= now + ScanTime
    BY <1>1
  <2> QED
    BY <1>1, <2>1, <2>2, <2>3 DEF CleanupFits
<1>3. CASE ChoosesOrphans(m)
  <2>1. /\ maint[m].pc = "list" /\ maint'[m].pc = "delete" /\ maint'[m].set = Orphans(maint[m].set)
        /\ UNCHANGED <<files, snapshots, sink>>
    BY <1>3 DEF ChoosesOrphans, Alone
  <2>2. Needed' \subseteq Needed /\ Used' = Used
    <3>1. Pending' \subseteq Pending /\ Referenced' = Referenced
      BY <2>1 DEF Pending, Referenced, Alone
    <3> QED
      BY <2>1, <3>1 DEF Needed, Used
  <2>3. ASSUME NEW f \in Orphans(maint[m].set) PROVE f \in Used \ Needed
    <3>1. f \in Stored /\ f \notin maint[m].set /\ now - files[f].at >= SafetyBuffer
      BY <2>3 DEF Orphans
    <3>2. ASSUME f \in Needed PROVE FALSE
      <4>1. /\ maint[m].since <= files[f].at + WriteTime /\ now <= maint[m].since + ScanTime
            /\ maint[m].since \in Nat /\ files[f].at \in Nat
        BY <1>1, <2>1, <3>1, <3>2 DEF CleanupFits, Run
      <4>2. WriteTime + ScanTime < SafetyBuffer
        BY BufferIsAmple
      <4> HIDE DEF Needed
      <4> QED
        BY <1>1, <3>1, <4>1, <4>2
    <3> QED
      BY <1>1, <3>1, <3>2
  <2> QED
    BY <2>1, <2>2, <2>3 DEF CleanupFits
<1>4. CASE ~TakesReferences(m) /\ ~ChoosesOrphans(m)
  <2>1. maint'[m].pc \notin {"list", "delete"}
    BY <1>4 DEF Moves, GoesOn, TakesRows, WritesRows, CommitsRows, ChoosesSnapshots, ExpiresOne, Quiet
  <2> QED
    BY <2>1 DEF CleanupFits
<1> QED
  BY <1>2, <1>3, <1>4

(* Deleting orphans leaves rows and times of the files as they are.           *)
OnlyMissing(m) ==
  \A f \in Files : /\ files'[f].rows = files[f].rows /\ files'[f].at = files[f].at
                   /\ f \notin maint[m].set => files'[f].there = files[f].there
                   /\ files'[f].there => files[f].there

(* The deletion of an orphan takes away files of its own choice only.         *)
LEMMA DeleteFacts ==
  ASSUME Typed, NEW m \in Maintainers, Alone(m), DeletesSome(m)
  PROVE  /\ OnlyMissing(m)
         /\ Used' = Used /\ Pending' \subseteq Pending /\ Needed' \subseteq Needed
<1>1. /\ files \in FileTable
      /\ maint[m].pc = "delete" /\ maint'[m].pc \in Quiet
      /\ UNCHANGED <<snapshots, sink>>
      /\ \A n \in Maintainers \ {m} : maint'[n] = maint[n]
  BY StoreTyped DEF Alone, DeletesSome
<1>2. \A f \in Files : /\ files'[f].rows = files[f].rows /\ files'[f].at = files[f].at
                       /\ f \notin maint[m].set => files'[f].there = files[f].there
                       /\ files'[f].there => files[f].there
  <2>1. CASE UNCHANGED files
    BY <2>1
  <2>2. CASE files' = [f \in Files |-> IF f \in maint[m].set THEN [files[f] EXCEPT !.there = FALSE]
                                        ELSE files[f]]
    <3> DEFINE D == [there : BOOLEAN, rows : SUBSET Files, at : Nat]
    <3>1. \A d \in D : LET e == [d EXCEPT !.there = FALSE]
                       IN  e.rows = d.rows /\ e.at = d.at /\ e.there = FALSE
      OBVIOUS
    <3> HIDE DEF D
    <3>2. \A f \in Files : files[f] \in D
      BY <1>1 DEF FileTable, D
    <3> QED
      BY <2>2, <3>1, <3>2
  <2> QED
    BY <1>1, <2>1, <2>2 DEF DeletesSome
<1>3. Pending' \subseteq Pending /\ Referenced' = Referenced
  BY <1>1 DEF Pending, Referenced, Quiet
<1> QED
  BY <1>2, <1>3 DEF OnlyMissing, Needed, Used

(* None of the orphans that are deleted is needed.                            *)
LEMMA DeleteFits ==
  ASSUME SnapshotInv, FilesInv, NEW m \in Maintainers, Alone(m), DeletesSome(m)
  PROVE  FilesKept' /\ \A n \in Maintainers : CleanupFits(n)'
<1>1. /\ now' = now /\ maint[m].set \subseteq Used \ Needed
      /\ maint'[m].pc \in Quiet
      /\ \A n \in Maintainers \ {m} : maint'[n] = maint[n]
  BY DEF FilesInv, CleanupFits, Alone, DeletesSome
<1>2. \A f \in Files : /\ files'[f].rows = files[f].rows /\ files'[f].at = files[f].at
                       /\ f \notin maint[m].set => files'[f].there = files[f].there
                       /\ files'[f].there => files[f].there
  <2>1. OnlyMissing(m)
    BY DeleteFacts DEF SnapshotInv
  <2> QED
    BY <2>1 DEF OnlyMissing
<1>3. Pending' \subseteq Pending /\ Needed' \subseteq Needed /\ Used' = Used
  BY DeleteFacts DEF SnapshotInv
<1>4. Stored' \subseteq Stored /\ \A f \in Stored \ maint[m].set : f \in Stored'
  BY <1>2 DEF Stored
<1>6. FilesKept'
  <2>1. \A f \in Files : files'[f].at <= now'
    BY <1>1, <1>2 DEF FilesInv
  <2>2. Needed' \subseteq Stored' /\ Stored' \subseteq Used'
    BY <1>1, <1>3, <1>4 DEF FilesInv
  <2>3. \A f \in Pending' : now' <= files'[f].at + WriteTime
    BY <1>1, <1>2, <1>3 DEF FilesInv, Pending
  <2> QED
    BY <2>1, <2>2, <2>3 DEF FilesKept
<1>7. ASSUME NEW n \in Maintainers PROVE CleanupFits(n)'
  <2>1. CASE n = m
    BY <1>1, <2>1 DEF CleanupFits, Quiet
  <2>2. CASE n # m
    <3>1. CleanupFits(n) /\ maint'[n] = maint[n] /\ Needed \subseteq Files
      BY <1>1, <2>2 DEF FilesInv, Stored
    <3> QED
      BY <1>1, <1>2, <1>3, <1>4, <3>1 DEF CleanupFits
  <2> QED
    BY <2>1, <2>2
<1> QED
  BY <1>6, <1>7

(* The clock waits for who is between a file and its commit, and for a scan.  *)
LEMMA TickFits ==
  ASSUME SnapshotInv, FilesInv, Tick
  PROVE  FilesKept' /\ \A n \in Maintainers : CleanupFits(n)'
<1>1. /\ now \in Nat /\ now' = now + 1 /\ {WriteTime, ScanTime} \subseteq Nat
      /\ UNCHANGED <<files, snapshots, sink, maint>>
      /\ \A f \in Files : files[f].at \in Nat
      /\ \A n \in Maintainers : maint[n].since \in Nat
  BY StoreTyped, LakehouseConfig DEF SnapshotInv, Typed, FileTable, Tick, Run
<1>2. Needed' = Needed /\ Pending' = Pending /\ Stored' = Stored /\ Used' = Used
  BY <1>1 DEF Needed, Referenced, Pending, Stored, Used
<1>3. ASSUME NEW f \in Pending PROVE now < files[f].at + WriteTime
  BY <1>3 DEF Pending, Tick
<1>4. FilesKept'
  <2>1. \A f \in Files : files[f].at <= now'
    BY <1>1 DEF FilesInv
  <2>2. \A f \in Pending : now' <= files[f].at + WriteTime
    BY <1>1, <1>3 DEF Pending
  <2> QED
    BY <1>1, <1>2, <2>1, <2>2 DEF FilesKept, FilesInv
<1>5. ASSUME NEW n \in Maintainers PROVE CleanupFits(n)'
  <2>1. maint[n].pc = "list" => now < maint[n].since + ScanTime
    BY DEF Tick
  <2>2. maint[n].pc = "list" => maint[n].since <= now' /\ now' <= maint[n].since + ScanTime
    BY <1>1, <2>1 DEF FilesInv, CleanupFits
  <2> QED
    BY <1>1, <1>2, <2>2 DEF FilesInv, CleanupFits
<1> QED
  BY <1>4, <1>5

(* The invariant of the files is inductive as long as every manifest can be   *)
(* read (OrphanCleaner).                                                      *)
LEMMA FilesInductive ==
  ASSUME SnapshotInv, FilesInv, ~ManifestErrors, [Next]_vars
  PROVE  FilesInv'
<1>1. Typed /\ Typed'
  BY StepKinds DEF SnapshotInv
<1>2. \A n \in Maintainers : maint[n].pc = "rewrite" => maint[n].rows # {}
  BY DEF FilesInv
<1>3. CASE Write \/ UNCHANGED vars
  <2>1. FileStep /\ UNCHANGED maint
    <3>1. CASE Write
      BY <3>1, WriteFiles DEF Write, StreamAppend, WriteEvents, AppendFile, AppendCommit, SinkDone,
                              SinkRetry, SinkError
    <3>2. CASE UNCHANGED vars
      BY <3>2 DEF vars, FileStep, Needed, Referenced, Pending
    <3> QED
      BY <1>3, <3>1, <3>2
  <2> QED
    BY <1>1, <1>2, <2>1, FileStepKeeps DEF FilesInv, FilesKept
<1>4. CASE Tick
  BY <1>2, <1>4, TickFits DEF FilesInv, FilesKept, Tick
<1>5. ASSUME NEW m \in Maintainers, Alone(m), Moves(m) PROVE FilesInv'
  <2>1. \A n \in Maintainers : maint'[n].pc = "rewrite" => maint'[n].rows # {}
    <3>1. maint'[m].pc = "rewrite" => maint'[m].rows # {}
      BY <1>5 DEF Moves, GoesOn, TakesRows, WritesRows, CommitsRows, ChoosesSnapshots, ExpiresOne,
                  TakesReferences, ChoosesOrphans, DeletesSome, Quiet
    <3> QED
      BY <1>2, <1>5, <3>1 DEF Alone
  <2>2. CASE DeletesSome(m)
    BY <1>5, <2>1, <2>2, DeleteFits DEF FilesInv, FilesKept
  <2>3. CASE ~DeletesSome(m)
    <3>1. FilesKept' /\ \A n \in Maintainers : maint'[n] = maint[n] => CleanupFits(n)'
      BY <1>1, <1>2, <1>5, <2>3, RunFiles, FileStepKeeps
    <3>2. CleanupFits(m)'
      BY <1>1, <1>5, <2>3, CleanupSteps
    <3> QED
      BY <1>5, <2>1, <3>1, <3>2 DEF FilesInv, FilesKept, Alone
  <2> QED
    BY <2>2, <2>3
<1> QED
  BY <1>3, <1>4, <1>5, StepKinds

(* The invariant of the files at the start: no file at all.                   *)
LEMMA FilesInitially == Init => FilesInv
<1> SUFFICES ASSUME Init PROVE FilesInv
  OBVIOUS
<1>1. /\ \A f \in Files : files[f] = Absent
      /\ \A m \in Maintainers : maint[m].pc = "idle"
      /\ sink.pc = "idle" /\ snapshots = {[id |-> 0, files |-> {}]} /\ now = 0
  BY DEF Init, NoRun, NoSink
<1>2. Needed = {} /\ Pending = {} /\ Stored = {}
  BY <1>1 DEF Needed, Referenced, Pending, Stored, Absent
<1> QED
  BY <1>1, <1>2 DEF FilesInv, CleanupFits, Absent

(* What a cleanup deletes is neither referenced nor about to be: a file that  *)
(* its scan misses was committed after the scan began, so it is younger than  *)
(* the buffer (cleanup_orphan_files against append, overwrite and expiry).    *)
THEOREM LakehouseFilesInvariant ==
  ASSUME ~ManifestErrors PROVE Spec => []FilesInv
<1>1. Init => SnapshotInv /\ FilesInv
  BY SnapshotInitially, FilesInitially
<1>2. SnapshotInv /\ FilesInv /\ [Next]_vars => (SnapshotInv /\ FilesInv)'
  BY SnapshotInductive, FilesInductive
<1> QED
  BY <1>1, <1>2, PTL DEF Spec

(* No file of a retained snapshot is ever deleted, for any number of cleanups *)
(* and writers, as long as every manifest can be read: the safety buffer of   *)
(* cleanup_orphan_files is enough when writing and scanning fit into it.      *)
THEOREM LakehouseLiveFilesExist ==
  ASSUME ~ManifestErrors PROVE Spec => []LiveFilesExist
<1>1. FilesInv => LiveFilesExist
  BY DEF FilesInv, LiveFilesExist, Needed
<1> QED
  BY <1>1, LakehouseFilesInvariant, PTL
-------------------------------------------------------------------------------

(* The rows of the table. What was written to a file stays its content, also  *)
(* after it was deleted.                                                      *)
KeepsRows == \A f \in Used : f \in Used' /\ files'[f].rows = files[f].rows

(* What a step may do to the table: nothing, add a row, or, by compaction,    *)
(* put the same rows into one file.                                           *)
Same == Current' = Current /\ commits' = commits /\ appended' = appended

Adds(f, s) ==
  /\ Commit(Current.files \cup {f})
  /\ appended' = [appended EXCEPT ![s] = @ \cup {f}]
  /\ f \notin Added /\ files'[f].rows = {f}

Replaces(f) ==
  /\ Commit({f}) /\ appended' = appended
  /\ f \in Used /\ files[f].rows = Rows(Current.files)

RowsStep ==
  /\ KeepsRows
  /\ \/ Same
     \/ \E f \in Files, s \in Sources : Adds(f, s)
     \/ \E f \in Files : Replaces(f)

(* The current snapshot is the newest: dropping others does not change it.    *)
LEMMA SameCurrent ==
  ASSUME Typed, SnapshotsFit, SnapshotsFit', snapshots' \subseteq snapshots, UNCHANGED commits
  PROVE  Current' = Current
<1>1. Current' \in snapshots' /\ Current'.id = commits'
  BY DEF SnapshotsFit, Current
<1> QED
  BY <1>1, CurrentFacts DEF SnapshotsFit

(* After a commit the current snapshot has the files that were committed.     *)
LEMMA CommittedCurrent ==
  ASSUME Typed, SnapshotsFit, SnapshotsFit', NEW fs \in SUBSET Files, Commit(fs)
  PROVE  Current'.files = fs
<1> DEFINE new == [id |-> commits + 1, files |-> fs]
<1>1. snapshots' = snapshots \cup {new} /\ commits' = commits + 1 /\ new.files = fs
      /\ commits \in Nat
  BY DEF Commit, Typed
<1>2. Current' \in snapshots' /\ Current'.id = commits'
  BY DEF SnapshotsFit, Current
<1>3. \A s \in snapshots : s.id # commits + 1
  BY <1>1, CurrentFacts
<1> HIDE DEF new
<1> QED
  BY <1>1, <1>2, <1>3

(* The table holds every append after a step that adds a file, replaces files *)
(* by one with the same rows, or leaves the table.                            *)
LEMMA TableKept ==
  ASSUME SnapshotInv, SnapshotsFit', RowsInv, KeepsRows,
         \/ Same
         \/ \E f \in Files, s \in Sources : Adds(f, s)
         \/ \E f \in Files : Replaces(f)
  PROVE  /\ TableHoldsEveryAppend'
         /\ Same => Rows(Current.files)' = Rows(Current.files)
<1>1. /\ Typed /\ SnapshotsFit /\ Current.files \subseteq Used /\ Current.files \in SUBSET Files
      /\ appended \in [Sources -> SUBSET Files]
      /\ Rows(Current.files) = Added
      /\ \A f, g \in Current.files : f # g => files[f].rows \cap files[g].rows = {}
  BY CurrentFacts
     DEF SnapshotInv, Typed, RowsInv, Needed, Referenced, TableHoldsEveryAppend, Added
<1>2. \A f \in Current.files : files'[f].rows = files[f].rows
  BY <1>1 DEF KeepsRows
<1>3. CASE Same
  <2>1. Current'.files = Current.files /\ Added' = Added
    BY <1>3 DEF Same, Added
  <2>2. Rows(Current.files)' = Rows(Current.files)
    BY <1>2, <2>1 DEF Rows
  <2> QED
    BY <1>1, <1>2, <2>1, <2>2 DEF TableHoldsEveryAppend, Added
<1>4. ASSUME NEW f \in Files, NEW s \in Sources, Adds(f, s)
      PROVE  TableHoldsEveryAppend' /\ ~Same
  <2>1. Current.files \cup {f} \in SUBSET Files
    BY <1>1
  <2>2. Current'.files = Current.files \cup {f}
    BY <1>1, <1>4, <2>1, CommittedCurrent DEF Adds
  <2>3. Added' = Added \cup {f}
    <3>1. /\ appended'[s] = appended[s] \cup {f}
          /\ \A t \in Sources : t # s => appended'[t] = appended[t]
      BY <1>1, <1>4 DEF Adds
    <3> QED
      BY <3>1 DEF Added
  <2>4. files'[f].rows = {f} /\ f \notin Added
    BY <1>4 DEF Adds
  <2>5. Rows(Current.files)' = Rows(Current.files) \cup {f}
    BY <1>2, <2>2, <2>4 DEF Rows
  <2>6. ASSUME NEW g \in Current'.files, NEW h \in Current'.files, g # h
        PROVE  files'[g].rows \cap files'[h].rows = {}
    <3>1. \A x \in Current.files : f \notin files[x].rows
      BY <1>1, <2>4 DEF Rows
    <3>2. CASE g \in Current.files /\ h \in Current.files
      BY <1>1, <1>2, <2>6, <3>2
    <3>3. CASE g = f /\ h \in Current.files
      BY <1>2, <2>4, <3>1, <3>3
    <3>4. CASE h = f /\ g \in Current.files
      BY <1>2, <2>4, <3>1, <3>4
    <3> QED
      BY <2>2, <2>6, <3>2, <3>3, <3>4
  <2>7. ~Same
    BY <1>1, <1>4 DEF Adds, Commit, Same, Typed
  <2> QED
    BY <1>1, <2>3, <2>5, <2>6, <2>7 DEF TableHoldsEveryAppend, Added
<1>5. ASSUME NEW f \in Files, Replaces(f) PROVE TableHoldsEveryAppend' /\ ~Same
  <2>1. Current'.files = {f}
    BY <1>1, <1>5, CommittedCurrent DEF Replaces
  <2>2. files'[f].rows = Added /\ Added' = Added
    BY <1>1, <1>5 DEF Replaces, KeepsRows, Added
  <2>3. Rows(Current.files)' = Added'
    BY <2>1, <2>2 DEF Rows
  <2>4. ~Same
    BY <1>1, <1>5 DEF Replaces, Commit, Same, Typed
  <2> QED
    BY <2>1, <2>3, <2>4 DEF TableHoldsEveryAppend, Added
<1> QED
  BY <1>3, <1>4, <1>5

(* A file step loses no row of a file in use.                                 *)
LEMMA FileStepRows ==
  ASSUME Typed, FileStep, Needed \subseteq Used PROVE KeepsRows /\ Needed' \subseteq Used'
<1>1. files \in FileTable
  BY StoreTyped
<1>2. CASE UNCHANGED files /\ Needed' \subseteq Needed
  BY <1>2 DEF KeepsRows, Used
<1>3. ASSUME NEW f \in Files, NEW rows \in SUBSET Files, files[f] = Absent, rows # {},
             WriteFile(f, rows), Needed' \subseteq Needed \cup {f}
      PROVE  KeepsRows /\ Needed' \subseteq Used'
  <2>1. /\ files'[f].rows = rows /\ \A g \in Files \ {f} : files'[g] = files[g]
        /\ f \notin Used
    BY <1>1, <1>3 DEF WriteFile, FileTable, Absent, Used
  <2> QED
    BY <1>3, <2>1 DEF KeepsRows, Used
<1> QED
  BY <1>2, <1>3 DEF FileStep

(* What the writers do to the table and to the file in the sink's hands.      *)
LEMMA WriteRows ==
  ASSUME SnapshotInv, RowsInv, SnapshotsFit', Write, KeepsRows
  PROVE  /\ Same \/ \E f \in Files, s \in Sources : Adds(f, s)
         /\ SinkRowsFit' /\ Added' \subseteq Used'
<1>1. /\ Typed /\ SnapshotsFit /\ files \in FileTable
      /\ appended \in [Sources -> SUBSET Files]
      /\ Batches \subseteq Sources /\ Stream \in Sources
      /\ Added \subseteq Used /\ Used \subseteq Used'
      /\ sink.pc = "commit" => sink.file \in Used
  BY StoreTyped
     DEF SnapshotInv, Typed, RowsInv, Sources, KeepsRows, Needed, Pending
<1>2. CASE StreamAppend
  <2>1. /\ NewFile \in Files /\ files[NewFile] = Absent /\ WriteFile(NewFile, {NewFile})
        /\ Commit(Current.files \cup {NewFile}) /\ UNCHANGED sink
        /\ appended' = [appended EXCEPT ![Stream] = @ \cup {NewFile}]
    BY <1>2, NewFileFacts DEF StreamAppend
  <2>2. files'[NewFile].rows = {NewFile} /\ NewFile \notin Used
    BY <1>1, <2>1 DEF WriteFile, FileTable, Absent, Used
  <2>3. Adds(NewFile, Stream)
    BY <1>1, <2>1, <2>2 DEF Adds
  <2>4. Added' = Added \cup {NewFile}
    BY <1>1, <2>1 DEF Added
  <2>5. NewFile \in Used'
    BY <2>1, <2>2 DEF Used
  <2>6. SinkRowsFit'
    BY <1>1, <2>1, <2>2, <2>4 DEF SinkRowsFit, RowsInv, KeepsRows
  <2> QED
    BY <1>1, <2>1, <2>3, <2>4, <2>5, <2>6
<1>3. CASE AppendFile
  <2>1. /\ NewFile \in Files /\ files[NewFile] = Absent /\ WriteFile(NewFile, {NewFile})
        /\ sink' = [sink EXCEPT !.pc = "commit", !.attempts = @ + 1, !.file = NewFile]
        /\ UNCHANGED <<snapshots, commits, appended>>
    BY <1>3, NewFileFacts DEF AppendFile, history
  <2>2. files'[NewFile].rows = {NewFile} /\ NewFile \notin Used
    BY <1>1, <2>1 DEF WriteFile, FileTable, Absent, Used
  <2>3. sink'.file = NewFile
    BY <1>1, <2>1 DEF Typed, SinkStates
  <2>4. Same /\ Added' = Added
    BY <1>1, <2>1, SameCurrent DEF Same, Added
  <2>5. SinkRowsFit'
    BY <1>1, <2>2, <2>3, <2>4 DEF SinkRowsFit
  <2> QED
    BY <1>1, <2>4, <2>5
<1>4. CASE AppendCommit
  <2>1. sink.pc = "commit" /\ sink'.pc # "commit" /\ sink.file \in Files /\ sink.batch \in Sources
    <3>1. \E pc \in {"refresh", "retry"} : sink' = [sink EXCEPT !.pc = pc]
      BY <1>4 DEF AppendCommit
    <3> QED
      BY <1>1, <1>4, <3>1 DEF AppendCommit, Typed, SinkStates
  <2>2. SinkRowsFit'
    BY <2>1 DEF SinkRowsFit
  <2>3. CASE /\ Commit(Current.files \cup {sink.file})
             /\ appended' = [appended EXCEPT ![sink.batch] = @ \cup {sink.file}]
    <3>1. sink.file \notin Added /\ files'[sink.file].rows = {sink.file}
      BY <1>1, <2>1 DEF RowsInv, SinkRowsFit, KeepsRows
    <3>2. Adds(sink.file, sink.batch)
      BY <2>3, <3>1 DEF Adds
    <3>3. Added' \subseteq Added \cup {sink.file}
      BY <1>1, <2>3 DEF Added
    <3> QED
      BY <1>1, <2>1, <2>2, <3>2, <3>3
  <2>4. CASE UNCHANGED <<snapshots, commits, appended>>
    <3>1. Same /\ Added' = Added
      BY <1>1, <2>4, SameCurrent DEF Same, Added
    <3> QED
      BY <1>1, <2>2, <3>1
  <2> QED
    BY <1>4, <2>3, <2>4 DEF AppendCommit
<1>5. CASE (\E b \in Batches : WriteEvents(b)) \/ SinkDone \/ SinkRetry \/ SinkError
  <2>1. UNCHANGED <<snapshots, commits, appended>>
    BY <1>5 DEF WriteEvents, SinkDone, SinkRetry, SinkError, history
  <2>2. sink'.pc # "commit"
    BY <1>1, <1>5, SinkLeaves
  <2>3. Same /\ Added' = Added
    BY <1>1, <2>1, SameCurrent DEF Same, Added
  <2> QED
    BY <1>1, <2>2, <2>3 DEF SinkRowsFit
<1> QED
  BY <1>2, <1>3, <1>4, <1>5 DEF Write

(* What a maintenance run does to the table, and the rows in its hands.       *)
LEMMA RunRows ==
  ASSUME SnapshotInv, RowsInv, SnapshotsFit', KeepsRows, NEW m \in Maintainers,
         Alone(m), Moves(m)
  PROVE  /\ Same \/ \E f \in Files : Replaces(f)
         /\ Same /\ Rows(Current.files)' = Rows(Current.files) => RunRowsFit(m)'
         /\ ~Same => RunRowsFit(m)'
<1>1. /\ Typed /\ SnapshotsFit /\ commits \in Nat /\ files \in FileTable /\ maint[m] \in Run
      /\ UNCHANGED appended /\ Current.id = commits
      /\ maint[m].pc = "overwrite" => maint[m].file \in Files /\ maint[m].file \in Used
  BY StoreTyped, CurrentFacts
     DEF SnapshotInv, Typed, RowsInv, Needed, Pending, Alone, history
<1>2. CASE CommitsRows(m)
  <2>1. /\ maint[m].pc = "overwrite" /\ maint[m].base = commits /\ maint'[m].pc \in Quiet
        /\ Commit({maint[m].file})
    BY <1>2 DEF CommitsRows
  <2>2. files[maint[m].file].rows = Rows(Current.files)
    BY <2>1 DEF RowsInv, RunRowsFit
  <2>3. Replaces(maint[m].file)
    BY <1>1, <2>1, <2>2 DEF Replaces
  <2>4. RunRowsFit(m)'
    BY <2>1 DEF RunRowsFit, Quiet
  <2> QED
    BY <1>1, <2>1, <2>3, <2>4
<1>3. CASE TakesRows(m)
  <2>1. Same
    BY <1>1, <1>3, SameCurrent DEF TakesRows, Same
  <2>2. Rows(Current.files)' = Rows(Current.files) => RunRowsFit(m)'
    BY <1>1, <1>3 DEF TakesRows, RunRowsFit
  <2> QED
    BY <2>1, <2>2
<1>4. CASE WritesRows(m)
  <2>1. /\ NewFile \in Files /\ WriteFile(NewFile, maint[m].rows) /\ maint'[m].file = NewFile
        /\ maint'[m].rows = maint[m].rows /\ maint'[m].base = maint[m].base
        /\ maint[m].pc = "rewrite" /\ maint'[m].pc = "overwrite"
        /\ UNCHANGED <<snapshots, commits>>
    BY <1>4, NewFileFacts DEF WritesRows
  <2>2. Same
    BY <1>1, <2>1, SameCurrent DEF Same
  <2>3. files'[NewFile].rows = maint[m].rows
    BY <1>1, <2>1 DEF WriteFile, FileTable
  <2>4. Rows(Current.files)' = Rows(Current.files) => RunRowsFit(m)'
    BY <2>1, <2>3 DEF RunRowsFit, RowsInv
  <2> QED
    BY <2>2, <2>4
<1>5. CASE GoesOn(m) \/ ChoosesSnapshots(m) \/ TakesReferences(m) \/ ChoosesOrphans(m)
           \/ ExpiresOne(m) \/ DeletesSome(m)
  <2>1. /\ snapshots' \subseteq snapshots /\ UNCHANGED commits
        /\ maint'[m].pc \notin {"rewrite", "overwrite"}
    BY <1>5 DEF GoesOn, ChoosesSnapshots, TakesReferences, ChoosesOrphans, ExpiresOne, DeletesSome,
                Quiet
  <2>2. Same
    BY <1>1, <2>1, SameCurrent DEF Same
  <2> QED
    BY <2>1, <2>2 DEF RunRowsFit
<1> QED
  BY <1>2, <1>3, <1>4, <1>5 DEF Moves

(* The rows in the hands of the others: stale once the table has moved on.    *)
LEMMA OthersRows ==
  ASSUME SnapshotInv, RowsInv, KeepsRows, NEW n \in Maintainers, maint'[n] = maint[n],
         \/ Same /\ Rows(Current.files)' = Rows(Current.files)
         \/ commits' = commits + 1
  PROVE  RunRowsFit(n)'
<1>1. /\ commits \in Nat /\ maint[n].base \in Nat
      /\ maint[n].pc = "overwrite" => maint[n].file \in Used
  BY DEF SnapshotInv, Typed, Run, RowsInv, Needed, Pending
<1>2. RunRowsFit(n)
  BY DEF RowsInv
<1>3. CASE Same /\ Rows(Current.files)' = Rows(Current.files)
  BY <1>1, <1>2, <1>3 DEF RunRowsFit, Same, KeepsRows
<1>4. CASE commits' = commits + 1
  <2>1. maint[n].base <= commits => maint[n].base <= commits' /\ maint[n].base # commits'
    BY <1>1, <1>4
  <2> QED
    BY <1>1, <1>2, <2>1 DEF RunRowsFit, KeepsRows
<1> QED
  BY <1>3, <1>4

(* The invariant of the rows is inductive: no append and no compaction loses  *)
(* or repeats one.                                                            *)
LEMMA RowsInductive ==
  ASSUME SnapshotInv, RowsInv, [Next]_vars PROVE RowsInv' /\ RowsStep
<1>1. /\ SnapshotInv' /\ SnapshotsFit' /\ Typed /\ SnapshotsFit /\ Needed \subseteq Used
      /\ Added \subseteq Used
      /\ \A n \in Maintainers : maint[n].pc = "rewrite" => maint[n].rows # {}
  BY SnapshotInductive DEF SnapshotInv, RowsInv, RunRowsFit
<1>2. \A f, s : Adds(f, s) \/ Replaces(f) => commits' = commits + 1
  BY DEF Adds, Replaces, Commit
<1>3. CASE Write
  <2>1. FileStep /\ UNCHANGED maint
    BY <1>3, WriteFiles
       DEF Write, StreamAppend, WriteEvents, AppendFile, AppendCommit, SinkDone, SinkRetry, SinkError
  <2>2. KeepsRows /\ Needed' \subseteq Used'
    BY <1>1, <2>1, FileStepRows
  <2>3. /\ Same \/ \E f \in Files, s \in Sources : Adds(f, s)
        /\ SinkRowsFit' /\ Added' \subseteq Used'
    BY <1>1, <1>3, <2>2, WriteRows
  <2>4. TableHoldsEveryAppend' /\ (Same => Rows(Current.files)' = Rows(Current.files))
    BY <1>1, <2>2, <2>3, TableKept
  <2>5. \A n \in Maintainers : RunRowsFit(n)'
    BY <1>2, <2>1, <2>2, <2>3, <2>4, OthersRows
  <2> QED
    BY <2>2, <2>3, <2>4, <2>5 DEF RowsInv, RowsStep
<1>4. ASSUME NEW m \in Maintainers, Alone(m), Moves(m) PROVE RowsInv' /\ RowsStep
  <2>1. KeepsRows /\ Needed' \subseteq Used'
    <3>1. CASE DeletesSome(m)
      <4>1. \A f \in Files : files'[f].rows = files[f].rows
        BY <1>1, <1>4, <3>1, DeleteFacts DEF OnlyMissing
      <4>2. Used' = Used /\ Needed' \subseteq Needed
        BY <1>1, <1>4, <3>1, DeleteFacts
      <4> QED
        BY <1>1, <4>1, <4>2 DEF KeepsRows, Used
    <3>2. CASE ~DeletesSome(m)
      <4>1. FileStep
        BY <1>1, <1>4, <3>2, RunFiles
      <4> QED
        BY <1>1, <4>1, FileStepRows
    <3> QED
      BY <3>1, <3>2
  <2>2. /\ Same \/ \E f \in Files : Replaces(f)
        /\ Same /\ Rows(Current.files)' = Rows(Current.files) => RunRowsFit(m)'
        /\ ~Same => RunRowsFit(m)'
    BY <1>1, <1>4, <2>1, RunRows
  <2>3. TableHoldsEveryAppend' /\ (Same => Rows(Current.files)' = Rows(Current.files))
    BY <1>1, <2>1, <2>2, TableKept
  <2>4. RunRowsFit(m)'
    BY <2>2, <2>3
  <2>5. \A n \in Maintainers \ {m} : RunRowsFit(n)'
    <3>1. \A n \in Maintainers \ {m} : maint'[n] = maint[n]
      BY <1>4 DEF Alone
    <3> QED
      BY <1>2, <2>1, <2>2, <2>3, <3>1, OthersRows
  <2>6. Added' = Added /\ SinkRowsFit'
    <3>1. UNCHANGED <<sink, appended>>
      BY <1>4 DEF Alone, history
    <3>2. sink.pc = "commit" => sink.file \in Used
      BY <1>1 DEF Typed, Needed, Pending
    <3> QED
      BY <2>1, <3>1, <3>2 DEF Added, SinkRowsFit, RowsInv, KeepsRows
  <2> QED
    BY <1>1, <2>1, <2>2, <2>3, <2>4, <2>5, <2>6 DEF RowsInv, KeepsRows, RowsStep
<1>5. CASE Tick \/ UNCHANGED vars
  <2>1. UNCHANGED <<files, snapshots, commits, sink, maint, appended>>
    BY <1>5 DEF Tick, vars, history
  <2>2. Current' = Current
    BY <2>1 DEF Current
  <2>3. Rows(Current.files)' = Rows(Current.files)
    BY <2>1, <2>2 DEF Rows
  <2>4. Needed' = Needed /\ Used' = Used /\ Added' = Added
    BY <2>1 DEF Needed, Referenced, Pending, Used, Added
  <2>5. TableHoldsEveryAppend'
    BY <2>1, <2>2, <2>3 DEF RowsInv, TableHoldsEveryAppend
  <2>6. SinkRowsFit' /\ \A n \in Maintainers : RunRowsFit(n)'
    BY <2>1, <2>3, <2>4 DEF RowsInv, SinkRowsFit, RunRowsFit
  <2>7. KeepsRows /\ Same
    BY <2>1, <2>2, <2>4 DEF KeepsRows, Same
  <2> QED
    BY <2>4, <2>5, <2>6, <2>7 DEF RowsInv, RowsStep
<1> QED
  BY <1>3, <1>4, <1>5, StepKinds

(* The invariant of the rows at the start: the table is empty and nothing was *)
(* appended.                                                                  *)
LEMMA RowsInitially == Init => RowsInv /\ Current.files = {}
<1> SUFFICES ASSUME Init PROVE RowsInv /\ Current.files = {}
  OBVIOUS
<1>1. /\ \A m \in Maintainers : maint[m].pc = "idle"
      /\ sink.pc = "idle" /\ snapshots = {[id |-> 0, files |-> {}]} /\ commits = 0
      /\ \A s \in Sources : appended[s] = {}
  BY DEF Init, NoRun, NoSink
<1>2. Current.files = {}
  <2> DEFINE first == [id |-> 0, files |-> {}]
  <2>1. snapshots = {first} /\ first.id = commits /\ first.files = {}
    BY <1>1
  <2> HIDE DEF first
  <2> QED
    BY <2>1 DEF Current
<1>3. Needed = {} /\ Added = {} /\ Rows(Current.files) = {}
  BY <1>1, <1>2 DEF Needed, Referenced, Pending, Added, Rows
<1> QED
  BY <1>1, <1>2, <1>3 DEF RowsInv, TableHoldsEveryAppend, SinkRowsFit, RunRowsFit, Added

(* The table as its current snapshot names it, and the rows in the hands of   *)
(* those who will commit.                                                     *)
THEOREM LakehouseRowsInvariant == Spec => []RowsInv
<1>1. Init => SnapshotInv /\ RowsInv
  BY SnapshotInitially, RowsInitially
<1>2. SnapshotInv /\ RowsInv /\ [Next]_vars => (SnapshotInv /\ RowsInv)'
  BY SnapshotInductive, RowsInductive
<1> QED
  BY <1>1, <1>2, PTL DEF Spec

(* Compaction neither drops nor doubles a row, whatever the stream, the sink  *)
(* and other runs do between compact_table's read of the table and its        *)
(* overwrite: the catalog refuses an overwrite of a table that has moved on.  *)
THEOREM LakehouseTableHoldsEveryAppend == Spec => []TableHoldsEveryAppend
<1>1. RowsInv => TableHoldsEveryAppend
  BY DEF RowsInv
<1> QED
  BY <1>1, LakehouseRowsInvariant, PTL

(* What the table and its snapshots hold, by rows.                            *)
Holds == Rows(Current.files)
Versions == {Rows(s.files) : s \in snapshots}

(* A snapshot that is kept holds what it held: its files are never rewritten. *)
LEMMA KeptVersions ==
  ASSUME RowsInv, KeepsRows, NEW s \in snapshots
  PROVE  Rows(s.files)' = Rows(s.files)
<1>1. \A f \in s.files : files'[f].rows = files[f].rows
  BY DEF RowsInv, Needed, Referenced, KeepsRows
<1> QED
  BY <1>1 DEF Rows

(* A commit adds the version it makes current, and no other.                  *)
LEMMA CommittedVersions ==
  ASSUME SnapshotInv, SnapshotsFit', RowsInv, KeepsRows, NEW fs \in SUBSET Files, Commit(fs)
  PROVE  Versions' = Versions \cup {Holds'}
<1>1. PICK new : snapshots' = snapshots \cup {new} /\ new.files = fs
  <2>1. snapshots' = snapshots \cup {[id |-> commits + 1, files |-> fs]}
    BY DEF Commit
  <2> WITNESS [id |-> commits + 1, files |-> fs]
  <2> QED
    BY <2>1
<1>2. Rows(new.files)' = Holds'
  <2>1. Current'.files = fs
    BY CommittedCurrent DEF SnapshotInv
  <2> QED
    BY <1>1, <2>1 DEF Holds, Rows
<1>3. \A s \in snapshots : Rows(s.files)' = Rows(s.files)
  BY KeptVersions
<1>4. \A v : v \in Versions' <=> \E s \in snapshots \cup {new} : v = Rows(s.files)'
  BY <1>1 DEF Versions
<1>5. \A v : v \in Versions <=> \E s \in snapshots : v = Rows(s.files)
  BY DEF Versions
<1> QED
  BY <1>2, <1>3, <1>4, <1>5

(* The step of the contract that a step of the table is: an append of one     *)
(* row; for a compaction, nothing; for everything else, at most an expiry.    *)
LEMMA TableStep ==
  ASSUME SnapshotInv, RowsInv, [Next]_vars
  PROVE  \/ \E r \in Files \ Holds : Holds' = Holds \cup {r} /\ Versions' = Versions \cup {Holds'}
         \/ Holds' = Holds /\ Versions' \subseteq Versions /\ Holds' \in Versions'
<1>1. /\ SnapshotInv' /\ SnapshotsFit' /\ Typed' /\ SnapshotStep
      /\ RowsInv' /\ RowsStep /\ KeepsRows
      /\ Typed /\ SnapshotsFit
  BY SnapshotInductive, RowsInductive DEF SnapshotInv, RowsStep
<1>2. /\ Current \in snapshots /\ Current.files \in SUBSET Files
      /\ Holds = Added /\ Holds' = Added' /\ appended \in [Sources -> SUBSET Files]
      /\ Holds \in Versions
  BY <1>1, CurrentFacts DEF RowsInv, TableHoldsEveryAppend, Added, Holds, Versions, Typed
<1>3. CASE Same
  <2>1. snapshots' \subseteq snapshots
    <3>1. \A s \in snapshots' : s.id \in 0..commits' /\ commits \in Nat /\ commits' = commits
      BY <1>1, <1>3 DEF Typed, TypeOK, Same
    <3>2. \A s \in snapshots' : s \in snapshots \/ s.id > commits
      BY <1>1 DEF SnapshotStep
    <3> QED
      BY <3>1, <3>2
  <2>2. Versions' \subseteq Versions
    <3>1. \A s \in snapshots' : Rows(s.files)' = Rows(s.files) /\ s \in snapshots
      BY <1>1, <2>1, KeptVersions
    <3>2. \A v \in Versions' : \E s \in snapshots' : v = Rows(s.files)'
      BY DEF Versions
    <3> QED
      BY <3>1, <3>2 DEF Versions
  <2>3. Holds' \in Versions'
    <3>1. Current' \in snapshots'
      BY <1>1 DEF SnapshotsFit, Current
    <3> QED
      BY <3>1 DEF Holds, Versions
  <2>4. Holds' = Holds
    BY <1>2, <1>3 DEF Same, Added
  <2> QED
    BY <2>2, <2>3, <2>4
<1>4. ASSUME NEW f \in Files, NEW s \in Sources, Adds(f, s)
      PROVE  f \notin Holds /\ Holds' = Holds \cup {f} /\ Versions' = Versions \cup {Holds'}
  <2>1. Current.files \cup {f} \in SUBSET Files
    BY <1>2
  <2>2. Versions' = Versions \cup {Holds'}
    BY <1>1, <1>4, <2>1, CommittedVersions DEF Adds
  <2>3. /\ appended'[s] = appended[s] \cup {f}
        /\ \A t \in Sources : t # s => appended'[t] = appended[t]
    BY <1>2, <1>4 DEF Adds
  <2>4. Added' = Added \cup {f}
    BY <2>3 DEF Added
  <2> QED
    BY <1>2, <1>4, <2>2, <2>4 DEF Adds
<1>5. ASSUME NEW f \in Files, Replaces(f) PROVE Holds' = Holds /\ Versions' = Versions
  <2>1. Added' = Added
    BY <1>5 DEF Replaces, Added
  <2>2. Versions' = Versions \cup {Holds'}
    BY <1>1, <1>5, CommittedVersions DEF Replaces
  <2> QED
    BY <1>2, <2>1, <2>2
<1> QED
  BY <1>1, <1>2, <1>3, <1>4, <1>5 DEF RowsStep

(* To its readers the table is that of TableContract: append, conflict,       *)
(* retry, compaction, expiry and cleanup, however they overlap, come to one   *)
(* append at a time, to the loss of old versions, or to nothing.              *)
THEOREM LakehouseRefinement == Spec => ImplementsTable
<1>1. Init => SnapshotInv /\ RowsInv /\ Table!Init
  <2> SUFFICES ASSUME Init PROVE Table!Init
    BY SnapshotInitially, RowsInitially
  <2>1. Current.files = {} /\ \A s \in snapshots : s.files = {}
    BY RowsInitially DEF Init
  <2>2. snapshots # {} /\ Rows({}) = {}
    BY DEF Init, Rows
  <2> QED
    BY <2>1, <2>2 DEF Table!Init
<1>2. SnapshotInv /\ RowsInv /\ [Next]_vars
        => (SnapshotInv /\ RowsInv)' /\ [Table!Next]_Table!vars
  <2> SUFFICES ASSUME SnapshotInv, RowsInv, [Next]_vars PROVE [Table!Next]_Table!vars
    BY SnapshotInductive, RowsInductive
  <2> QED
    BY TableStep DEF Holds, Versions, Table!Next, Table!Append, Table!Expire, Table!vars
<1> QED
  BY <1>1, <1>2, PTL DEF Spec, ImplementsTable, Table!Spec

(* A later snapshot holds what an earlier one does.                           *)
VersionsGrow == \A s, t \in snapshots : s.id <= t.id => Rows(s.files) \subseteq Rows(t.files)

(* A snapshot that was not there before the step is the current one after it. *)
LEMMA NewestIsCurrent ==
  ASSUME SnapshotInv, RowsInv, [Next]_vars, NEW s \in snapshots', s \notin snapshots
  PROVE  s = Current' /\ \A t \in snapshots : t.id < s.id
<1>1. /\ SnapshotsFit' /\ Typed' /\ SnapshotStep /\ RowsStep /\ Typed /\ SnapshotsFit
      /\ commits \in Nat
  BY SnapshotInductive, RowsInductive DEF SnapshotInv, Typed
<1>2. commits' = commits \/ commits' = commits + 1
  BY <1>1 DEF RowsStep, Same, Adds, Replaces, Commit
<1>3. s.id > commits /\ s.id \in 0..commits'
  BY <1>1 DEF SnapshotStep, Typed, TypeOK
<1>4. s.id = commits'
  BY <1>1, <1>2, <1>3
<1>5. Current' \in snapshots' /\ Current'.id = commits'
  BY <1>1 DEF SnapshotsFit, Current
<1>6. \A t \in snapshots : t.id \in 0..commits
  BY <1>1, CurrentFacts
<1>7. s = Current'
  BY <1>1, <1>4, <1>5 DEF SnapshotsFit
<1> QED
  BY <1>1, <1>3, <1>6, <1>7

(* Time travel is true to the past: of two snapshots that are kept, also      *)
(* across compactions and an expiry of those between them, the later holds    *)
(* every row of the earlier (TableCompactor.compact_table overwrites the      *)
(* table, expire_snapshots removes snapshots one by one).                     *)
THEOREM LakehouseVersionsGrow == Spec => []VersionsGrow
<1>1. Init => SnapshotInv /\ RowsInv /\ VersionsGrow
  BY SnapshotInitially, RowsInitially DEF Init, VersionsGrow
<1>2. ASSUME SnapshotInv, RowsInv, VersionsGrow, [Next]_vars
      PROVE  (SnapshotInv /\ RowsInv /\ VersionsGrow)'
  <2>1. /\ (SnapshotInv /\ RowsInv)' /\ KeepsRows /\ Holds \subseteq Holds'
        /\ \A s \in snapshots : Rows(s.files)' = Rows(s.files)
    BY <1>2, SnapshotInductive, RowsInductive, TableStep, KeptVersions DEF RowsStep
  <2>2. \A s \in snapshots : Rows(s.files) \subseteq Holds
    <3>1. /\ Current \in snapshots /\ Current.id = commits
          /\ \A s \in snapshots : s.id <= Current.id
      BY <1>2, CurrentFacts DEF SnapshotInv
    <3> QED
      BY <1>2, <3>1 DEF VersionsGrow, Holds
  <2>3. ASSUME NEW s \in snapshots', NEW t \in snapshots', s.id <= t.id
        PROVE  Rows(s.files)' \subseteq Rows(t.files)'
    <3>1. CASE t \notin snapshots
      <4>1. Rows(t.files)' = Holds'
        BY <1>2, <3>1, NewestIsCurrent DEF Holds
      <4>2. CASE s \in snapshots
        BY <2>1, <2>2, <4>1, <4>2
      <4>3. CASE s \notin snapshots
        BY <1>2, <4>1, <4>3, NewestIsCurrent DEF Holds
      <4> QED
        BY <4>2, <4>3
    <3>2. CASE t \in snapshots
      <4>1. s \in snapshots
        <5>1. s.id \in Int /\ t.id \in Int
          BY <2>1 DEF SnapshotInv, Typed, TypeOK
        <5> QED
          BY <1>2, <2>3, <3>2, <5>1, NewestIsCurrent
      <4> QED
        BY <1>2, <2>1, <2>3, <3>2, <4>1 DEF VersionsGrow
    <3> QED
      BY <3>1, <3>2
  <2> QED
    BY <2>1, <2>3 DEF VersionsGrow
<1> QED
  BY <1>1, <1>2, PTL DEF Spec
-------------------------------------------------------------------------------

(* What the sink counts. Steps that leave a batch's numbers alone; that       *)
(* commit; and that end a call.                                               *)
Rests(b) ==
  /\ appended'[b] = appended[b] /\ acked'[b] = acked[b]
  /\ Earlier(b)' = Earlier(b) /\ Attempts(b) <= Attempts(b)'
  /\ (sink.pc = "refresh" /\ sink.batch = b)' => sink.pc = "refresh" /\ sink.batch = b

Counts(b) ==
  /\ \E f \in Files : f \notin appended[b] /\ appended'[b] = appended[b] \cup {f}
  /\ acked'[b] = acked[b]
  /\ Earlier(b)' = Earlier(b) /\ Attempts(b)' = Attempts(b) + 1

Ends(b) ==
  /\ appended'[b] = appended[b]
  /\ \/ acked'[b] = acked[b]
     \/ acked'[b] = acked[b] + 1 /\ sink.pc = "refresh" /\ sink.batch = b
  /\ Earlier(b)' = Earlier(b) + 1 /\ Attempts(b) <= MaxRetries /\ Attempts(b)' = 0
  /\ sink'.pc = "idle"

(* The arithmetic of one more append of k records.                            *)
LEMMA Distribute == ASSUME NEW n \in Nat, NEW k \in Nat
                    PROVE  (n + 1) * k = n * k + k /\ n * k \in Nat
OBVIOUS

(* The attempts of a batch are a number within the limit of the retries.      *)
LEMMA AttemptsTyped ==
  ASSUME Typed, CountInv, NEW b \in Batches PROVE Attempts(b) \in Nat /\ Attempts(b) <= MaxRetries
<1>1. sink.attempts \in Nat /\ sink.attempts <= MaxRetries /\ MaxRetries \in Nat
  BY LakehouseConfig DEF Typed, TypeOK
<1>2. CASE sink.pc = "commit"
  <2>1. sink.attempts > 0
    BY <1>2 DEF CountInv
  <2>2. sink.attempts - 1 \in Nat /\ sink.attempts - 1 <= MaxRetries
    BY <1>1, <2>1
  <2> QED
    BY <1>1, <1>2, <2>2 DEF Attempts
<1>3. CASE sink.pc # "commit"
  BY <1>1, <1>3 DEF Attempts
<1> QED
  BY <1>2, <1>3

(* The counts of a batch fit after a step that rests, counts an attempt or    *)
(* ends the batch.                                                            *)
LEMMA CountStep ==
  ASSUME Typed, CountInv, NEW b \in Batches, Rests(b) \/ Counts(b) \/ Ends(b),
         Attempts(b)' \in Nat
  PROVE  CountsFit(b)'
<1> DEFINE c == Cardinality(appended[b])
           product == Earlier(b) * MaxRetries
<1>1. /\ IsFiniteSet(appended[b]) /\ Earlier(b) \in Nat /\ MaxRetries \in Nat
      /\ Attempts(b) \in Nat /\ acked[b] \in Nat
      /\ c <= product + Attempts(b) /\ acked[b] <= c
      /\ sink.pc = "refresh" /\ sink.batch = b => acked[b] < c
  BY AttemptsTyped, LakehouseConfig DEF CountInv, CountsFit, Typed, Sources
<1>2. c \in Nat /\ product \in Nat /\ (Earlier(b) + 1) * MaxRetries = product + MaxRetries
  BY <1>1, Distribute, FS_CardinalityType
<1>3. CASE Rests(b)
  <2>1. Cardinality(appended'[b]) = c /\ Earlier(b)' * MaxRetries = product
    BY <1>3 DEF Rests
  <2> HIDE DEF c, product
  <2>2. c <= product + Attempts(b)'
    BY <1>1, <1>2, <1>3 DEF Rests
  <2> QED
    BY <1>1, <1>3, <2>1, <2>2 DEF Rests, CountsFit
<1>4. CASE Counts(b)
  <2>1. IsFiniteSet(appended'[b]) /\ Cardinality(appended'[b]) = c + 1
    <3>1. PICK f \in Files : f \notin appended[b] /\ appended'[b] = appended[b] \cup {f}
      BY <1>4 DEF Counts
    <3>2. \A S, x : IsFiniteSet(S) /\ x \notin S =>
            IsFiniteSet(S \cup {x}) /\ Cardinality(S \cup {x}) = Cardinality(S) + 1
      BY FS_AddElement
    <3> QED
      BY <1>1, <3>1, <3>2
  <2>2. Earlier(b)' * MaxRetries = product
    BY <1>4 DEF Counts
  <2> HIDE DEF c, product
  <2>3. c + 1 <= product + Attempts(b)' /\ acked[b] < c + 1
    BY <1>1, <1>2, <1>4 DEF Counts
  <2>4. acked[b] <= c + 1
    BY <1>1, <1>2
  <2> QED
    BY <1>1, <1>4, <2>1, <2>2, <2>3, <2>4 DEF Counts, CountsFit
<1>5. CASE Ends(b)
  <2>1. Cardinality(appended'[b]) = c /\ Earlier(b)' * MaxRetries = product + MaxRetries
        /\ Earlier(b)' \in Nat
    BY <1>1, <1>2, <1>5 DEF Ends
  <2> HIDE DEF c, product
  <2>2. c <= product + MaxRetries + Attempts(b)' /\ acked'[b] <= c
    BY <1>1, <1>2, <1>5 DEF Ends
  <2> QED
    BY <1>1, <1>5, <2>1, <2>2 DEF Ends, CountsFit
<1> QED
  BY <1>3, <1>4, <1>5

(* What each step of the sink is for a batch: rest, attempt or end.           *)
LEMMA SinkCountSteps ==
  ASSUME SnapshotInv, RowsInv, CountInv, Typed', Write, NEW b \in Batches
  PROVE  /\ Rests(b) \/ Counts(b) \/ Ends(b)
         /\ sink'.pc = "commit" => sink'.attempts > 0
<1>1. /\ Typed /\ sink \in SinkStates /\ sink.attempts \in Nat /\ sink.attempts <= MaxRetries
      /\ MaxRetries \in Nat /\ calls \in [Sources -> Nat] /\ acked \in [Sources -> Nat]
      /\ appended \in [Sources -> SUBSET Files] /\ b \in Sources /\ b # Stream
      /\ Batches \subseteq Sources /\ Stream \in Sources /\ calls[b] \in Nat /\ acked[b] \in Nat
      /\ sink.pc # "idle" => sink.batch \in Batches
      /\ sink.pc = "commit" => sink.attempts > 0
  BY LakehouseConfig DEF SnapshotInv, Typed, TypeOK, SinkStates, Sources, CountInv, Stream
<1>2. NoSink.pc = "idle"
  BY DEF NoSink
<1>3. CASE StreamAppend
  <2>1. UNCHANGED <<sink, calls, acked>> /\ appended'[b] = appended[b]
    BY <1>1, <1>3 DEF StreamAppend
  <2>2. Earlier(b)' = Earlier(b) /\ Attempts(b)' = Attempts(b)
    BY <2>1 DEF Earlier, Attempts
  <2>3. Attempts(b) \in Nat
    BY <1>1, AttemptsTyped
  <2> QED
    BY <1>1, <2>1, <2>2, <2>3 DEF Rests
<1>4. ASSUME NEW x \in Batches, WriteEvents(x)
      PROVE  Rests(b) /\ sink'.pc # "commit"
  <2>1. /\ sink.pc = "idle" /\ UNCHANGED <<appended, acked>>
        /\ calls' = [calls EXCEPT ![x] = @ + 1]
        /\ sink'.pc = "write" /\ sink'.batch = x /\ sink'.attempts = 0
    <3>1. /\ sink.pc = "idle" /\ UNCHANGED <<appended, acked>>
          /\ calls' = [calls EXCEPT ![x] = @ + 1]
          /\ sink' = [NoSink EXCEPT !.pc = "write", !.batch = x, !.base = Current.id]
      BY <1>4 DEF WriteEvents
    <3> QED
      BY <3>1 DEF NoSink
  <2>2. x = b => calls'[b] = calls[b] + 1
    BY <1>1, <2>1
  <2>3. x # b => calls'[b] = calls[b]
    BY <1>1, <2>1
  <2>4. Earlier(b)' = Earlier(b)
    BY <1>1, <2>1, <2>2, <2>3 DEF Earlier
  <2>5. Attempts(b)' = 0 /\ Attempts(b) = 0
    BY <2>1 DEF Attempts
  <2> QED
    BY <2>1, <2>4, <2>5 DEF Rests
<1>5. CASE AppendFile
  <2>1. /\ sink.pc = "write" /\ UNCHANGED <<appended, calls, acked>>
        /\ sink'.pc = "commit" /\ sink'.batch = sink.batch
        /\ sink'.attempts = sink.attempts + 1
    <3>1. sink' = [sink EXCEPT !.pc = "commit", !.attempts = @ + 1, !.file = NewFile]
      BY <1>5 DEF AppendFile
    <3>2. sink' = [sink EXCEPT !.pc = "commit", !.attempts = sink.attempts + 1, !.file = NewFile]
      BY <1>1, <3>1 DEF SinkStates
    <3>3. \A n : LET q == [sink EXCEPT !.pc = "commit", !.attempts = n, !.file = NewFile]
                 IN  q.pc = "commit" /\ q.batch = sink.batch /\ q.attempts = n
      BY <1>1 DEF SinkStates
    <3> QED
      BY <1>5, <3>2, <3>3 DEF AppendFile, history
  <2>2. sink'.attempts > 0 /\ sink'.attempts - 1 = sink.attempts
    BY <1>1, <2>1
  <2>3. Earlier(b)' = Earlier(b) /\ Attempts(b)' = Attempts(b)
    BY <2>1, <2>2 DEF Earlier, Attempts
  <2>4. Attempts(b) \in Nat
    BY <1>1, AttemptsTyped
  <2> QED
    BY <2>1, <2>2, <2>3, <2>4 DEF Rests
<1>6. ASSUME NEW pc \in {"refresh", "retry"}, sink' = [sink EXCEPT !.pc = pc]
      PROVE  sink'.pc = pc /\ sink'.batch = sink.batch /\ sink'.attempts = sink.attempts
  BY <1>1, <1>6 DEF SinkStates
<1>7. CASE AppendCommit
  <2>1. /\ sink.pc = "commit" /\ UNCHANGED <<calls, acked>> /\ sink.file \in Files
        /\ \E pc \in {"refresh", "retry"} : sink' = [sink EXCEPT !.pc = pc]
    BY <1>1, <1>7 DEF AppendCommit, Typed
  <2>2. sink'.pc \in {"refresh", "retry"} /\ sink'.batch = sink.batch
        /\ sink'.attempts = sink.attempts
    BY <1>6, <2>1
  <2>3. Earlier(b)' = Earlier(b)
    BY <2>1, <2>2 DEF Earlier
  <2>4. /\ sink.batch = b => Attempts(b) = sink.attempts - 1 /\ Attempts(b)' = sink.attempts
        /\ sink.batch # b => Attempts(b) = 0 /\ Attempts(b)' = 0
    BY <2>1, <2>2 DEF Attempts
  <2>5. sink.batch = b => Attempts(b)' = Attempts(b) + 1 /\ Attempts(b) <= Attempts(b)'
    BY <1>1, <2>4
  <2>6. CASE /\ appended' = [appended EXCEPT ![sink.batch] = @ \cup {sink.file}]
    <3>1. sink.file \notin appended[b]
      BY <1>1, <2>1 DEF RowsInv, SinkRowsFit, Added
    <3>2. CASE sink.batch = b
      <4>1. appended'[b] = appended[b] \cup {sink.file}
        BY <1>1, <2>6, <3>2
      <4> QED
        BY <2>1, <2>2, <2>3, <2>5, <3>1, <3>2, <4>1 DEF Counts
    <3>3. CASE sink.batch # b
      <4>1. appended'[b] = appended[b]
        BY <1>1, <2>6, <3>3
      <4> QED
        BY <2>1, <2>2, <2>3, <2>4, <3>3, <4>1 DEF Rests
    <3> QED
      BY <3>2, <3>3
  <2>7. CASE UNCHANGED appended /\ sink' = [sink EXCEPT !.pc = "retry"]
    <3>1. sink'.pc = "retry"
      BY <1>6, <2>7
    <3>2. Attempts(b) <= Attempts(b)'
      BY <2>4, <2>5
    <3> QED
      BY <2>1, <2>3, <2>7, <3>1, <3>2 DEF Rests
  <2> QED
    BY <1>7, <2>6, <2>7 DEF AppendCommit
<1>8. ASSUME sink' = NoSink, UNCHANGED <<appended, calls>>, sink.pc \in {"refresh", "retry"},
             \/ acked'[b] = acked[b]
             \/ acked'[b] = acked[b] + 1 /\ sink.pc = "refresh" /\ sink.batch = b
      PROVE  Rests(b) \/ Ends(b)
  <2>1. Attempts(b)' = 0 /\ Earlier(b)' = calls[b] /\ sink'.pc = "idle"
    BY <1>2, <1>8 DEF Attempts, Earlier
  <2>2. CASE sink.batch = b
    <3>1. Attempts(b) = sink.attempts /\ Earlier(b) = calls[b] - 1
      BY <1>8, <2>2 DEF Attempts, Earlier
    <3>2. Earlier(b)' = Earlier(b) + 1
      BY <1>1, <2>1, <3>1
    <3> QED
      BY <1>1, <1>8, <2>1, <3>1, <3>2 DEF Ends
  <2>3. CASE sink.batch # b
    BY <1>8, <2>1, <2>3 DEF Attempts, Earlier, Rests
  <2> QED
    BY <2>2, <2>3
<1>9. CASE SinkDone
  <2>1. /\ sink.pc = "refresh" /\ sink' = NoSink /\ UNCHANGED <<appended, calls>>
        /\ acked' = [acked EXCEPT ![sink.batch] = @ + 1]
    BY <1>9 DEF SinkDone
  <2>2. \/ acked'[b] = acked[b]
        \/ acked'[b] = acked[b] + 1 /\ sink.batch = b
    BY <1>1, <2>1
  <2> QED
    BY <1>2, <1>8, <2>1, <2>2
<1>10. CASE SinkRetry
  <2>1. sink.pc = "retry" /\ UNCHANGED <<appended, calls, acked>>
    BY <1>10 DEF SinkRetry, history
  <2>2. CASE sink' = NoSink
    BY <1>2, <1>8, <2>1, <2>2
  <2>3. CASE sink' = [sink EXCEPT !.pc = "write", !.base = Current.id]
    <3>1. sink'.pc = "write" /\ sink'.batch = sink.batch /\ sink'.attempts = sink.attempts
      BY <1>1, <2>3 DEF SinkStates
    <3>2. Earlier(b)' = Earlier(b) /\ Attempts(b)' = Attempts(b)
      BY <2>1, <3>1 DEF Earlier, Attempts
    <3>3. Attempts(b) \in Nat
      BY <1>1, AttemptsTyped
    <3> QED
      BY <2>1, <3>1, <3>2, <3>3 DEF Rests
  <2> QED
    BY <1>10, <2>2, <2>3 DEF SinkRetry
<1>11. CASE SinkError
  <2>1. sink.pc \in {"write", "refresh", "retry"} /\ UNCHANGED <<appended, calls, acked>>
    BY <1>11 DEF SinkError, history
  <2>2. CASE sink.pc = "retry"
    <3>1. sink' = NoSink
      BY <1>11, <2>2 DEF SinkError
    <3> QED
      BY <1>2, <1>8, <2>1, <2>2, <3>1
  <2>3. CASE sink.pc = "refresh"
    <3>1. sink' = [sink EXCEPT !.pc = "retry"]
      BY <1>11, <2>3 DEF SinkError
    <3>2. sink'.pc = "retry" /\ sink'.batch = sink.batch /\ sink'.attempts = sink.attempts
      BY <1>6, <3>1
    <3>3. Earlier(b)' = Earlier(b) /\ Attempts(b)' = Attempts(b)
      BY <2>1, <2>3, <3>2 DEF Earlier, Attempts
    <3>4. Attempts(b) \in Nat
      BY <1>1, AttemptsTyped
    <3> QED
      BY <2>1, <3>2, <3>3, <3>4 DEF Rests
  <2>4. CASE sink.pc = "write"
    <3>1. sink' = [sink EXCEPT !.pc = "retry", !.attempts = @ + 1]
      BY <1>11, <2>4 DEF SinkError
    <3>2. sink' = [sink EXCEPT !.pc = "retry", !.attempts = sink.attempts + 1]
      BY <1>1, <3>1 DEF SinkStates
    <3>3. \A n : LET q == [sink EXCEPT !.pc = "retry", !.attempts = n]
                 IN  q.pc = "retry" /\ q.batch = sink.batch /\ q.attempts = n
      BY <1>1 DEF SinkStates
    <3>4. sink'.pc = "retry" /\ sink'.batch = sink.batch /\ sink'.attempts = sink.attempts + 1
      BY <3>2, <3>3
    <3>5. Earlier(b)' = Earlier(b)
      BY <2>1, <2>4, <3>4 DEF Earlier
    <3>6. /\ sink.batch = b => Attempts(b) = sink.attempts /\ Attempts(b)' = sink.attempts + 1
          /\ sink.batch # b => Attempts(b) = 0 /\ Attempts(b)' = 0
      BY <2>4, <3>4 DEF Attempts
    <3>7. Attempts(b) <= Attempts(b)'
      BY <1>1, <3>6
    <3> QED
      BY <2>1, <3>4, <3>5, <3>7 DEF Rests
  <2> QED
    BY <2>1, <2>2, <2>3, <2>4
<1> QED
  BY <1>3, <1>4, <1>5, <1>7, <1>9, <1>10, <1>11 DEF Write

(* The invariant of the counts is inductive.                                  *)
LEMMA CountInductive ==
  ASSUME SnapshotInv, RowsInv, CountInv, [Next]_vars PROVE CountInv'
<1>1. Typed /\ Typed'
  BY StepKinds DEF SnapshotInv
<1>2. ASSUME sink'.pc = "commit" => sink'.attempts > 0,
             NEW b \in Batches, Rests(b) \/ Counts(b) \/ Ends(b)
      PROVE  CountsFit(b)'
  <2>1. Attempts(b)' \in Nat
    <3>1. sink'.attempts \in Nat
      BY <1>1 DEF Typed, SinkStates
    <3>2. CASE sink'.pc = "commit"
      <4>1. sink'.attempts - 1 \in Nat
        BY <1>2, <3>1, <3>2
      <4> QED
        BY <3>2, <4>1 DEF Attempts
    <3>3. CASE sink'.pc # "commit"
      BY <3>1, <3>3 DEF Attempts
    <3> QED
      BY <3>2, <3>3
  <2> QED
    BY <1>1, <1>2, <2>1, CountStep
<1>3. CASE Write
  <2>1. \A b \in Batches : Rests(b) \/ Counts(b) \/ Ends(b)
    BY <1>1, <1>3, SinkCountSteps
  <2>2. sink'.pc = "commit" => sink'.attempts > 0
    <3>1. CASE sink'.pc = "commit"
      <4>1. sink'.batch \in Batches
        BY <1>1, <3>1 DEF Typed
      <4> QED
        BY <1>1, <1>3, <4>1, SinkCountSteps
    <3> QED
      BY <3>1
  <2> QED
    BY <1>2, <2>1, <2>2 DEF CountInv
<1>4. CASE UNCHANGED <<sink, appended, calls, acked>>
  <2>1. ASSUME NEW b \in Batches PROVE CountsFit(b)'
    <3>1. Earlier(b)' = Earlier(b) /\ Attempts(b)' = Attempts(b)
      BY <1>4 DEF Earlier, Attempts
    <3> QED
      BY <1>4, <3>1 DEF CountInv, CountsFit
  <2> QED
    BY <1>4, <2>1 DEF CountInv
<1> QED
  BY <1>3, <1>4, StepKinds DEF Tick, vars, Alone, history

(* The invariant of the counts at the start: no batch was ever attempted.     *)
LEMMA CountInitially == Init => CountInv
<1> SUFFICES ASSUME Init PROVE CountInv
  OBVIOUS
<1>1. sink.pc = "idle" /\ \A b \in Batches : appended[b] = {} /\ calls[b] = 0 /\ acked[b] = 0
  BY DEF Init, NoSink, Zero, Sources
<1>2. \A b \in Batches : Earlier(b) = 0 /\ Attempts(b) = 0
  BY <1>1 DEF Earlier, Attempts
<1>3. 0 * MaxRetries + 0 = 0
  <2>1. \A n \in Nat : 0 * n + 0 = 0
    OBVIOUS
  <2> QED
    BY <2>1, LakehouseConfig
<1>4. IsFiniteSet({}) /\ Cardinality({}) = 0
  BY FS_EmptySet
<1>5. ASSUME NEW b \in Batches PROVE CountsFit(b)
  <2>1. /\ appended[b] = {} /\ acked[b] = 0 /\ sink.pc # "refresh"
        /\ Earlier(b) = 0 /\ Attempts(b) = 0
    BY <1>1, <1>2
  <2>2. Cardinality(appended[b]) <= Earlier(b) * MaxRetries + Attempts(b)
    BY <1>3, <1>4, <2>1
  <2> QED
    BY <1>4, <2>1, <2>2 DEF CountsFit
<1> QED
  BY <1>1, <1>5 DEF CountInv

(* Whoever was told that a batch was written finds it in the table, and no    *)
(* call appends more often than it may try: write_events, whose append may    *)
(* have gone through although its answer or the refresh after it was lost.    *)
THEOREM LakehouseSinkCounts == Spec => []SinkCounts
<1>1. Init => SnapshotInv /\ RowsInv /\ CountInv
  BY SnapshotInitially, RowsInitially, CountInitially
<1>2. SnapshotInv /\ RowsInv /\ CountInv /\ [Next]_vars => (SnapshotInv /\ RowsInv /\ CountInv)'
  BY SnapshotInductive, RowsInductive, CountInductive
<1>3. SnapshotInv /\ CountInv => SinkCounts
  <2> SUFFICES ASSUME SnapshotInv, CountInv, NEW b \in Batches
               PROVE  /\ acked[b] <= Cardinality(appended[b])
                      /\ Cardinality(appended[b]) <= calls[b] * MaxRetries
    BY DEF SinkCounts
  <2> DEFINE c == Cardinality(appended[b])
             product == Earlier(b) * MaxRetries
  <2>1. /\ Typed /\ MaxRetries \in Nat /\ calls[b] \in Nat /\ Earlier(b) \in Nat
        /\ acked[b] <= c /\ c <= product + Attempts(b) /\ IsFiniteSet(appended[b])
    BY LakehouseConfig DEF SnapshotInv, Typed, Sources, CountInv, CountsFit
  <2>2. Attempts(b) \in Nat /\ Attempts(b) <= MaxRetries
    BY <2>1, AttemptsTyped
  <2>3. c \in Nat /\ product \in Nat /\ (Earlier(b) + 1) * MaxRetries = product + MaxRetries
    BY <2>1, Distribute, FS_CardinalityType
  <2>4. CASE sink.pc # "idle" /\ sink.batch = b
    <3>1. Earlier(b) = calls[b] - 1
      BY <2>4 DEF Earlier
    <3>2. calls[b] = Earlier(b) + 1
      BY <2>1, <3>1
    <3>3. calls[b] * MaxRetries = product + MaxRetries
      BY <2>3, <3>2
    <3> HIDE DEF c, product
    <3>4. c <= product + MaxRetries
      BY <2>1, <2>2, <2>3
    <3> QED
      BY <2>1, <3>3, <3>4 DEF c
  <2>5. CASE sink.pc = "idle" \/ sink.batch # b
    <3>1. Earlier(b) = calls[b] /\ Attempts(b) = 0
      BY <2>5 DEF Earlier, Attempts
    <3>2. product = calls[b] * MaxRetries
      BY <3>1
    <3> HIDE DEF c, product
    <3>3. c <= product
      BY <2>1, <2>3, <3>1
    <3> QED
      BY <2>1, <3>2, <3>3 DEF c
  <2> QED
    BY <2>4, <2>5
<1> QED
  BY <1>1, <1>2, <1>3, PTL DEF Spec
===============================================================================
