----------------------------- MODULE QualityProofs -----------------------------
(***************************************************************************)
(* Proofs about QualityEngine, BatchQuality and the comparison of schemas, *)
(* for any events, batches, schemas and expectations the assumptions of    *)
(* those modules allow: what duplicate detection promises, that the error  *)
(* an event carries explains its verdict, that the verdict on a batch is   *)
(* that of its events, and what COMPATIBLE and BREAKING mean.              *)
(***************************************************************************)
EXTENDS BatchQuality, SequenceTheorems, FiniteSetTheorems, TLAPS

-------------------------------------------------------------------------------

(* Failures and the verdict made of them.                                     *)
Grades == {"CRITICAL", "HIGH", "MEDIUM", "WARNING"}

Graded(failures) == \A f \in failures : f.severity \in Grades

(* A failure is what it was made of.                                          *)
LEMMA FailureFacts ==
  ASSUME NEW rule, NEW severity
  PROVE  Failure(rule, severity).rule = rule /\ Failure(rule, severity).severity = severity
BY DEF Failure

(* A rule reports its own failure or none.                                    *)
LEMMA WhenFacts ==
  ASSUME NEW fails, NEW failure PROVE When(fails, failure) \subseteq {failure}
BY DEF When

(* Every rule fails with one of four severities: a change of schema that is   *)
(* only informative is no failure.                                            *)
LEMMA DriftGraded == ASSUME NEW e PROVE Graded(SchemaDriftRule(e))
<1>1. \A changes : overall_severity(changes) \in {"CRITICAL", "WARNING", "INFO"}
  BY DEF overall_severity
<1>2. \A f \in SchemaDriftRule(e) : \E severity \in {"CRITICAL", "WARNING"} :
        f = Failure(<<"schema", "drift">>, severity)
  BY <1>1 DEF SchemaDriftRule, When
<1> QED
  BY <1>2, FailureFacts DEF Graded, Grades

(* What the rules but drift and duplicates find.                              *)
Plain(e) ==
  EventIdNotNullRule(e) \cup NotNullRules(e) \cup AmountPositiveRule(e) \cup ImpossibleAmountRule(e)
  \cup AllowedValuesRules(e) \cup TimestampValidRules(e) \cup FutureTimestampRule(e)
  \cup LateEventRule(e)

(* Every rule but the one for duplicates grades its failures, and none        *)
(* reports a duplicate.                                                       *)
LEMMA PlainFacts ==
  ASSUME NEW e, NEW f \in Plain(e)
  PROVE  f.severity \in Grades /\ f.rule[2] # "duplicate"
<1>1. \E what, kind, severity :
        /\ f = Failure(<<what, kind>>, severity)
        /\ kind # "duplicate" /\ severity \in Grades
  BY DEF Plain, EventIdNotNullRule, NotNullRules, AmountPositiveRule, ImpossibleAmountRule,
         AllowedValuesRules, TimestampValidRules, FutureTimestampRule, LateEventRule, When, Grades
<1> QED
  BY <1>1, FailureFacts

(* All failures of an event carry a severity that SEVERITY_WEIGHTS knows.     *)
LEMMA FailuresGraded == ASSUME NEW g, NEW e PROVE Graded(Failures(g, e))
<1>1. Failures(g, e) = Plain(e) \cup SchemaDriftRule(e) \cup DuplicateRules(g, e)
  BY DEF Failures, Plain
<1>2. Graded(DuplicateRules(g, e))
  BY FailureFacts DEF DuplicateRules, When, Graded, Grades
<1> QED
  BY <1>1, <1>2, DriftGraded, PlainFacts DEF Graded

(* The error is one of the failures, and none is heavier.                     *)
LEMMA PrimaryFacts ==
  ASSUME NEW failures, failures # {}, Graded(failures)
  PROVE  LET p == determine_primary_error(failures)
         IN  /\ p \in failures
             /\ \A h \in failures : SEVERITY_WEIGHTS(h.severity) <= SEVERITY_WEIGHTS(p.severity)
<1> DEFINE Weight(f) == SEVERITY_WEIGHTS(f.severity)
<1>1. \A f \in failures : /\ Weight(f) \in {200, 300, 400}
                          /\ Weight(f) = 400 <=> f.severity = "CRITICAL"
                          /\ Weight(f) = 300 <=> f.severity = "HIGH"
  BY DEF Graded, Grades, SEVERITY_WEIGHTS
<1>2. \E f \in failures : \A h \in failures : Weight(h) <= Weight(f)
  <2> HIDE DEF Weight
  <2>1. CASE \E f \in failures : Weight(f) = 400
    BY <1>1, <2>1
  <2>2. CASE (\A f \in failures : Weight(f) # 400) /\ \E f \in failures : Weight(f) = 300
    BY <1>1, <2>2
  <2>3. CASE \A f \in failures : Weight(f) = 200
    BY <2>3
  <2> QED
    BY <1>1, <2>1, <2>2, <2>3
<1> QED
  BY <1>2 DEF determine_primary_error

(* The verdict as it was made of the failures.                                *)
VerdictFits(v) ==
  /\ Graded(v.failures)
  /\ v.status = overall_status(v.failures)
  /\ v.failures # {} => v.error = determine_primary_error(v.failures)

(* A verdict whose error is the primary one of its failures is FAILED exactly *)
(* when this error is of high severity or worse (determine_primary_error).    *)
LEMMA ErrorExplains ==
  ASSUME NEW v, VerdictFits(v), v.failures # {}
  PROVE  v.status = "FAILED" <=> SEVERITY_WEIGHTS(v.error.severity) >= 300
<1>1. /\ v.error \in v.failures /\ v.status = overall_status(v.failures)
      /\ \A h \in v.failures : SEVERITY_WEIGHTS(h.severity) <= SEVERITY_WEIGHTS(v.error.severity)
      /\ \A h \in v.failures : h.severity \in Grades
  BY PrimaryFacts DEF VerdictFits, Graded
<1>2. \A s \in Grades : /\ SEVERITY_WEIGHTS(s) \in {200, 300, 400}
                        /\ SEVERITY_WEIGHTS(s) >= 300 <=> s \in {"CRITICAL", "HIGH"}
  BY DEF Grades, SEVERITY_WEIGHTS
<1>3. v.status = "FAILED" <=> \E h \in v.failures : h.severity \in {"CRITICAL", "HIGH"}
  BY <1>1 DEF overall_status
<1>4. ASSUME NEW h \in v.failures, h.severity \in {"CRITICAL", "HIGH"}
      PROVE  SEVERITY_WEIGHTS(v.error.severity) >= 300
  <2>1. /\ SEVERITY_WEIGHTS(h.severity) \in {200, 300, 400} /\ SEVERITY_WEIGHTS(h.severity) >= 300
        /\ SEVERITY_WEIGHTS(v.error.severity) \in {200, 300, 400}
        /\ SEVERITY_WEIGHTS(h.severity) <= SEVERITY_WEIGHTS(v.error.severity)
    BY <1>1, <1>2, <1>4
  <2> QED
    BY <2>1
<1> QED
  BY <1>1, <1>2, <1>3, <1>4

(* What validate_with_summary answers.                                        *)
LEMMA VerdictFacts ==
  ASSUME NEW g, NEW e
  PROVE  LET v == Verdict(g, e, Failures(g, e))
         IN  /\ VerdictFits(v) /\ v.engine = g /\ v.event = e /\ v.at = now
             /\ v.failures = Failures(g, e)
<1>1. \A failures, status, error :
        LET v == [engine |-> g, failures |-> failures, event |-> e, at |-> now,
                  status |-> status, error |-> error]
        IN  /\ v.engine = g /\ v.failures = failures /\ v.event = e /\ v.at = now
            /\ v.status = status /\ v.error = error
  OBVIOUS
<1> QED
  BY <1>1, FailuresGraded DEF Verdict, VerdictFits
-------------------------------------------------------------------------------

(* The steps of the engines. Events have the parts the rules look at, and the *)
(* memory has a place for their keys.                                         *)
Judgeable(e) == IsEvent(e) /\ {EventKey(e), OrderKey(e)} \subseteq Keys

Rows == UNION {Range(rows) : rows \in Batches}
RowEvents == Rows \cup {Converted(e) : e \in Rows} \cup UNION {Framed(e) : e \in Rows}

(* The batch under way: its rows, and the verdicts on those judged so far.    *)
BatchFits ==
  /\ todo \subseteq Events
  /\ batch = [rows |-> batch.rows, form |-> batch.form, verdicts |-> batch.verdicts]
  /\ batch.rows \in Seq(RowEvents)
  /\ \E V : batch.verdicts \in Seq(V)
  /\ Len(batch.verdicts) <= Len(batch.rows)

(* A row of a DataFrame has the parts of the event, some of them a nan.       *)
LEMMA FrameFacts ==
  ASSUME NEW e, IsEvent(e), NEW d \in Framed(e)
  PROVE  /\ IsEvent(d)
         /\ d.id \in {e.id, "nan"} /\ d.order \in {e.order, "nan"} /\ d.amount \in {e.amount, "nan"}
         /\ DOMAIN d.fields = DOMAIN e.fields
<1>1. PICK nans : d = InFrame(e, nans)
  BY DEF Framed
<1> DEFINE cell(c, v) == IF c \in nans THEN "nan" ELSE v
           fields == [f \in DOMAIN e.fields |-> cell(f, e.fields[f])]
<1>2. d = [e EXCEPT !.id = cell("event_id", e.id), !.order = cell("order_id", e.order),
                    !.amount = cell("amount", e.amount), !.fields = fields]
  BY <1>1 DEF InFrame
<1>3. /\ cell("event_id", e.id) \in {e.id, "nan"} /\ cell("order_id", e.order) \in {e.order, "nan"}
      /\ cell("amount", e.amount) \in {e.amount, "nan"} /\ DOMAIN fields = DOMAIN e.fields
  OBVIOUS
<1> HIDE DEF cell, fields
<1>4. e = [id |-> e.id, order |-> e.order, fields |-> e.fields, amount |-> e.amount, time |-> e.time,
           ingested |-> e.ingested, version |-> e.version, shape |-> e.shape]
  BY DEF IsEvent
<1>5. d = [id |-> cell("event_id", e.id), order |-> cell("order_id", e.order), fields |-> fields,
           amount |-> cell("amount", e.amount), time |-> e.time,
           ingested |-> e.ingested, version |-> e.version, shape |-> e.shape]
  BY <1>2, <1>4
<1> QED
  BY <1>3, <1>5 DEF IsEvent

(* Rows are events, whatever the form they are given in.                      *)
LEMMA RowsAreEvents == \A e \in RowEvents : IsEvent(e)
<1>1. ASSUME NEW d \in Rows PROVE IsEvent(d)
  <2>1. PICK rows \in Batches : \E i \in DOMAIN rows : d = rows[i]
    BY DEF Rows, Range
  <2> QED
    BY <2>1, BatchConfig
<1>2. \A d : IsEvent(d) => IsEvent(Converted(d))
  BY DEF IsEvent, Converted
<1> QED
  BY <1>1, <1>2, FrameFacts DEF RowEvents

(* The events of the stream and those of a batch, converted, have keys that   *)
(* the memory of duplicates can hold.                                         *)
LEMMA EventsJudgeable ==
  /\ \A e \in Events : Judgeable(e) /\ Judgeable([e EXCEPT !.ingested = <<"at", now>>])
  /\ \A e \in RowEvents : Judgeable(Converted(e))
<1>1. \A e, x : IsEvent(e) =>
        /\ LET d == [e EXCEPT !.ingested = x] IN IsEvent(d) /\ d.id = e.id /\ d.order = e.order
        /\ LET d == [e EXCEPT !.amount = x] IN IsEvent(d) /\ d.id = e.id /\ d.order = e.order
  BY DEF IsEvent
<1>2. \A e \in Events : Judgeable(e)
  BY EngineConfig DEF Judgeable, Keys
<1>3. ASSUME NEW e \in Rows PROVE Judgeable(e)
  <2>1. PICK rows \in Batches : \E i \in DOMAIN rows : e = rows[i]
    BY DEF Rows, Range
  <2>2. \A i \in DOMAIN rows :
          IsEvent(rows[i]) /\ {EventKey(rows[i]), OrderKey(rows[i])} \subseteq Keys
    BY BatchConfig
  <2> QED
    BY <2>1, <2>2 DEF Judgeable
<1>4. \A e : Judgeable(e) => Judgeable(Converted(e)) /\ \A x : Judgeable([e EXCEPT !.ingested = x])
  BY <1>1 DEF Judgeable, Converted, EventKey, OrderKey
<1>5. <<"event_id", "nan">> \in Keys /\ <<"order_id", "nan">> \in Keys
  BY DEF Keys
<1>6. ASSUME NEW e \in Rows, NEW d \in Framed(e) PROVE Judgeable(d)
  BY <1>3, <1>5, FrameFacts DEF Judgeable, EventKey, OrderKey
<1> QED
  BY <1>2, <1>3, <1>4, <1>6 DEF RowEvents

(* Every step judges one event by one engine, forgets what the validator has  *)
(* seen, lets time pass, or leaves the engines alone.                         *)
Forgets ==
  /\ seen' = [seen EXCEPT !["validator"] = [k \in Keys |-> Never]]
  /\ news' = [news EXCEPT !["validator"] = << >>]
  /\ last' = NoVerdict
  /\ now' = now

Rests == UNCHANGED <<seen, last, news>> /\ now' \in {now, now + 1}

(* A step of the engines, by the stream or by a batch, judges an event,       *)
(* forgets, or leaves the memory alone.                                       *)
LEMMA EngineSteps ==
  ASSUME BatchFits, [BatchNext]_<<vars, batch, unified>>
  PROVE  \/ \E g \in Engines : \E e : Judgeable(e) /\ Judge(g, e)
         \/ Forgets
         \/ Rests
<1>1. ASSUME NEW e \in Events, ValidateEvent(e)
      PROVE  \E d : Judgeable(d) /\ Judge("validator", d)
  <2> DEFINE d == IF e.ingested[1] = "absent" THEN [e EXCEPT !.ingested = <<"at", now>>] ELSE e
  <2>1. Judgeable(d)
    BY EventsJudgeable
  <2>2. Judge("validator", d)
    BY <1>1 DEF ValidateEvent
  <2> QED
    BY <2>1, <2>2
<1>2. ASSUME NEW e \in todo, Process(e)
      PROVE  Judgeable(e) /\ Judge("reprocessor", e)
  BY <1>2, EventsJudgeable DEF Process, BatchFits
<1>3. ASSUME JudgeRow
      PROVE  \E d : Judgeable(d) /\ Judge("hybrid", d)
  <2> DEFINE n == Len(batch.verdicts) + 1
             d == Converted(batch.rows[n])
  <2>1. batch.rows \in Seq(RowEvents) /\ Len(batch.verdicts) \in Nat
    BY DEF BatchFits
  <2>2. Len(batch.verdicts) < Len(batch.rows) /\ Judge("hybrid", d)
    BY <1>3 DEF JudgeRow
  <2>3. n \in 1..Len(batch.rows)
    BY <2>1, <2>2
  <2>4. batch.rows[n] \in RowEvents
    BY <2>1, <2>3
  <2>5. Judgeable(d)
    BY <2>4, EventsJudgeable
  <2> QED
    BY <2>2, <2>5
<1>4. {"validator", "reprocessor", "hybrid"} = Engines
  BY DEF Engines
<1>5. ASSUME \/ StartAttempt \/ RegisterSchema \/ Tick
             \/ \E rows \in Batches, form \in Forms : ValidateBatch(rows, form)
             \/ FinishBatch \/ UNCHANGED <<vars, batch, unified>>
      PROVE  Rests
  BY <1>5 DEF StartAttempt, RegisterSchema, Tick, ValidateBatch, FinishBatch, vars, Rests
<1>6. ASSUME Reconnect PROVE Forgets
  BY <1>6 DEF Reconnect, Forgets
<1> QED
  BY <1>1, <1>2, <1>3, <1>4, <1>5, <1>6 DEF BatchNext, EngineNext

(* A batch is taken from the list of those that may be validated, and the     *)
(* verdicts follow its rows.                                                  *)
LEMMA BatchRows ==
  ASSUME NEW rows \in Batches, NEW form \in Forms, NEW given \in Given(rows, form)
  PROVE  given \in Seq(RowEvents) /\ (form = "events" => \A i \in DOMAIN given : given[i].amount # "numeral")
<1>1. rows \in Seq(Range(rows)) /\ Range(rows) \subseteq Rows
  BY BatchConfig DEF Rows
<1>2. rows \in Seq(Rows)
  BY <1>1
<1>3. /\ DOMAIN rows = 1..Len(rows) /\ Len(rows) \in Nat
      /\ \A i \in 1..Len(rows) : rows[i] \in Rows
  BY <1>2
<1>4. CASE form = "events"
  <2>1. given = [i \in 1..Len(rows) |-> Converted(rows[i])]
    BY <1>3, <1>4 DEF Given
  <2>2. \A i \in 1..Len(rows) : Converted(rows[i]) \in RowEvents /\ Converted(rows[i]).amount # "numeral"
    <3>1. \A e : IsEvent(e) => Converted(e).amount # "numeral"
      BY DEF IsEvent, Converted
    <3> QED
      BY <1>3, <3>1, RowsAreEvents DEF RowEvents
  <2>3. given \in Seq(RowEvents)
    BY <1>3, <2>1, <2>2, Z3
  <2>4. DOMAIN given = 1..Len(rows) /\ \A i \in 1..Len(rows) : given[i] = Converted(rows[i])
    BY <2>1
  <2> QED
    BY <2>2, <2>3, <2>4
<1>5. CASE form = "dicts"
  BY <1>2, <1>5 DEF Given, RowEvents
<1>6. CASE form = "frame"
  <2>1. /\ given \in [1..Len(rows) -> UNION {Framed(rows[i]) : i \in 1..Len(rows)}]
        /\ \A i \in 1..Len(rows) : given[i] \in Framed(rows[i])
    BY <1>3, <1>6 DEF Given
  <2>2. \A i \in 1..Len(rows) : given[i] \in RowEvents
    BY <1>3, <2>1 DEF RowEvents
  <2>3. given \in [1..Len(rows) -> RowEvents]
    BY <2>1, <2>2
  <2> QED
    BY <1>3, <1>6, <2>3
<1> QED
  BY <1>4, <1>5, <1>6 DEF Forms

(* The shape of a batch under way: as many verdicts as rows at most.          *)
LEMMA BatchShape == BatchSpec => []BatchFits
<1>1. BatchInit => BatchFits
  BY DEF BatchInit, EngineInit, NoBatch, BatchFits
<1>2. ASSUME BatchFits, [BatchNext]_<<vars, batch, unified>>
      PROVE  BatchFits'
  <2>1. /\ batch = [rows |-> batch.rows, form |-> batch.form, verdicts |-> batch.verdicts]
        /\ batch.rows \in Seq(RowEvents) /\ todo \subseteq Events
        /\ Len(batch.verdicts) <= Len(batch.rows)
    BY <1>2 DEF BatchFits
  <2>2. PICK V : batch.verdicts \in Seq(V)
    BY <1>2 DEF BatchFits
  <2>3. ASSUME batch' = batch, todo' \subseteq Events PROVE BatchFits'
    BY <2>1, <2>2, <2>3 DEF BatchFits
  <2>4. ASSUME NEW rows \in Batches, NEW form \in Forms, ValidateBatch(rows, form)
        PROVE  BatchFits'
    <3>1. PICK given \in Given(rows, form) :
            batch' = [rows |-> given, form |-> form, verdicts |-> << >>]
      BY <2>4 DEF ValidateBatch
    <3>2. given \in Seq(RowEvents) /\ todo' = todo
      BY <2>4, BatchRows DEF ValidateBatch, vars
    <3>3. batch'.rows = given /\ batch'.verdicts = << >> /\ batch'.form = form
      BY <3>1
    <3> QED
      BY <3>1, <3>2, <3>3, <2>1 DEF BatchFits
  <2>5. ASSUME JudgeRow PROVE BatchFits'
    <3>1. /\ Len(batch.verdicts) < Len(batch.rows) /\ todo' = todo
          /\ batch' = [batch EXCEPT !.verdicts = Append(@, last')]
      BY <2>5 DEF JudgeRow
    <3>2. /\ batch'.rows = batch.rows /\ batch'.form = batch.form
          /\ batch'.verdicts = Append(batch.verdicts, last')
          /\ batch' = [rows |-> batch'.rows, form |-> batch'.form, verdicts |-> batch'.verdicts]
      BY <3>1, <2>1
    <3>3. batch.verdicts \in Seq(V \cup {last'})
      BY <2>2
    <3>4. /\ Append(batch.verdicts, last') \in Seq(V \cup {last'})
          /\ Len(Append(batch.verdicts, last')) = Len(batch.verdicts) + 1
      BY <3>3
    <3>5. Len(batch'.verdicts) <= Len(batch'.rows)
      BY <3>1, <3>2, <3>4, <2>1, <2>2
    <3> QED
      BY <3>1, <3>2, <3>4, <3>5, <2>1 DEF BatchFits
  <2>6. ASSUME FinishBatch PROVE BatchFits'
    <3>1. batch' = NoBatch /\ todo' = todo
      BY <2>6 DEF FinishBatch, vars
    <3> QED
      BY <3>1, <2>1 DEF BatchFits, NoBatch
  <2>7. ASSUME EngineNext, UNCHANGED batch PROVE todo' \subseteq Events
    BY <2>7, <2>1, EngineConfig
    DEF EngineNext, ValidateEvent, StartAttempt, Process, Reconnect, RegisterSchema, Tick
  <2>8. ASSUME UNCHANGED <<vars, batch, unified>> PROVE BatchFits'
    BY <2>8, <2>3, <2>1 DEF vars
  <2> QED
    BY <1>2, <2>3, <2>4, <2>5, <2>6, <2>7, <2>8 DEF BatchNext
<1> QED
  BY <1>1, <1>2, PTL DEF BatchSpec
-------------------------------------------------------------------------------

(* A judgement leaves the verdict that was made of the failures found.        *)
LEMMA JudgeFacts ==
  ASSUME NEW g \in Engines, NEW e, Judge(g, e)
  PROVE  /\ VerdictFits(last') /\ last'.engine = g /\ last'.event = e /\ last'.at = now
         /\ last'.failures = Failures(g, e) /\ now' = now /\ Remember(g, e)
BY VerdictFacts DEF Judge

LastFits == last.engine \in Engines => VerdictFits(last)

(* The last verdict of an engine is always one that the rules explain.        *)
LEMMA LastVerdict == BatchSpec => []LastFits
<1>1. NoVerdict.engine = "none" /\ "none" \notin Engines
  BY DEF NoVerdict, Engines
<1>2. BatchInit => LastFits
  BY <1>1 DEF BatchInit, EngineInit, LastFits
<1>3. ASSUME BatchFits, LastFits, [BatchNext]_<<vars, batch, unified>>
      PROVE  LastFits'
  <2>1. ASSUME NEW g \in Engines, NEW e, Judge(g, e) PROVE LastFits'
    BY <2>1, JudgeFacts DEF LastFits, VerdictFits
  <2>2. ASSUME Forgets PROVE LastFits'
    BY <2>2, <1>1 DEF Forgets, LastFits
  <2>3. ASSUME Rests PROVE LastFits'
    BY <2>3, <1>3 DEF Rests, LastFits
  <2> QED
    BY <1>3, <2>1, <2>2, <2>3, EngineSteps
<1> QED
  BY <1>2, <1>3, BatchShape, PTL DEF BatchSpec

(* The code a quarantined event carries is that of a failure serious enough   *)
(* to refuse it, and no event is accepted with such a code: whatever rules    *)
(* fail together, the sort by weight in determine_primary_error agrees with   *)
(* the severities by which overall_status decides.                            *)
THEOREM QualityErrorExplainsVerdict == BatchSpec => []ErrorExplainsVerdict
<1>1. LastFits => ErrorExplainsVerdict
  BY ErrorExplains DEF LastFits, ErrorExplainsVerdict
<1> QED
  BY <1>1, LastVerdict, PTL
-------------------------------------------------------------------------------

(* The memory of an engine, m, and the keys it has taken for new, h, at t: a  *)
(* key is remembered with the latest time it was new, and if it is forgotten, *)
(* or was never seen, every such time is more than a window ago.              *)
Arrivals == [keys : SUBSET Keys, at : Nat]

Recalls(m, h, t) ==
  /\ \A i \in DOMAIN h : h[i].at <= t
  /\ \A k \in Keys : \A i \in DOMAIN h :
       k \in h[i].keys => IF m[k] = Never THEN t - h[i].at > Window ELSE h[i].at <= m[k]
  /\ \A k \in Keys : m[k] # Never => \E i \in DOMAIN h : k \in h[i].keys /\ h[i].at = m[k]
  /\ \A i, j \in DOMAIN h :
       i < j /\ h[i].keys \cap h[j].keys # {} => h[j].at - h[i].at > Window

Memories == [Keys -> Nat \cup {Never}]

(* The times in a history, and the window.                                    *)
LEMMA HistoryTimes ==
  ASSUME NEW h \in Seq(Arrivals)
  PROVE  Window \in Nat /\ \A i \in DOMAIN h : h[i].at \in Nat
<1>1. Window \in Nat
  BY EngineConfig
<1>2. \A i \in DOMAIN h : h[i] \in Arrivals
  OBVIOUS
<1>3. \A x \in Arrivals : x.at \in Nat
  BY DEF Arrivals
<1> QED
  BY <1>1, <1>2, <1>3

(* Time passing takes nothing from what the memory says.                      *)
LEMMA RecallsLater ==
  ASSUME NEW m \in Memories, NEW h \in Seq(Arrivals), NEW t \in Nat, Recalls(m, h, t)
  PROVE  Recalls(m, h, t + 1)
<1>1. Window \in Nat /\ \A i \in DOMAIN h : h[i].at \in Nat
  BY HistoryTimes
<1> QED
  BY <1>1 DEF Recalls

(* A new engine has nothing to remember.                                      *)
LEMMA RecallsNothing == ASSUME NEW t PROVE Recalls([k \in Keys |-> Never], << >>, t)
BY DEF Recalls

(* Purging forgets only what is older than the window.                        *)
LEMMA RecallsPurged ==
  ASSUME NEW m \in Memories, NEW h \in Seq(Arrivals), NEW t \in Nat, Recalls(m, h, t),
         NEW p \in Memories,
         \A k \in Keys : p[k] = m[k] \/ (m[k] < t - Window /\ p[k] = Never)
  PROVE  Recalls(p, h, t)
<1>1. Window \in Nat /\ \A i \in DOMAIN h : h[i].at \in Nat
  BY HistoryTimes
<1>2. ASSUME NEW k \in Keys, NEW i \in DOMAIN h, k \in h[i].keys
      PROVE  IF p[k] = Never THEN t - h[i].at > Window ELSE h[i].at <= p[k]
  <2>1. /\ m[k] \in Nat \cup {Never} /\ p[k] \in Nat \cup {Never} /\ h[i].at \in Nat
        /\ IF m[k] = Never THEN t - h[i].at > Window ELSE h[i].at <= m[k]
        /\ p[k] = m[k] \/ (m[k] < t - Window /\ p[k] = Never)
    BY <1>1, <1>2 DEF Recalls, Memories
  <2> QED
    BY <1>1, <2>1 DEF Never
<1>3. \A k \in Keys : p[k] # Never => p[k] = m[k]
  OBVIOUS
<1> QED
  BY <1>2, <1>3 DEF Recalls

(* A key that is not remembered may be taken for new.                         *)
LEMMA RecallsNews ==
  ASSUME NEW m \in Memories, NEW h \in Seq(Arrivals), NEW t \in Nat, Recalls(m, h, t),
         NEW K \in SUBSET Keys, \A k \in K : m[k] = Never
  PROVE  Recalls([k \in Keys |-> IF k \in K THEN t ELSE m[k]],
                 Append(h, [keys |-> K, at |-> t]), t)
<1> DEFINE r == [keys |-> K, at |-> t]
           q == Append(h, r)
           p == [k \in Keys |-> IF k \in K THEN t ELSE m[k]]
           n == Len(h) + 1
<1>1. r.keys = K /\ r.at = t /\ r \in Arrivals
  BY DEF Arrivals
<1> HIDE DEF r
<1>2. /\ DOMAIN h = 1..Len(h) /\ DOMAIN q = 1..n /\ Len(h) \in Nat /\ q[n] = r
      /\ \A i \in DOMAIN h : q[i] = h[i]
      /\ Window \in Nat /\ \A i \in DOMAIN h : h[i].at \in Nat
  BY <1>1, HistoryTimes
<1> HIDE DEF q
<1>3. /\ n \in DOMAIN q /\ DOMAIN h \subseteq DOMAIN q
      /\ \A i \in DOMAIN q : i \in DOMAIN h \/ i = n
      /\ \A i \in DOMAIN h : i < n /\ ~(n < i)
  BY <1>2
<1>4. \A k \in Keys : /\ k \in K => p[k] = t
                      /\ k \notin K => p[k] = m[k]
  OBVIOUS
<1> HIDE DEF p, n
<1>5. \A i \in DOMAIN q : q[i].at <= t
  BY <1>1, <1>2, <1>3 DEF Recalls
<1>6. ASSUME NEW k \in Keys, NEW i \in DOMAIN q, k \in q[i].keys
      PROVE  IF p[k] = Never THEN t - q[i].at > Window ELSE q[i].at <= p[k]
  <2>1. CASE k \in K
    BY <2>1, <1>4, <1>5 DEF Never
  <2>2. CASE k \notin K
    <3>1. i \in DOMAIN h /\ q[i] = h[i]
      BY <2>2, <1>1, <1>2, <1>3, <1>6
    <3> QED
      BY <3>1, <2>2, <1>4, <1>6 DEF Recalls
  <2> QED
    BY <2>1, <2>2
<1>7. ASSUME NEW k \in Keys, p[k] # Never
      PROVE  \E i \in DOMAIN q : k \in q[i].keys /\ q[i].at = p[k]
  <2>1. CASE k \in K
    BY <2>1, <1>1, <1>2, <1>3, <1>4
  <2>2. CASE k \notin K
    <3>1. PICK i \in DOMAIN h : k \in h[i].keys /\ h[i].at = m[k]
      BY <2>2, <1>4, <1>7 DEF Recalls
    <3> QED
      BY <3>1, <2>2, <1>2, <1>3, <1>4
  <2> QED
    BY <2>1, <2>2
<1>8. ASSUME NEW i \in DOMAIN q, NEW j \in DOMAIN q, i < j, q[i].keys \cap q[j].keys # {}
      PROVE  q[j].at - q[i].at > Window
  <2>1. i \in DOMAIN h /\ q[i] = h[i]
    BY <1>2, <1>3, <1>8 DEF n
  <2>2. CASE j = n
    <3>1. PICK k \in K : k \in h[i].keys
      BY <1>1, <1>2, <1>8, <2>1, <2>2
    <3> QED
      BY <3>1, <2>1, <2>2, <1>1, <1>2 DEF Recalls
  <2>3. CASE j # n
    <3>1. j \in DOMAIN h /\ q[j] = h[j]
      BY <2>3, <1>2, <1>3
    <3> QED
      BY <3>1, <2>1, <1>8 DEF Recalls
  <2> QED
    BY <2>2, <2>3
<1> QED
  BY <1>5, <1>6, <1>7, <1>8 DEF Recalls, p, q, r

(* Every engine recalls its history, and a key the latest verdict calls a     *)
(* duplicate was new within the window.                                       *)
MemoryFits ==
  /\ now \in Nat
  /\ seen \in [Engines -> Memories]
  /\ news \in [Engines -> Seq(Arrivals)]
  /\ \A g \in Engines : Recalls(seen[g], news[g], now)

DuplicateWasNew ==
  last.engine \in Engines => \A k \in {EventKey(last.event), OrderKey(last.event)} :
    <<k[1], "duplicate">> \in {f.rule : f \in last.failures} =>
      \E i \in DOMAIN news[last.engine] :
        k \in news[last.engine][i].keys /\ last.at - news[last.engine][i].at <= Window

(* What an engine remembers after an event, whose keys it purges or renews.   *)
LEMMA MemoryAfter ==
  ASSUME MemoryFits, NEW g \in Engines, NEW e, Judgeable(e), Remember(g, e)
  PROVE  /\ seen' \in [Engines -> Memories] /\ news' \in [Engines -> Seq(Arrivals)]
         /\ Recalls(seen'[g], news'[g], now)
         /\ news'[g] = Append(news[g], [keys |-> News(g, e), at |-> now])
         /\ \A o \in Engines \ {g} : seen'[o] = seen[o] /\ news'[o] = news[o]
<1> DEFINE m == seen[g]
           h == news[g]
           K == News(g, e)
           p == [k \in Keys |-> IF k[1] \in Looked(e) THEN Purged(g)[k] ELSE m[k]]
           r == [k \in Keys |-> IF k \in K THEN now ELSE p[k]]
<1>1. /\ now \in Nat /\ m \in Memories /\ h \in Seq(Arrivals) /\ Recalls(m, h, now)
      /\ Window \in Nat
  BY HistoryTimes DEF MemoryFits
<1>2. \A k \in Keys : Purged(g)[k] = IF m[k] < now - Window THEN Never ELSE m[k]
  BY DEF Purged
<1>3. /\ K \in SUBSET Keys /\ \A k \in K : Purged(g)[k] = Never /\ k[1] \in Looked(e)
  BY DEF News, Looked, IsDuplicate, Judgeable
<1>4. /\ p \in Memories
      /\ \A k \in Keys : p[k] = m[k] \/ (m[k] < now - Window /\ p[k] = Never)
      /\ \A k \in K : p[k] = Never
  <2>1. \A k \in Keys : m[k] \in Nat \cup {Never}
    BY <1>1 DEF Memories
  <2>2. \A k \in Keys : p[k] = IF k[1] \in Looked(e) THEN Purged(g)[k] ELSE m[k]
    OBVIOUS
  <2>3. \A k \in Keys : p[k] \in Nat \cup {Never}
    BY <2>1, <2>2, <1>2
  <2>4. p \in [Keys -> Nat \cup {Never}]
    BY <2>3
  <2> HIDE DEF p
  <2> QED
    BY <1>2, <1>3, <2>2, <2>4 DEF Memories
<1> HIDE DEF p
<1>5. Recalls(p, h, now)
  BY <1>1, <1>4, RecallsPurged
<1>6. Recalls(r, Append(h, [keys |-> K, at |-> now]), now)
  BY <1>1, <1>3, <1>4, <1>5, RecallsNews
<1>7. r \in Memories
  BY <1>1, <1>4 DEF Memories
<1>8. seen' = [seen EXCEPT ![g] = r] /\ news' = [news EXCEPT ![g] = Append(h, [keys |-> K, at |-> now])]
  <2>1. [k \in Keys |-> IF k \in News(g, e) THEN now
                        ELSE IF k[1] \in Looked(e) THEN Purged(g)[k] ELSE seen[g][k]] = r
    BY DEF p
  <2>2. /\ seen' = [seen EXCEPT ![g] = [k \in Keys |-> IF k \in News(g, e) THEN now
                                          ELSE IF k[1] \in Looked(e) THEN Purged(g)[k]
                                          ELSE seen[g][k]]]
        /\ news' = [news EXCEPT ![g] = Append(news[g], [keys |-> News(g, e), at |-> now])]
    BY DEF Remember
  <2> QED
    BY <2>1, <2>2
<1>9. [keys |-> K, at |-> now] \in Arrivals
  BY <1>1, <1>3 DEF Arrivals
<1>10. Append(h, [keys |-> K, at |-> now]) \in Seq(Arrivals)
  BY <1>1, <1>9
<1> HIDE DEF r, K
<1>11. seen' \in [Engines -> Memories] /\ news' \in [Engines -> Seq(Arrivals)]
  BY <1>7, <1>8, <1>10 DEF MemoryFits
<1>12. seen'[g] = r /\ news'[g] = Append(h, [keys |-> K, at |-> now])
  BY <1>8 DEF MemoryFits
<1>13. \A o \in Engines \ {g} : seen'[o] = seen[o] /\ news'[o] = news[o]
  BY <1>8 DEF MemoryFits
<1> QED
  BY <1>6, <1>11, <1>12, <1>13 DEF K

(* Only the rules for duplicates speak of duplicates, and of their own key.   *)
LEMMA DuplicateFacts ==
  ASSUME NEW g, NEW e, NEW k \in {EventKey(e), OrderKey(e)}, NEW f \in Failures(g, e),
         f.rule = <<k[1], "duplicate">>
  PROVE  IsDuplicate(g, k)
<1>1. f.rule[2] = "duplicate" /\ f.rule[1] = k[1]
  OBVIOUS
<1>2. f \notin Plain(e)
  BY <1>1, PlainFacts
<1>3. \A h \in SchemaDriftRule(e) : h.rule[2] # "duplicate"
  <2>1. \A h \in SchemaDriftRule(e) : \E severity : h = Failure(<<"schema", "drift">>, severity)
    BY DEF SchemaDriftRule, When
  <2> QED
    BY <2>1, FailureFacts
<1>4. f \in DuplicateRules(g, e)
  BY <1>1, <1>2, <1>3 DEF Failures, Plain
<1>5. \/ IsDuplicate(g, EventKey(e)) /\ f.rule = <<"event_id", "duplicate">>
      \/ IsDuplicate(g, OrderKey(e)) /\ f.rule = <<"order_id", "duplicate">>
  BY <1>4, FailureFacts DEF DuplicateRules, When
<1>6. /\ EventKey(e)[1] = "event_id" /\ OrderKey(e)[1] = "order_id"
  BY DEF EventKey, OrderKey
<1> QED
  BY <1>1, <1>5, <1>6

(* Every step keeps what is known of the memory of duplicates                 *)
(* (DuplicateDetector).                                                       *)
LEMMA DuplicateSteps ==
  ASSUME BatchFits, MemoryFits, DuplicateWasNew, [BatchNext]_<<vars, batch, unified>>
  PROVE  MemoryFits' /\ DuplicateWasNew'
<1>1. ASSUME NEW g \in Engines, NEW e, Judgeable(e), Judge(g, e)
      PROVE  MemoryFits' /\ DuplicateWasNew'
  <2>1. /\ last'.engine = g /\ last'.event = e /\ last'.at = now
        /\ last'.failures = Failures(g, e) /\ now' = now /\ Remember(g, e)
    BY <1>1, JudgeFacts
  <2>2. /\ seen' \in [Engines -> Memories] /\ news' \in [Engines -> Seq(Arrivals)]
        /\ Recalls(seen'[g], news'[g], now)
        /\ news'[g] = Append(news[g], [keys |-> News(g, e), at |-> now])
        /\ \A o \in Engines \ {g} : seen'[o] = seen[o] /\ news'[o] = news[o]
    BY <1>1, <2>1, MemoryAfter
  <2>3. \A o \in Engines : Recalls(seen'[o], news'[o], now')
    BY <2>1, <2>2 DEF MemoryFits
  <2>4. MemoryFits'
    BY <2>1, <2>2, <2>3 DEF MemoryFits
  <2>5. ASSUME NEW k \in {EventKey(e), OrderKey(e)}, IsDuplicate(g, k)
        PROVE  \E i \in DOMAIN news'[g] : k \in news'[g][i].keys /\ now - news'[g][i].at <= Window
    <3>1. k \in Keys /\ now \in Nat /\ seen[g] \in Memories /\ news[g] \in Seq(Arrivals)
      BY <1>1 DEF Judgeable, MemoryFits
    <3>2. seen[g][k] # Never /\ ~(seen[g][k] < now - Window) /\ seen[g][k] \in Nat
      BY <2>5, <3>1 DEF IsDuplicate, Purged, Memories
    <3>3. PICK i \in DOMAIN news[g] : k \in news[g][i].keys /\ news[g][i].at = seen[g][k]
      BY <3>1, <3>2 DEF MemoryFits, Recalls
    <3>4. i \in DOMAIN news'[g] /\ news'[g][i] = news[g][i]
      BY <2>2, <3>1
    <3>5. Window \in Nat
      BY EngineConfig
    <3> QED
      BY <3>1, <3>2, <3>3, <3>4, <3>5
  <2>6. DuplicateWasNew'
    <3> SUFFICES ASSUME NEW k \in {EventKey(e), OrderKey(e)},
                        <<k[1], "duplicate">> \in {f.rule : f \in Failures(g, e)}
                 PROVE  \E i \in DOMAIN news'[g] :
                          k \in news'[g][i].keys /\ now - news'[g][i].at <= Window
      BY <2>1 DEF DuplicateWasNew, EventKey, OrderKey
    <3>1. PICK f \in Failures(g, e) : f.rule = <<k[1], "duplicate">>
      OBVIOUS
    <3> QED
      BY <3>1, <2>5, DuplicateFacts
  <2> QED
    BY <2>4, <2>6
<1>2. ASSUME Forgets PROVE MemoryFits' /\ DuplicateWasNew'
  <2> DEFINE none == [k \in Keys |-> Never]
  <2>1. none \in Memories /\ Recalls(none, << >>, now)
    BY RecallsNothing DEF Memories
  <2> HIDE DEF none
  <2>2. /\ seen' = [seen EXCEPT !["validator"] = none]
        /\ news' = [news EXCEPT !["validator"] = << >>]
        /\ last' = NoVerdict /\ now' = now
    BY <1>2 DEF Forgets, none
  <2>3. << >> \in Seq(Arrivals)
    OBVIOUS
  <2>4. seen' \in [Engines -> Memories] /\ news' \in [Engines -> Seq(Arrivals)]
    BY <2>1, <2>2, <2>3 DEF MemoryFits
  <2>5. \A o \in Engines : \/ seen'[o] = seen[o] /\ news'[o] = news[o]
                           \/ seen'[o] = none /\ news'[o] = << >>
    BY <2>2 DEF MemoryFits
  <2>6. MemoryFits'
    BY <2>1, <2>2, <2>4, <2>5 DEF MemoryFits
  <2>7. DuplicateWasNew'
    BY <2>2 DEF DuplicateWasNew, NoVerdict, Engines
  <2> QED
    BY <2>6, <2>7
<1>3. ASSUME Rests PROVE MemoryFits' /\ DuplicateWasNew'
  <2>1. /\ seen' = seen /\ news' = news /\ last' = last /\ now' \in {now, now + 1} /\ now \in Nat
    BY <1>3 DEF Rests, MemoryFits
  <2>2. \A g \in Engines : Recalls(seen[g], news[g], now + 1)
    BY RecallsLater DEF MemoryFits
  <2>3. \A g \in Engines : Recalls(seen'[g], news'[g], now')
    BY <2>1, <2>2 DEF MemoryFits
  <2>4. MemoryFits'
    BY <2>1, <2>3 DEF MemoryFits
  <2>5. DuplicateWasNew'
    BY <2>1 DEF DuplicateWasNew, EventKey, OrderKey
  <2> QED
    BY <2>4, <2>5
<1> QED
  BY <1>1, <1>2, <1>3, EngineSteps

(* Two events taken for new with the same id or order are more than a window  *)
(* apart, and an event refused as a duplicate had been new within it: however *)
(* purges, failing events, repeated duplicates and passing time interleave,   *)
(* DuplicateEventRule and DuplicateOrderRule lose no key and keep none.       *)
THEOREM QualityDuplicateIffRecent == BatchSpec => []DuplicateIffRecent
<1>1. BatchInit => MemoryFits /\ DuplicateWasNew
  <2> SUFFICES ASSUME BatchInit PROVE MemoryFits /\ DuplicateWasNew
    OBVIOUS
  <2>1. /\ now = 0 /\ last = NoVerdict /\ news = [g \in Engines |-> << >>]
        /\ seen = [g \in Engines |-> [k \in Keys |-> Never]]
    BY DEF BatchInit, EngineInit
  <2>2. [k \in Keys |-> Never] \in Memories /\ << >> \in Seq(Arrivals)
    BY DEF Memories
  <2>3. MemoryFits
    BY <2>1, <2>2, RecallsNothing DEF MemoryFits
  <2>4. DuplicateWasNew
    BY <2>1 DEF DuplicateWasNew, NoVerdict, Engines
  <2> QED
    BY <2>3, <2>4
<1>2. MemoryFits /\ DuplicateWasNew => DuplicateIffRecent
  BY DEF MemoryFits, Recalls, DuplicateWasNew, DuplicateIffRecent
<1> QED
  BY <1>1, <1>2, DuplicateSteps, BatchShape, PTL DEF BatchSpec
-------------------------------------------------------------------------------

(* The failures that Great Expectations can find in a row, too.               *)
Hard(e) ==
  EventIdNotNullRule(e) \cup NotNullRules(e) \cup AmountPositiveRule(e) \cup AllowedValuesRules(e)

(* The rows of the batch under way have been judged as they were converted.   *)
RowsJudged ==
  /\ \A i \in DOMAIN batch.verdicts : /\ VerdictFits(batch.verdicts[i])
                                      /\ Hard(Converted(batch.rows[i])) \subseteq batch.verdicts[i].failures
  /\ batch.form = "events" => \A i \in DOMAIN batch.rows : batch.rows[i].amount # "numeral"
  /\ batch = NoBatch \/ batch.form \in Forms

(* Conversion replaces a numeral by a fair amount and keeps all else.         *)
LEMMA ConvertedFacts ==
  ASSUME NEW e \in RowEvents
  PROVE  /\ Converted(e).id = e.id /\ Converted(e).fields = e.fields
         /\ Converted(e).amount # "numeral"
         /\ e.amount # "numeral" => Converted(e) = e
<1>1. IsEvent(e)
  BY RowsAreEvents
<1> QED
  BY <1>1 DEF IsEvent, Converted

(* Every expectation is of a column the rows have.                            *)
LEMMA ColumnsExist ==
  ASSUME NEW e \in RowEvents, NEW x \in active
  PROVE  x.column \in OwnColumns \cup DOMAIN e.fields
<1>1. ASSUME NEW d \in Rows PROVE x.column \in OwnColumns \cup DOMAIN d.fields
  <2>1. PICK rows \in Batches : \E i \in DOMAIN rows : d = rows[i]
    BY DEF Rows, Range
  <2> QED
    BY <2>1, ExpectationsMatchRules
<1>2. ASSUME NEW d \in Rows PROVE Converted(d).fields = d.fields
  BY ConvertedFacts DEF RowEvents
<1>3. ASSUME NEW d \in Rows, NEW f \in Framed(d) PROVE DOMAIN f.fields = DOMAIN d.fields
  BY FrameFacts, RowsAreEvents DEF RowEvents
<1> QED
  BY <1>1, <1>2, <1>3 DEF RowEvents

(* What an expectation complains of is a hard failure of the rules, unless it *)
(* is a nan in a column in which they look for nulls only.                    *)
LEMMA CellsFail ==
  ASSUME NEW e \in RowEvents, e.amount # "numeral", NEW x \in active,
         \/ Column(e, x.column) = "null"
         \/ /\ x.expectation = "not_null" /\ Column(e, x.column) = "nan"
            /\ x.column \in {"amount"} \cup ListedFields
         \/ x.expectation = "between" /\ Column(e, x.column) \in Text \cup {"nonpositive"}
         \/ x.expectation \notin {"not_null", "between"} /\ Column(e, x.column) = "other"
  PROVE  \E f \in Hard(e) : f.severity \in {"CRITICAL", "HIGH"}
<1>1. \/ x.expectation = "not_null"
      \/ x.expectation = "between" /\ x.column = "amount"
      \/ x.expectation = "in_set" /\ x.column \in ListedFields
  BY ExpectationConfig, ExpectationsMatchRules DEF active, Loads, ValidExpectation, Range
<1>0. /\ "event_id" \notin ListedFields /\ "order_id" \notin ListedFields
      /\ "amount" \notin ListedFields
  BY ExpectationsMatchRules DEF OwnColumns
<1>2. ASSUME NEW rule, NEW severity \in {"CRITICAL", "HIGH"}, Failure(rule, severity) \in Hard(e)
      PROVE  \E f \in Hard(e) : f.severity \in {"CRITICAL", "HIGH"}
  BY <1>2, FailureFacts
<1>3. CASE x.column = "event_id"
  <2>1. e.id = "null"
    BY <1>0, <1>1, <1>3 DEF Column, Text
  <2>2. Failure(<<"event_id", "not_null">>, "CRITICAL") \in Hard(e)
    BY <2>1 DEF Hard, EventIdNotNullRule, When
  <2> QED
    BY <1>2, <2>2
<1>4. CASE x.column = "amount"
  <2>1. e.amount \in {"null", "nan", "text", "nonpositive", "uncomparable"}
    BY <1>0, <1>1, <1>4 DEF Column, Text
  <2>2. \/ Failure(<<"amount", "positive">>, "HIGH") \in Hard(e)
        \/ Failure(<<"amount", "positive">>, "CRITICAL") \in Hard(e)
    BY <2>1 DEF Hard, AmountPositiveRule, When
  <2> QED
    BY <1>2, <2>2
<1>5. CASE x.column = "order_id"
  <2>1. e.order = "null"
    BY <1>0, <1>1, <1>5 DEF Column, Text
  <2>2. Failure(<<"order_id", "not_null">>, "HIGH") \in Hard(e)
    BY <2>1 DEF Hard, NotNullRules, When
  <2> QED
    BY <1>2, <2>2
<1>6. CASE x.column \notin OwnColumns
  <2>1. Column(e, x.column) = e.fields[x.column] /\ x.column \in DOMAIN e.fields
    BY <1>6, ColumnsExist DEF Column, OwnColumns
  <2>2. CASE e.fields[x.column] = "null"
    <3>1. Failure(<<x.column, "not_null">>, "HIGH") \in Hard(e)
      BY <2>1, <2>2 DEF Hard, NotNullRules
    <3> QED
      BY <1>2, <3>1
  <2>3. CASE e.fields[x.column] # "null"
    <3>1. x.column \in ListedFields /\ e.fields[x.column] \in {"other", "nan"}
      BY <1>1, <1>6, <2>1, <2>3 DEF OwnColumns
    <3>2. Failure(<<x.column, "valid">>, "HIGH") \in Hard(e)
      BY <3>1 DEF Hard, AllowedValuesRules
    <3> QED
      BY <1>2, <3>2
  <2> QED
    BY <2>2, <2>3
<1> QED
  BY <1>3, <1>4, <1>5, <1>6 DEF OwnColumns

(* If Great Expectations finds anything in a batch without numerals, and      *)
(* nothing that the rules overlook, one of its events has failed by them:     *)
(* empty texts and missing columns are nulls in some row.                     *)
LEMMA ExpectationsExplained ==
  ASSUME BatchFits, RowsJudged, Len(batch.verdicts) = Len(batch.rows),
         \A i \in DOMAIN batch.rows : batch.rows[i].amount # "numeral", ~Overlooks(batch),
         NEW blank \in SUBSET SomeNull(batch), NEW missing \in SUBSET AllNull(batch),
         GEFailures(batch, blank, missing) # {}
  PROVE  \E i \in DOMAIN batch.verdicts : batch.verdicts[i].status = "FAILED"
<1>1. /\ batch.rows \in Seq(RowEvents) /\ DOMAIN batch.verdicts = DOMAIN batch.rows
      /\ \A i \in DOMAIN batch.rows : batch.rows[i] \in RowEvents
  BY DEF BatchFits
<1> DEFINE cells(x) == {Column(batch.rows[i], x.column) : i \in DOMAIN batch.rows}
<1>2. PICK x \in active :
        Finds(x, cells(x), x.column \in blank, x.column \in missing) # {}
  BY DEF GEFailures
<1> HIDE DEF cells
<1>3. x.column \in missing => "null" \in cells(x)
  BY DEF AllNull, SomeNull, cells
<1>4. \/ "null" \in cells(x)
      \/ x.expectation = "not_null" /\ "nan" \in cells(x)
      \/ x.expectation = "between" /\ cells(x) \cap (Text \cup {"nonpositive"}) # {}
      \/ x.expectation \notin {"not_null", "between"} /\ "other" \in cells(x)
  BY <1>2, <1>3 DEF Finds
<1>5. PICK i \in DOMAIN batch.rows :
        LET c == Column(batch.rows[i], x.column)
        IN  \/ c = "null"
            \/ x.expectation = "not_null" /\ c = "nan" /\ x.column \in {"amount"} \cup ListedFields
            \/ x.expectation = "between" /\ c \in Text \cup {"nonpositive"}
            \/ x.expectation \notin {"not_null", "between"} /\ c = "other"
  BY <1>4 DEF cells, Overlooks
<1>6. \E f \in Hard(batch.rows[i]) : f.severity \in {"CRITICAL", "HIGH"}
  BY <1>1, <1>5, CellsFail
<1>7. /\ VerdictFits(batch.verdicts[i])
      /\ Hard(batch.rows[i]) \subseteq batch.verdicts[i].failures
  BY <1>1, ConvertedFacts DEF RowsJudged
<1>8. batch.verdicts[i].status = "FAILED"
  BY <1>6, <1>7 DEF VerdictFits, overall_status
<1> QED
  BY <1>1, <1>8

(* The number of invalid events is positive if there is one.                  *)
LEMMA InvalidCounted ==
  ASSUME NEW verdicts, NEW V, verdicts \in Seq(V)
  PROVE  Cardinality(InvalidEvents(verdicts)) > 0
           <=> \E i \in DOMAIN verdicts : verdicts[i].status # "HEALTHY"
<1> DEFINE S == {k \in DOMAIN verdicts : verdicts[k].status # "HEALTHY"}
           name == [i \in S |-> EventName(i, verdicts[i].event)]
           T == InvalidEvents(verdicts)
<1>1. T = {name[i] : i \in S}
  BY DEF InvalidEvents
<1>2. DOMAIN verdicts = 1..Len(verdicts) /\ Len(verdicts) \in Nat
  OBVIOUS
<1>3. IsFiniteSet(S)
  <2>1. IsFiniteSet(DOMAIN verdicts)
    BY <1>2, FS_Interval
  <2>2. S \in SUBSET DOMAIN verdicts
    OBVIOUS
  <2> QED
    BY <2>1, <2>2, FS_Subset
<1>4. name \in Surjection(S, T)
  BY <1>1 DEF Surjection
<1>5. IsFiniteSet(T)
  BY <1>3, <1>4, FS_Surjection
<1>6. Cardinality(T) \in Nat /\ (Cardinality(T) = 0 <=> T = {})
  BY <1>5, FS_CardinalityType, FS_EmptySet
<1>7. T = {} <=> S = {}
  BY <1>1
<1> QED
  BY <1>6, <1>7

(* The verdict on a batch whose rows have all been judged.                    *)
LEMMA VerdictExplained ==
  ASSUME BatchFits, RowsJudged, batch # NoBatch, Len(batch.verdicts) = Len(batch.rows),
         NEW blank \in SUBSET SomeNull(batch), NEW missing \in SUBSET AllNull(batch),
         unified' = Unified(batch, GEFailures(batch, blank, missing))
  PROVE  BatchVerdictExplained'
<1> DEFINE ge == GEFailures(batch, blank, missing)
           judgedAs(i) == batch.verdicts[i].failures
           failures == ge \cup UNION {judgedAs(i) : i \in DOMAIN batch.verdicts}
           mixed == \E i \in DOMAIN batch.rows : batch.rows[i].amount = "numeral"
           some == \E i \in DOMAIN batch.verdicts : batch.verdicts[i].status = "FAILED"
<1>1. unified' = [status |-> overall_status(failures),
                  invalid |-> Cardinality(InvalidEvents(batch.verdicts)),
                  events |-> {batch.verdicts[i].status : i \in DOMAIN batch.verdicts},
                  ge |-> build_batch_result(ge),
                  mixed |-> mixed,
                  overlooked |-> Overlooks(batch)]
  BY DEF Unified
<1>2. /\ unified'.status = overall_status(failures)
      /\ unified'.invalid = Cardinality(InvalidEvents(batch.verdicts))
      /\ unified'.events = {batch.verdicts[i].status : i \in DOMAIN batch.verdicts}
      /\ unified'.ge = build_batch_result(ge)
      /\ unified'.mixed = mixed /\ unified'.overlooked = Overlooks(batch)
  <2> HIDE DEF failures, mixed, ge
  <2> QED
    BY <1>1
<1>5. ASSUME ~mixed, ~Overlooks(batch), ge # {} PROVE some
  <2>1. \A i \in DOMAIN batch.rows : batch.rows[i].amount # "numeral"
    BY <1>5
  <2> QED
    BY <1>5, <2>1, ExpectationsExplained
<1>6. \A i \in DOMAIN batch.verdicts : batch.verdicts[i].status = overall_status(judgedAs(i))
  BY DEF RowsJudged, VerdictFits
<1>7. "FAILED" \in unified'.events <=> some
  BY <1>2
<1>8. PICK V : batch.verdicts \in Seq(V)
  BY DEF BatchFits
<1>9. unified'.invalid > 0 <=> \E i \in DOMAIN batch.verdicts : batch.verdicts[i].status # "HEALTHY"
  BY <1>2, <1>8, InvalidCounted
<1>10. \A f \in failures : f \in ge \/ \E i \in DOMAIN batch.verdicts : f \in judgedAs(i)
  OBVIOUS
<1>11. \A i \in DOMAIN batch.verdicts : judgedAs(i) \subseteq failures
  OBVIOUS
<1> HIDE DEF ge, failures, judgedAs
<1>12. /\ unified'.invalid > 0 => unified'.status # "HEALTHY"
       /\ some => unified'.status = "FAILED"
  BY <1>2, <1>6, <1>9, <1>11 DEF overall_status
<1>13. ASSUME ~mixed, ~Overlooks(batch)
       PROVE  /\ unified'.status # "HEALTHY" => unified'.invalid > 0
              /\ unified'.status = "FAILED" => some
  BY <1>2, <1>5, <1>6, <1>9, <1>10, <1>13 DEF overall_status
<1>14. ASSUME ~mixed, ~Overlooks(batch), unified'.ge.critical > 0 PROVE some
  <2>1. unified'.ge.critical = Cardinality({f \in ge : f.severity \in {"CRITICAL", "HIGH"}})
    BY <1>2 DEF build_batch_result
  <2>2. ge = {} => unified'.ge.critical = 0
    BY <2>1, FS_EmptySet
  <2> QED
    BY <1>14, <2>2, <1>5
<1> HIDE DEF mixed, some
<1> QED
  BY <1>2, <1>7, <1>12, <1>13, <1>14 DEF BatchVerdictExplained

(* The rules of a batch find in each converted row at least what is hard, and *)
(* FinishBatch makes the verdict of the batch from all of them.               *)
LEMMA BatchSteps ==
  ASSUME BatchFits, RowsJudged, BatchVerdictExplained, [BatchNext]_<<vars, batch, unified>>
  PROVE  RowsJudged' /\ BatchVerdictExplained'
<1>1. ASSUME UNCHANGED unified PROVE BatchVerdictExplained'
  BY <1>1 DEF BatchVerdictExplained
<1>2. ASSUME UNCHANGED batch PROVE RowsJudged'
  BY <1>2 DEF RowsJudged
<1>3. ASSUME NEW rows \in Batches, NEW form \in Forms, ValidateBatch(rows, form)
      PROVE  RowsJudged' /\ BatchVerdictExplained'
  <2>1. PICK given \in Given(rows, form) :
          batch' = [rows |-> given, form |-> form, verdicts |-> << >>]
    BY <1>3 DEF ValidateBatch
  <2>2. form = "events" => \A i \in DOMAIN given : given[i].amount # "numeral"
    BY BatchRows
  <2>3. batch'.rows = given /\ batch'.verdicts = << >> /\ batch'.form = form
    BY <2>1
  <2>4. RowsJudged'
    BY <2>2, <2>3 DEF RowsJudged
  <2>5. unified' = NoResult
    BY <1>3 DEF ValidateBatch
  <2> QED
    BY <2>4, <2>5 DEF BatchVerdictExplained
<1>4. ASSUME JudgeRow PROVE RowsJudged'
  <2> DEFINE n == Len(batch.verdicts) + 1
             e == Converted(batch.rows[n])
  <2>1. /\ Len(batch.verdicts) < Len(batch.rows) /\ Judge("hybrid", e)
        /\ batch' = [batch EXCEPT !.verdicts = Append(@, last')]
    BY <1>4 DEF JudgeRow
  <2>2. VerdictFits(last') /\ last'.failures = Failures("hybrid", e)
    BY <2>1, JudgeFacts DEF Engines
  <2>3. Hard(e) \subseteq last'.failures
    BY <2>2 DEF Hard, Failures
  <2>4. batch = [rows |-> batch.rows, form |-> batch.form, verdicts |-> batch.verdicts]
    BY DEF BatchFits
  <2>5. /\ batch'.rows = batch.rows /\ batch'.form = batch.form
        /\ batch'.verdicts = Append(batch.verdicts, last')
    BY <2>1, <2>4
  <2>6. PICK V : batch.verdicts \in Seq(V)
    BY DEF BatchFits
  <2>7. \A i \in DOMAIN batch'.verdicts :
          \/ i \in DOMAIN batch.verdicts /\ batch'.verdicts[i] = batch.verdicts[i]
          \/ i = n /\ batch'.verdicts[i] = last'
    BY <2>5, <2>6
  <2>8. batch' # NoBatch => batch'.form \in Forms
    <3>1. batch # NoBatch
      <4>1. ASSUME batch = NoBatch PROVE FALSE
        <5>1. Len(<< >>) < Len(<< >>)
          BY <2>1, <4>1 DEF NoBatch
        <5> QED
          BY <5>1
      <4> QED
        BY <4>1
    <3> QED
      BY <3>1, <2>5 DEF RowsJudged
  <2> HIDE DEF n
  <2> QED
    BY <2>2, <2>3, <2>5, <2>7, <2>8 DEF RowsJudged
<1>5. ASSUME FinishBatch PROVE RowsJudged' /\ BatchVerdictExplained'
  <2>1. batch # NoBatch /\ Len(batch.verdicts) = Len(batch.rows) /\ batch' = NoBatch
    BY <1>5 DEF FinishBatch
  <2>2. PICK blank \in SUBSET SomeNull(batch) :
          \E missing \in SUBSET AllNull(batch) :
            unified' = Unified(batch, GEFailures(batch, blank, missing))
    BY <1>5 DEF FinishBatch
  <2>3. BatchVerdictExplained'
    BY <2>1, <2>2, VerdictExplained
  <2>4. RowsJudged'
    BY <2>1 DEF RowsJudged, NoBatch
  <2> QED
    BY <2>3, <2>4
<1>6. ASSUME \/ JudgeRow \/ (EngineNext /\ UNCHANGED <<batch, unified>>)
             \/ UNCHANGED <<vars, batch, unified>>
      PROVE  UNCHANGED unified
  BY <1>6 DEF JudgeRow
<1>7. ASSUME (EngineNext /\ UNCHANGED <<batch, unified>>) \/ UNCHANGED <<vars, batch, unified>>
      PROVE  UNCHANGED batch
  BY <1>7
<1>8. \/ \E rows \in Batches, form \in Forms : ValidateBatch(rows, form)
      \/ JudgeRow \/ FinishBatch
      \/ (EngineNext /\ UNCHANGED <<batch, unified>>) \/ UNCHANGED <<vars, batch, unified>>
  BY DEF BatchNext
<1>9. CASE \E rows \in Batches, form \in Forms : ValidateBatch(rows, form)
  BY <1>9, <1>3
<1>10. CASE JudgeRow
  BY <1>10, <1>1, <1>4, <1>6
<1>11. CASE (EngineNext /\ UNCHANGED <<batch, unified>>) \/ UNCHANGED <<vars, batch, unified>>
  BY <1>11, <1>1, <1>2, <1>6, <1>7
<1> QED
  BY <1>5, <1>8, <1>9, <1>10, <1>11

(* HybridQualityEngine.validate_batch refuses, in whatever form it is given,  *)
(* every batch with an event the rules refuse, as failed if that has failed;  *)
(* and but for a numeral, which only the rules convert, and a nan where there *)
(* must be a value, which only Great Expectations takes for none, it refuses  *)
(* no other, whatever texts are empty and whatever columns are missing.       *)
THEOREM QualityBatchVerdictExplained == BatchSpec => []BatchVerdictExplained
<1>1. BatchInit => RowsJudged /\ BatchVerdictExplained
  BY DEF BatchInit, NoBatch, RowsJudged, BatchVerdictExplained
<1> QED
  BY <1>1, BatchSteps, BatchShape, PTL DEF BatchSpec
-------------------------------------------------------------------------------

(* SchemaRegistry by itself: what compare says, with any values of fields.   *)

(* Of two unrenamed schemas, compare finds critical what it finds critical in *)
(* a field of either.                                                         *)
LEMMA CriticalFields ==
  ASSUME NEW old, NEW new, Unrenamed(old, new)
  PROVE  ~compatible(old, new) <=>
           \/ \E f \in DOMAIN old \cap DOMAIN new :
                \/ ~is_type_compatible(old[f].type, new[f].type)
                \/ old[f].required # new[f].required /\ new[f].required
                \/ ~(old[f].enum \subseteq new[f].enum)
           \/ \E f \in DOMAIN old \ DOMAIN new : old[f].required
           \/ \E f \in DOMAIN new \ DOMAIN old : new[f].required
<1> DEFINE critical(changes) == \E c \in changes : c.severity = "CRITICAL"
<1>1. \A changes : critical(changes) <=> overall_severity(changes) = "CRITICAL"
  BY DEF overall_severity, SeveritiesOf
<1>2. \A kind, f, severity : Change(kind, f, severity).severity = severity
  BY DEF Change
<1>3. Matched(old, new) = {}
  BY DEF Matched, Unrenamed
<1>4. ASSUME NEW f \in DOMAIN old \cap DOMAIN new
      PROVE  critical(FieldChanges(f, old, new)) <=>
               \/ ~is_type_compatible(old[f].type, new[f].type)
               \/ old[f].required # new[f].required /\ new[f].required
               \/ ~(old[f].enum \subseteq new[f].enum)
  <2>1. FieldChanges(f, old, new) =
          TypeChange(f, old[f], new[f]) \cup RequiredChange(f, old[f], new[f])
            \cup EnumChange(f, old[f], new[f])
    BY DEF FieldChanges, Unrenamed
  <2>2. critical(TypeChange(f, old[f], new[f]))
          <=> ~is_type_compatible(old[f].type, new[f].type)
    BY <1>2 DEF TypeChange, is_type_compatible
  <2>3. critical(RequiredChange(f, old[f], new[f]))
          <=> old[f].required # new[f].required /\ new[f].required
    BY <1>2 DEF RequiredChange
  <2>4. critical(EnumChange(f, old[f], new[f])) <=> ~(old[f].enum \subseteq new[f].enum)
    BY <1>2 DEF EnumChange
  <2> QED
    BY <2>1, <2>2, <2>3, <2>4
<1>5. ASSUME NEW f \in DOMAIN old \ DOMAIN new
      PROVE  critical(FieldChanges(f, old, new)) <=> old[f].required
  BY <1>2 DEF FieldChanges, Unrenamed, Missing
<1>6. ASSUME NEW f PROVE critical(Added(f, new[f])) <=> new[f].required
  BY <1>2 DEF Added
<1>7. critical(compare(old, new)) <=>
        \/ \E f \in DOMAIN old : critical(FieldChanges(f, old, new))
        \/ \E f \in DOMAIN new \ DOMAIN old : critical(Added(f, new[f]))
  <2>1. DOMAIN new \ (DOMAIN old \cup Matched(old, new)) = DOMAIN new \ DOMAIN old
    BY <1>3
  <2> QED
    BY <2>1 DEF compare
<1> HIDE DEF critical
<1> QED
  BY <1>1, <1>4, <1>5, <1>6, <1>7 DEF compatible

(* A reader of a schema that compare calls compatible accepts what a writer   *)
(* of the older one sends.                                                    *)
LEMMA CompatibleAccepts ==
  ASSUME NEW old, NEW new, NEW e \in Sends(old),
         Unrenamed(old, new), NoEnumIntroduced(old, new), compatible(old, new)
  PROVE  Accepts(new, e)
<1>1. DOMAIN e \subseteq DOMAIN old /\ Accepts(old, e)
  BY DEF Sends
<1> SUFFICES ASSUME NEW f \in DOMAIN new
             PROVE  IF f \in DOMAIN e
                    THEN /\ e[f] \in ReadableAs(new[f].type)
                         /\ new[f].enum = {} \/ e[f].value \in new[f].enum
                    ELSE ~new[f].required
  BY DEF Accepts
<1>2. CASE f \notin DOMAIN old
  BY <1>1, <1>2, CriticalFields
<1>3. CASE f \in DOMAIN old
  <2>1. /\ is_type_compatible(old[f].type, new[f].type)
        /\ ~(old[f].required # new[f].required /\ new[f].required)
        /\ old[f].enum \subseteq new[f].enum
        /\ old[f].enum = {} => new[f].enum = {}
    BY <1>3, CriticalFields DEF NoEnumIntroduced
  <2>2. IF f \in DOMAIN e
        THEN /\ e[f] \in ReadableAs(old[f].type)
             /\ old[f].enum = {} \/ e[f].value \in old[f].enum
        ELSE ~old[f].required
    BY <1>1, <1>3 DEF Accepts
  <2>3. ReadableAs(old[f].type) \subseteq ReadableAs(new[f].type)
    BY <2>1 DEF is_type_compatible, PROMOTIONS, ReadableAs
  <2>4. CASE f \in DOMAIN e
    BY <2>1, <2>2, <2>3, <2>4
  <2>5. CASE f \notin DOMAIN e
    BY <2>1, <2>2, <2>5
  <2> QED
    BY <2>4, <2>5
<1> QED
  BY <1>2, <1>3

(* Whatever is registered, a version that SchemaComparator calls compatible   *)
(* with another reads every event sent under it.                              *)
THEOREM SchemaCompatibleIsReadable == Spec => []CompatibleIsReadable
<1>1. CompatibleIsReadable
  BY CompatibleAccepts DEF CompatibleIsReadable
<1> QED
  BY <1>1, PTL

(* Two upgrades in a row. COMPATIBLE does not compose as a verdict (integer to*)
(* float to double is compatible step by step, integer to double is not); what*)
(* it promises to readers does, unless a field comes back that was taken away.*)
Follows(old, new) == Unrenamed(old, new) /\ NoEnumIntroduced(old, new) /\ compatible(old, new)

NoFieldReturns(old, mid, new) == DOMAIN old \cap DOMAIN new \subseteq DOMAIN mid

UpgradePathIsReadable ==
  \A u, v, w \in {x \in Versions : Known(x)} :
    LET old == get(u) mid == get(v) new == get(w)
    IN  Follows(old, mid) /\ Follows(mid, new) /\ NoFieldReturns(old, mid, new)
          => \A e \in Sends(old) : Accepts(new, e)

(* An event without the fields a schema does not know is one that a writer of *)
(* this schema may send, if a reader of it accepts the event.                 *)
LEMMA KnownPartIsSent ==
  ASSUME NEW old, NEW mid, NEW e \in Sends(old), Accepts(mid, e)
  PROVE  [f \in DOMAIN e \cap DOMAIN mid |-> e[f]] \in Sends(mid)
<1> DEFINE part == [f \in DOMAIN e \cap DOMAIN mid |-> e[f]]
<1>1. \A f \in DOMAIN e : e[f] \in Values
  <2>1. PICK fs \in SUBSET DOMAIN old : e \in [fs -> Values]
    BY DEF Sends
  <2> QED
    BY <2>1
<1>2. part \in [DOMAIN e \cap DOMAIN mid -> Values]
  BY <1>1
<1>3. DOMAIN part = DOMAIN e \cap DOMAIN mid /\ \A f \in DOMAIN part : part[f] = e[f]
  OBVIOUS
<1> HIDE DEF part
<1>4. Accepts(mid, part)
  BY <1>3 DEF Accepts
<1>5. DOMAIN e \cap DOMAIN mid \in SUBSET DOMAIN mid
  OBVIOUS
<1>6. part \in Sends(mid)
  BY <1>2, <1>4, <1>5 DEF Sends
<1> QED
  BY <1>6 DEF part

(* Readers two compatible versions ahead accept what is still sent under the  *)
(* first: consumers and replays skip versions, while SchemaComparator.compare *)
(* is asked about neighbours.                                                 *)
THEOREM SchemaUpgradePathIsReadable == Spec => []UpgradePathIsReadable
<1>1. ASSUME NEW old, NEW mid, NEW new, NEW e \in Sends(old),
             Follows(old, mid), Follows(mid, new), NoFieldReturns(old, mid, new)
      PROVE  Accepts(new, e)
  <2> DEFINE part == [f \in DOMAIN e \cap DOMAIN mid |-> e[f]]
  <2>1. DOMAIN part = DOMAIN e \cap DOMAIN mid /\ \A f \in DOMAIN part : part[f] = e[f]
    OBVIOUS
  <2>2. Accepts(mid, e)
    BY <1>1, CompatibleAccepts DEF Follows
  <2>3. part \in Sends(mid)
    BY <2>2, KnownPartIsSent
  <2> HIDE DEF part
  <2>4. Accepts(new, part)
    BY <1>1, <2>3, CompatibleAccepts DEF Follows
  <2>5. \A f \in DOMAIN new \cap DOMAIN e : f \in DOMAIN part
    BY <1>1, <2>1 DEF Sends, NoFieldReturns
  <2> QED
    BY <2>1, <2>4, <2>5 DEF Accepts
<1>2. UpgradePathIsReadable
  BY <1>1 DEF UpgradePathIsReadable
<1> QED
  BY <1>2, PTL

(* The schemas that can be registered, and the values their fields may have.  *)
AllSchemas == Schemas \cup {Shipped[v] : v \in DOMAIN Shipped}

Fits(d, a) == a \in Values /\ a.type = d.type /\ (d.enum = {} \/ a.value \in d.enum)

(* Every field has a value that fits it, one for each member of its enum, and *)
(* one outside every enum.                                                    *)
LEMMA FieldValues ==
  ASSUME ValuesSuffice, NEW s \in AllSchemas, NEW f \in DOMAIN s
  PROVE  /\ s[f].required \in BOOLEAN
         /\ \E a \in Values : Fits(s[f], a)
         /\ \A x \in s[f].enum : \E a \in Values : Fits(s[f], a) /\ a.value = x
         /\ \E a \in Values :
              /\ a.type = s[f].type
              /\ \A t \in AllSchemas : \A g \in DOMAIN t : a.value \notin t[g].enum
<1>1. /\ s[f].required \in BOOLEAN
      /\ \A x \in s[f].enum : \E a \in Values : a.type = s[f].type /\ a.value = x
      /\ \E a \in Values : /\ a.type = s[f].type
                           /\ \A t \in AllSchemas : \A g \in DOMAIN t : a.value \notin t[g].enum
  BY DEF ValuesSuffice, AllSchemas
<1>2. \A x \in s[f].enum : \E a \in Values : Fits(s[f], a) /\ a.value = x
  BY <1>1 DEF Fits
<1>3. \E a \in Values : Fits(s[f], a)
  BY <1>1, <1>2 DEF Fits
<1> QED
  BY <1>1, <1>2, <1>3

(* A writer may send any choice of the fields that has all the required ones, *)
(* and in one of them whatever fits it.                                       *)
Choice(s, fs) == fs \subseteq DOMAIN s /\ \A f \in DOMAIN s : s[f].required => f \in fs

(* A writer may send any choice of fields that holds the required ones, with  *)
(* any value that fits in one of them.                                        *)
LEMMA Sendable ==
  ASSUME ValuesSuffice, NEW s \in AllSchemas, NEW fs, Choice(s, fs),
         NEW g, NEW a, g \in fs => Fits(s[g], a)
  PROVE  \E e \in Sends(s) : DOMAIN e = fs /\ (g \in fs => e[g] = a)
<1> DEFINE e == [f \in fs |-> IF f = g THEN a ELSE CHOOSE b \in Values : Fits(s[f], b)]
<1>1. \A f \in fs : Fits(s[f], e[f])
  BY FieldValues DEF Choice
<1>2. DOMAIN e = fs /\ (g \in fs => e[g] = a)
  OBVIOUS
<1>3. e \in [fs -> Values]
  <2>1. \A f \in fs : e[f] \in Values
    BY <1>1 DEF Fits
  <2>2. e = [f \in fs |-> e[f]]
    OBVIOUS
  <2> HIDE DEF e
  <2> QED
    BY <2>1, <2>2
<1> HIDE DEF e
<1>4. Accepts(s, e)
  BY <1>1, <1>2 DEF Accepts, Choice, Fits, ReadableAs
<1>5. e \in Sends(s)
  BY <1>3, <1>4 DEF Sends, Choice
<1> QED
  BY <1>2, <1>5

(* What one reader refuses.                                                   *)
LEMMA Refused ==
  ASSUME NEW s, NEW e, NEW f \in DOMAIN s,
         \/ f \in DOMAIN e /\ e[f] \notin ReadableAs(s[f].type)
         \/ f \in DOMAIN e /\ s[f].enum # {} /\ e[f].value \notin s[f].enum
         \/ f \notin DOMAIN e /\ s[f].required
  PROVE  ~Accepts(s, e)
BY DEF Accepts

(* Each change that compare reports as breaking has an event that one side    *)
(* sends and the other refuses.                                               *)
LEMMA BreakingRefused ==
  ASSUME ValuesSuffice, NEW old \in AllSchemas, NEW new \in AllSchemas,
         Unrenamed(old, new), ~compatible(old, new)
  PROVE  \/ \E e \in Sends(old) : ~Accepts(new, e)
         \/ \E e \in Sends(new) : ~Accepts(old, e)
<1>1. ASSUME NEW s \in AllSchemas, NEW t \in AllSchemas, NEW f \in DOMAIN t,
             f \notin DOMAIN s \/ ~s[f].required, t[f].required
      PROVE  \E e \in Sends(s) : ~Accepts(t, e)
  <2> DEFINE fs == DOMAIN s \ {f}
  <2>1. Choice(s, fs) /\ f \notin fs
    BY <1>1 DEF Choice
  <2> HIDE DEF fs
  <2>2. f \in fs => Fits(s[f], f)
    BY <2>1
  <2>3. PICK e \in Sends(s) : DOMAIN e = fs
    BY <2>1, <2>2, Sendable
  <2> QED
    BY <1>1, <2>1, <2>3, Refused
<1>2. ASSUME NEW s \in AllSchemas, NEW t \in AllSchemas, NEW f \in DOMAIN s \cap DOMAIN t,
             NEW a, Fits(s[f], a),
             \/ a \notin ReadableAs(t[f].type)
             \/ t[f].enum # {} /\ a.value \notin t[f].enum
      PROVE  \E e \in Sends(s) : ~Accepts(t, e)
  <2> DEFINE fs == DOMAIN s
  <2>1. Choice(s, fs) /\ f \in fs
    BY DEF Choice
  <2> HIDE DEF fs
  <2>2. PICK e \in Sends(s) : DOMAIN e = fs /\ e[f] = a
    BY <1>2, <2>1, Sendable
  <2> QED
    BY <1>2, <2>1, <2>2, Refused DEF fs
<1>3. ASSUME NEW f \in DOMAIN old \cap DOMAIN new,
             ~is_type_compatible(old[f].type, new[f].type)
      PROVE  \/ \E e \in Sends(old) : ~Accepts(new, e)
             \/ \E e \in Sends(new) : ~Accepts(old, e)
  <2>1. PICK a \in Values : Fits(old[f], a)
    BY FieldValues
  <2>2. PICK b \in Values : Fits(new[f], b)
    BY FieldValues
  <2>3. \/ a \notin ReadableAs(new[f].type)
        \/ b \notin ReadableAs(old[f].type)
    BY <1>3, <2>1, <2>2
    DEF Fits, ReadableAs, is_type_compatible, PROMOTIONS
  <2> QED
    BY <1>2, <2>1, <2>2, <2>3
<1>4. ASSUME NEW f \in DOMAIN old \cap DOMAIN new, ~(old[f].enum \subseteq new[f].enum)
      PROVE  \/ \E e \in Sends(old) : ~Accepts(new, e)
             \/ \E e \in Sends(new) : ~Accepts(old, e)
  <2>1. PICK x \in old[f].enum : x \notin new[f].enum
    BY <1>4
  <2>2. CASE new[f].enum # {}
    <3>1. PICK a \in Values : Fits(old[f], a) /\ a.value = x
      BY FieldValues
    <3> QED
      BY <1>2, <2>1, <2>2, <3>1
  <2>3. CASE new[f].enum = {}
    <3>1. PICK a \in Values : a.type = new[f].type /\ a.value \notin old[f].enum
      BY FieldValues
    <3>2. Fits(new[f], a)
      BY <2>3, <3>1 DEF Fits
    <3> QED
      BY <1>2, <2>1, <3>1, <3>2
  <2> QED
    BY <2>2, <2>3
<1>5. \A f \in DOMAIN old \cap DOMAIN new :
        old[f].required # new[f].required /\ new[f].required => ~old[f].required
  BY FieldValues
<1> QED
  BY <1>1, <1>3, <1>4, <1>5, CriticalFields

(* A verdict of BREAKING by which no optional field is removed is never a     *)
(* false alarm, whatever schemas the directory ships and whatever is          *)
(* registered, if there are values enough to tell the schemas apart.          *)
THEOREM SchemaBreakingIsReal ==
  ASSUME ValuesSuffice PROVE Spec => []BreakingIsReal
<1> DEFINE Inv == \A v \in DOMAIN registry : registry[v] \in AllSchemas
<1>1. Init => Inv
  BY DEF Init, AllSchemas
<1>2. Inv /\ [Next]_registry => Inv'
  BY DEF Next, register, AllSchemas
<1>3. Inv => BreakingIsReal
  <2> SUFFICES ASSUME Inv, NEW v \in {x \in Versions : Known(x)},
                      NEW w \in {x \in Versions : Known(x)},
                      Unrenamed(get(v), get(w)),
                      ~compatible(get(v), get(w))
               PROVE  \/ \E e \in Sends(get(v)) : ~Accepts(get(w), e)
                      \/ \E e \in Sends(get(w)) : ~Accepts(get(v), e)
    BY DEF BreakingIsReal
  <2>1. get(v) \in AllSchemas /\ get(w) \in AllSchemas
    BY DEF Known, get
  <2> QED
    BY <2>1, BreakingRefused
<1> QED
  BY <1>1, <1>2, <1>3, PTL DEF Spec
===============================================================================
