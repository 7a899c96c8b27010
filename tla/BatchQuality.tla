----------------------------- MODULE BatchQuality -----------------------------
(***************************************************************************)
(* HybridQualityEngine: a batch is checked by declared expectations of     *)
(* Great Expectations, column by column, and by the rules of QualityEngine, *)
(* event by event, and one verdict is made of both.                        *)
(*                                                                         *)
(* A batch is given as events, whose numbers have been converted, or as    *)
(* dictionaries or a DataFrame, which Great Expectations sees as they are: *)
(* there an amount may be a "numeral", a text that the rules convert to a  *)
(* number. A column that is "null" in every row of these may be missing,   *)
(* and a null may be an empty text, which is no null to pandas. In a       *)
(* DataFrame a null may be a "nan", which is one to pandas and a value to  *)
(* the rules. (A nan for a time or a version is refused by both, like the  *)
(* null it is left as here.)                                               *)
(***************************************************************************)
EXTENDS QualityEngine, Functions

CONSTANTS Entries,   \* the list in expectations.yaml
          Batches    \* sequences of events that may be validated as a batch

(* GEExpectationRegistry._validate_config                                    *)
ValidExpectation(x) ==
  \/ x.expectation = "not_null"
  \/ x.expectation = "between" /\ x.min # {} /\ \A a \in x.min, b \in x.max : a <= b
  \/ x.expectation = "in_set" /\ x.value_set # {}

(* load_from_yaml raises at the first entry it does not like; disabled ones  *)
(* are checked like the others.                                              *)
Loads(entries) ==
  \A i \in DOMAIN entries :
    /\ entries[i].severity \in Severities
    /\ ValidExpectation(entries[i])
    /\ \A j \in DOMAIN entries : entries[i].name = entries[j].name => i = j

ASSUME ExpectationConfig == Loads(Entries)
ASSUME BatchConfig ==
  \A rows \in Batches :
    /\ rows \in Seq(Range(rows))
    /\ \A i \in DOMAIN rows : IsEvent(rows[i]) /\ {EventKey(rows[i]), OrderKey(rows[i])} \subseteq Keys

active == {x \in Range(Entries) : x.enabled}

(* What the list expects, the rules do, too: amounts are compared with their *)
(* bounds, and the fields with allowed values with those.                    *)
OwnColumns == {"event_id", "order_id", "amount"}
ASSUME ExpectationsMatchRules ==
  /\ OwnColumns \cap ListedFields = {}
  /\ \A x \in active :
       /\ x.expectation = "between" => x.column = "amount"
       /\ x.expectation = "in_set" => x.column \in ListedFields
       /\ \A rows \in Batches : \A i \in DOMAIN rows :
            x.column \in OwnColumns \cup DOMAIN rows[i].fields

VARIABLES batch,      \* the batch under way and the verdicts on its events so far
          unified     \* the UnifiedQualityResult of the latest batch, until the next is given

Forms == {"events", "dicts", "frame"}
NoBatch == [rows |-> << >>, form |-> "none", verdicts |-> << >>]
NoResult == [status |-> "none"]

BatchInit == EngineInit /\ batch = NoBatch /\ unified = NoResult

-------------------------------------------------------------------------------
(* GERunner.validate_batch on the rows of a batch *)

Column(e, c) ==
  CASE c = "event_id" -> e.id
    [] c = "order_id" -> e.order
    [] c = "amount"   -> e.amount
    [] OTHER          -> e.fields[c]

(* What an expectation finds: the cells that are null to pandas are skipped  *)
(* by all but not_null, a text among the amounts raises, which makes the     *)
(* failure critical, and a missing column fails whatever is expected of it.  *)
Text == {"text", "numeral", "uncomparable"}

Finds(x, cells, blank, missing) ==
  CASE missing                    -> {x.severity}
    [] x.expectation = "not_null" -> IF "nan" \in cells \/ ("null" \in cells /\ ~blank)
                                     THEN {x.severity} ELSE {}
    [] x.expectation = "between"  -> IF cells \cap Text # {} \/ ("null" \in cells /\ blank)
                                     THEN {"CRITICAL"}
                                     ELSE IF "nonpositive" \in cells THEN {x.severity} ELSE {}
    [] OTHER                      -> IF "other" \in cells \/ ("null" \in cells /\ blank)
                                     THEN {x.severity} ELSE {}

(* Only what failed is kept of the results. That an expectation raised is    *)
(* not told from that it failed, but by the severity.                        *)
map_expectation_result(x, severity) == Failure(<<x.name, x.expectation>>, severity)

(* The columns named in blank have empty texts for nulls, those in missing   *)
(* do not exist. An empty batch passes everything.                           *)
GEFailures(b, blank, missing) ==
  UNION { { map_expectation_result(x, severity) :
              severity \in Finds(x, {Column(b.rows[i], x.column) : i \in DOMAIN b.rows},
                                 x.column \in blank, x.column \in missing) } : x \in active }

build_batch_result(failures) ==
  [failed   |-> Cardinality(failures),
   critical |-> Cardinality({f \in failures : f.severity \in {"CRITICAL", "HIGH"}})]

Columns == {x.column : x \in active}
SomeNull(b) == {c \in Columns : \E i \in DOMAIN b.rows : Column(b.rows[i], c) = "null"}
AllNull(b) == {c \in SomeNull(b) : \A i \in DOMAIN b.rows : Column(b.rows[i], c) = "null"}

-------------------------------------------------------------------------------
(* HybridQualityEngine.validate_batch *)

(* QualityEvent.from_dict, when the input is no list of dictionaries.        *)
Converted(e) == IF e.amount = "numeral" THEN [e EXCEPT !.amount = "fair"] ELSE e

(* What a row may be in a DataFrame: each cell that is null is None, or nan. *)
Nulls(e) == {c \in OwnColumns \cup DOMAIN e.fields : Column(e, c) = "null"}
InFrame(e, nans) ==
  LET cell(c, v) == IF c \in nans THEN "nan" ELSE v
  IN  [e EXCEPT !.id = cell("event_id", e.id), !.order = cell("order_id", e.order),
                !.amount = cell("amount", e.amount),
                !.fields = [f \in DOMAIN e.fields |-> cell(f, e.fields[f])]]
Framed(e) == {InFrame(e, nans) : nans \in SUBSET Nulls(e)}

(* What Great Expectations is given of the rows.                             *)
Given(rows, form) ==
  CASE form = "events" -> {[i \in DOMAIN rows |-> Converted(rows[i])]}
    [] form = "dicts"  -> {rows}
    [] form = "frame"  -> { given \in [DOMAIN rows -> UNION {Framed(rows[i]) : i \in DOMAIN rows}] :
                              \A i \in DOMAIN rows : given[i] \in Framed(rows[i]) }

ValidateBatch(rows, form) ==
  /\ batch = NoBatch
  /\ judged + Len(rows) <= MaxEvents
  /\ \E given \in Given(rows, form) :
       batch' = [rows |-> given, form |-> form, verdicts |-> << >>]
  /\ unified' = NoResult
  /\ UNCHANGED vars

(* Each row as the rules see it.                                             *)
JudgeRow ==
  /\ Len(batch.verdicts) < Len(batch.rows)
  /\ Judge("hybrid", Converted(batch.rows[Len(batch.verdicts) + 1]))
  /\ batch' = [batch EXCEPT !.verdicts = Append(@, last')]
  /\ UNCHANGED <<attempt, todo, unified>>

(* Failing events are counted by their id, or by their place if they have    *)
(* none.                                                                     *)
EventName(i, e) == IF e.id = "null" THEN <<"place", i>> ELSE <<"id", e.id>>

(* A deviation: a warning does not make an event count as invalid, as it is  *)
(* in the stream validator.                                                  *)
InvalidEventsFailed(verdicts) ==
  { EventName(i, verdicts[i].event) : i \in {k \in DOMAIN verdicts : verdicts[k].status = "FAILED"} }

InvalidEvents(verdicts) ==
  { EventName(i, verdicts[i].event) : i \in {k \in DOMAIN verdicts : verdicts[k].status # "HEALTHY"} }

(* A nan where a value is expected, which the rules take for one.            *)
Overlooks(b) ==
  \E x \in active : \E i \in DOMAIN b.rows :
    /\ x.expectation = "not_null" /\ Column(b.rows[i], x.column) = "nan"
    /\ x.column \notin {"amount"} \cup ListedFields

Unified(b, ge) ==
  LET failures == ge \cup UNION {b.verdicts[i].failures : i \in DOMAIN b.verdicts}
  IN  [status |-> overall_status(failures),
       invalid |-> Cardinality(InvalidEvents(b.verdicts)),
       events |-> {b.verdicts[i].status : i \in DOMAIN b.verdicts},
       ge |-> build_batch_result(ge),
       mixed |-> \E i \in DOMAIN b.rows : b.rows[i].amount = "numeral",
       overlooked |-> Overlooks(b)]

FinishBatch ==
  /\ batch # NoBatch /\ Len(batch.verdicts) = Len(batch.rows)
  /\ \E blank \in SUBSET SomeNull(batch) :
     \E missing \in SUBSET (IF batch.form = "events" THEN {} ELSE AllNull(batch)) :
       unified' = Unified(batch, GEFailures(batch, blank, missing))
  /\ batch' = NoBatch
  /\ UNCHANGED vars

BatchNext ==
  \/ \E rows \in Batches, form \in Forms : ValidateBatch(rows, form)
  \/ JudgeRow \/ FinishBatch
  \/ EngineNext /\ UNCHANGED <<batch, unified>>

BatchSpec == BatchInit /\ [][BatchNext]_<<vars, batch, unified>>

-------------------------------------------------------------------------------

(* What the rules refuse, the verdict on a batch refuses, too; and Great     *)
(* Expectations, which judges columns and raises on texts, refuses no batch  *)
(* whose events the rules accept, and none as failed whose events only have  *)
(* warnings, so the number of invalid events does not contradict the verdict.*)
(* But there are two exceptions: a numeral, which only the rules convert,    *)
(* and a nan in a column that must not be null, as a missing id becomes in a *)
(* DataFrame: it may leave a failed batch without any invalid event.         *)
BatchVerdictExplained ==
  unified # NoResult =>
    /\ unified.invalid > 0 => unified.status # "HEALTHY"
    /\ "FAILED" \in unified.events => unified.status = "FAILED"
    /\ ~unified.mixed /\ ~unified.overlooked =>
         /\ unified.status # "HEALTHY" => unified.invalid > 0
         /\ unified.status = "FAILED" \/ unified.ge.critical > 0 => "FAILED" \in unified.events
===============================================================================
