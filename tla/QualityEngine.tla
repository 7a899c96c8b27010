----------------------------- MODULE QualityEngine -----------------------------
(***************************************************************************)
(* The rules and detectors that judge one event at a time, in the engines  *)
(* that run them: the stream validator's, which sees every event of the    *)
(* topic, the reprocessor's, which sees the recovered events of each       *)
(* attempt of a remediation, and that of batches (see BatchQuality). Every *)
(* engine has its own default registry of rules, so its own memory of the  *)
(* ids it has seen. Schemas are registered and compared as in              *)
(* SchemaRegistry, without the values it gives a meaning by.               *)
(*                                                                         *)
(* A field is "ok", "null" (missing, empty or the text none) or "other" (a *)
(* value outside its list). A time is <<"at", tick>>, or <<"null", 0>>,    *)
(* <<"malformed", 0>>, or <<"absent", 0>> if the payload has no such field.*)
(* A version is a tag of SchemaRegistry, or <<"null", "">>. The number nan *)
(* is no null to the rules, nor positive, and makes an id like any other.  *)
(***************************************************************************)
EXTENDS SchemaRegistry, Sequences

CONSTANTS PlainFields,     \* fields that only must not be null
          ListedFields,    \* fields with allowed values: currency, payment_status
          Events,          \* what may arrive on the topic
          Recovered,       \* the events an attempt of the remediation fetches again
          Baseline,        \* baseline_version of the drift detector
          Window,          \* window_seconds of the duplicate detectors, in ticks
          Tolerance,       \* tolerance_seconds of future_timestamp
          Lateness,        \* allowed_lateness_seconds of late_event
          MaxAttempts,     \* max_attempts of the remediation
          MaxEvents, MaxClock  \* bounds

(* The parts of a QualityEvent the rules look at.                            *)
IsEvent(e) ==
  e = [id |-> e.id, order |-> e.order, fields |-> e.fields, amount |-> e.amount, time |-> e.time,
       ingested |-> e.ingested, version |-> e.version, shape |-> e.shape]

ASSUME EngineConfig ==
  /\ {Window, Tolerance, Lateness} \subseteq Nat
  /\ Recovered \subseteq Events
  /\ \A e \in Events : IsEvent(e)

VARIABLES seen,       \* per engine: when each key was last taken for new
          attempt,    \* attempts of the remediation so far
          todo,       \* recovered events the attempt has still to judge
          last,       \* the latest verdict
          news,       \* history, per engine: the keys taken for new, in order
          judged,     \* events judged so far
          now         \* clock

vars == <<registry, seen, attempt, todo, last, news, judged, now>>

Engines == {"validator", "reprocessor", "hybrid"}
Never == -1
EventKey(e) == <<"event_id", e.id>>
OrderKey(e) == <<"order_id", e.order>>
Keys == { <<"event_id", "nan">>, <<"order_id", "nan">> }
        \cup UNION { {EventKey(e), OrderKey(e)} : e \in Events }
NoVerdict == [engine |-> "none", failures |-> {}]

EngineInit ==
  /\ Init
  /\ seen = [g \in Engines |-> [k \in Keys |-> Never]]
  /\ attempt = 0 /\ todo = {}
  /\ last = NoVerdict
  /\ news = [g \in Engines |-> << >>]
  /\ judged = 0 /\ now = 0

-------------------------------------------------------------------------------
(* The rules: each is the set of its failures on event e, judged at now. One *)
(* failure is a rule, named by what it looks at and for, and a severity.     *)

Severities == {"INFO", "LOW", "MEDIUM", "HIGH", "WARNING", "CRITICAL"}

Failure(rule, severity) == [rule |-> rule, severity |-> severity]
When(fails, failure) == IF fails THEN {failure} ELSE {}

Unset(t) == t[1] \in {"null", "absent"}
Parsed(t) == t[1] = "at"

EventIdNotNullRule(e) == When(e.id = "null", Failure(<<"event_id", "not_null">>, "CRITICAL"))

NotNullRules(e) ==
  { Failure(<<f, "not_null">>, "HIGH") : f \in {g \in DOMAIN e.fields : e.fields[g] = "null"} }
  \cup When(e.order = "null", Failure(<<"order_id", "not_null">>, "HIGH"))
  \cup When(e.version[1] = "null", Failure(<<"source_version", "not_null">>, "HIGH"))
  \cup When(e.amount = "null", Failure(<<"amount", "not_null">>, "CRITICAL"))
  \cup When(Unset(e.time), Failure(<<"event_time", "not_null">>, "HIGH"))
  \cup When(Unset(e.ingested), Failure(<<"ingestion_time", "not_null">>, "HIGH"))

(* A text that is a number to Decimal but cannot be compared raises; the      *)
(* engine turns an exception of a rule into a critical failure of it.         *)
AmountPositiveRule(e) ==
  When(e.amount \in {"null", "nan", "text", "nonpositive"}, Failure(<<"amount", "positive">>, "HIGH"))
  \cup When(e.amount = "uncomparable", Failure(<<"amount", "positive">>, "CRITICAL"))

ImpossibleAmountRule(e) == When(e.amount = "huge", Failure(<<"amount", "impossible">>, "HIGH"))

AllowedValuesRules(e) ==
  { Failure(<<f, "valid">>, "HIGH") : f \in {g \in ListedFields : e.fields[g] # "ok"} }

TimestampValidRules(e) ==
  When(~Parsed(e.time), Failure(<<"event_time", "valid">>, "HIGH"))
  \cup When(~Parsed(e.ingested), Failure(<<"ingestion_time", "valid">>, "HIGH"))

(* Both measure against the ingestion time, or the clock if that is unusable. *)
Reference(e) == IF Parsed(e.ingested) THEN e.ingested[2] ELSE now

FutureTimestampRule(e) ==
  When(Parsed(e.time) /\ e.time[2] > Reference(e) + Tolerance,
       Failure(<<"event_time", "future">>, "HIGH"))

LateEventRule(e) ==
  When(Parsed(e.time) /\ e.time[2] < Reference(e) - Lateness,
       Failure(<<"event_time", "late">>, "MEDIUM"))

(* An event without a version is compared by the schema its payload suggests, *)
(* in which every field is required and none has an enum.                     *)
infer_event_schema(e) ==
  [f \in DOMAIN e.shape |-> [type |-> e.shape[f], required |-> TRUE, enum |-> {}]]

SchemaDriftRule(e) ==
  IF e.version[1] # "null" /\ ~Known(e.version)
  THEN {Failure(<<"schema", "drift">>, "CRITICAL")}
  ELSE LET actual   == IF e.version[1] = "null" THEN infer_event_schema(e)
                       ELSE get(e.version)
           severity == overall_severity(compare(get(Baseline), actual))
       IN  When(severity # "INFO", Failure(<<"schema", "drift">>, severity))

-------------------------------------------------------------------------------
(* DuplicateEventRule and DuplicateOrderRule *)

Null(k) == k[2] = "null"

(* A deviation: an entry exactly as old as the window is purged.             *)
PurgedEagerly(g) ==
  [k \in Keys |-> IF seen[g][k] <= now - Window THEN Never ELSE seen[g][k]]

Purged(g) == [k \in Keys |-> IF seen[g][k] < now - Window THEN Never ELSE seen[g][k]]

IsDuplicate(g, k) == ~Null(k) /\ Purged(g)[k] # Never

DuplicateRules(g, e) ==
  When(IsDuplicate(g, EventKey(e)), Failure(<<"event_id", "duplicate">>, "CRITICAL"))
  \cup When(IsDuplicate(g, OrderKey(e)), Failure(<<"order_id", "duplicate">>, "HIGH"))

(* Whatever the other rules say, a key that is not a duplicate is remembered *)
(* with the time it was seen; a duplicate leaves that time as it is. Each    *)
(* rule purges its own memory only, and only when it has a key to look up.   *)
News(g, e) == { k \in {EventKey(e), OrderKey(e)} : ~Null(k) /\ ~IsDuplicate(g, k) }
Looked(e) == { k[1] : k \in {j \in {EventKey(e), OrderKey(e)} : ~Null(j)} }

Remember(g, e) ==
  /\ seen' = [seen EXCEPT ![g] = [k \in Keys |-> IF k \in News(g, e) THEN now
                                                ELSE IF k[1] \in Looked(e) THEN Purged(g)[k]
                                                ELSE @[k]]]
  /\ news' = [news EXCEPT ![g] = Append(@, [keys |-> News(g, e), at |-> now])]

-------------------------------------------------------------------------------
(* QualityEngine.validate_with_summary *)

Failures(g, e) ==
  EventIdNotNullRule(e) \cup NotNullRules(e) \cup AmountPositiveRule(e) \cup ImpossibleAmountRule(e)
  \cup AllowedValuesRules(e) \cup TimestampValidRules(e) \cup FutureTimestampRule(e)
  \cup LateEventRule(e) \cup SchemaDriftRule(e) \cup DuplicateRules(g, e)

overall_status(failures) ==
  IF failures = {} THEN "HEALTHY"
  ELSE IF \E f \in failures : f.severity \in {"CRITICAL", "HIGH"} THEN "FAILED"
  ELSE "WARNING"

SEVERITY_WEIGHTS(severity) ==
  CASE severity = "CRITICAL"            -> 400
    [] severity = "HIGH"                -> 300
    [] severity \in {"WARNING", "MEDIUM"} -> 200

(* A deviation: the failures are sorted by ascending weight.                 *)
LightestError(failures) ==
  CHOOSE f \in failures : \A h \in failures :
    SEVERITY_WEIGHTS(f.severity) <= SEVERITY_WEIGHTS(h.severity)

(* The heaviest failure; the alphabetical order among equals is abstracted.  *)
determine_primary_error(failures) ==
  CHOOSE f \in failures : \A h \in failures :
    SEVERITY_WEIGHTS(h.severity) <= SEVERITY_WEIGHTS(f.severity)

(* What becomes of it: the router refuses an event without failures.         *)
Verdict(g, e, failures) ==
  [engine |-> g, failures |-> failures, event |-> e, at |-> now,
   status |-> overall_status(failures),
   error |-> IF failures = {} THEN Failure(<<"none", "none">>, "INFO")
             ELSE determine_primary_error(failures)]

Judge(g, e) ==
  /\ judged < MaxEvents /\ judged' = judged + 1
  /\ last' = Verdict(g, e, Failures(g, e))
  /\ Remember(g, e)
  /\ UNCHANGED <<registry, now>>

(* StreamQualityValidator.validate_event: an event of the topic gets its     *)
(* ingestion time here, unless it has the field already.                     *)
ValidateEvent(e) ==
  /\ Judge("validator", IF e.ingested[1] = "absent" THEN [e EXCEPT !.ingested = <<"at", now>>]
                        ELSE e)
  /\ UNCHANGED <<attempt, todo>>

(* Reprocessor.process, once per attempt, event by event.                    *)
StartAttempt ==
  /\ todo = {}
  /\ attempt < MaxAttempts /\ attempt' = attempt + 1
  /\ todo' = Recovered
  /\ UNCHANGED <<registry, seen, last, news, judged, now>>

Process(e) ==
  /\ e \in todo /\ todo' = todo \ {e}
  /\ Judge("reprocessor", e)
  /\ UNCHANGED attempt

(* The telemetry loop builds a new validator when it reconnects, and the      *)
(* worker when it is started again: what the engine has seen is forgotten.    *)
Reconnect ==
  /\ seen' = [seen EXCEPT !["validator"] = [k \in Keys |-> Never]]
  /\ news' = [news EXCEPT !["validator"] = << >>]
  /\ last' = NoVerdict
  /\ UNCHANGED <<registry, attempt, todo, judged, now>>

Tick ==
  /\ now < MaxClock /\ now' = now + 1
  /\ UNCHANGED <<registry, seen, attempt, todo, last, news, judged>>

RegisterSchema ==
  /\ Next
  /\ UNCHANGED <<seen, attempt, todo, last, news, judged, now>>

EngineNext ==
  \/ \E e \in Events : ValidateEvent(e)
  \/ StartAttempt \/ \E e \in todo : Process(e)
  \/ Reconnect \/ RegisterSchema \/ Tick

EngineSpec == EngineInit /\ [][EngineNext]_vars

-------------------------------------------------------------------------------

(* What duplicate detection is for, against the whole history of an engine:  *)
(* two events it took for new with the same id, or the same order, are more  *)
(* than a window apart, and one it refused had been taken for new within it. *)
(* Purging, failing events and repeated duplicates make no difference.       *)
DuplicateIffRecent ==
  /\ \A g \in Engines : \A i, j \in DOMAIN news[g] :
       i < j /\ news[g][i].keys \cap news[g][j].keys # {} => news[g][j].at - news[g][i].at > Window
  /\ last.engine \in Engines => \A k \in {EventKey(last.event), OrderKey(last.event)} :
       <<k[1], "duplicate">> \in {f.rule : f \in last.failures} =>
         \E i \in DOMAIN news[last.engine] :
           k \in news[last.engine][i].keys /\ last.at - news[last.engine][i].at <= Window

(* The error code a quarantined event carries is that of a failure that is   *)
(* serious enough to refuse it, and an event whose code is not is accepted:  *)
(* the weights by which failures are sorted agree with the severities that   *)
(* decide, those of schema changes included.                                 *)
ErrorExplainsVerdict ==
  last.engine \in Engines /\ last.failures # {} =>
    (last.status = "FAILED" <=> SEVERITY_WEIGHTS(last.error.severity) >= 300)
===============================================================================
