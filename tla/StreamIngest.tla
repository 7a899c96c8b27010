------------------------------ MODULE StreamIngest ------------------------------
(***************************************************************************)
(* The consumers of the event topic: the stream worker and the telemetry   *)
(* loop of the API. Each has a consumer group of its own, a                *)
(* StreamQualityValidator, an ErrorRateEngine with its rolling window and  *)
(* a quarantine writer; they share the quarantine table, the row of window *)
(* counts and the circuit breaker. The breaker is one object here, as if   *)
(* every call synchronised; SharedBreaker looks at what lies between.      *)
(*                                                                         *)
(* Of a message only its kind matters:                                     *)
(*   good     passes the rules, perhaps with a warning;                    *)
(*   bad      fails a rule of high severity;                               *)
(*   poison   fails one and names itself by something else than a string,  *)
(*            which the schema of the quarantine table does not take;      *)
(*   garbage  cannot be parsed;                                            *)
(*   list     can be parsed, but is not an object.                         *)
(***************************************************************************)
EXTENDS BreakerOps, FiniteSets, SequencesExt

CONSTANTS Consumers,    \* the processes
          Apis,         \* those that run the telemetry loop and serve requests
          Topics,       \* what the topic may hold: messages, by kind
          First,        \* the message at which each consumer group starts
          Window,       \* circuit_window_seconds, in ticks
          Scale,        \* the unit of error rates: an error rate of 1
          MinSample,    \* events in the window that auto-close asks for
          FlushEvents,  \* flush_interval_events: outcomes per write of the counts
          BatchEvents,  \* processed events per flush of the quarantine
          MaxVerdicts,  \* bound: verdicts of the remediation
          MaxFaults,    \* bound: failing writes and crashes
          MaxOutcomes,  \* bound: outcomes a process records
          MaxSnapshots, MaxClock   \* bounds

ASSUME IngestConfig ==
  /\ Apis \subseteq Consumers
  /\ Topics \subseteq Seq({"good", "bad", "poison", "garbage", "list"})
  /\ First \in [Consumers -> Nat \ {0}]
  /\ Window \in Nat /\ Scale \in Nat
  /\ {MinSample, FlushEvents, BatchEvents} \subseteq Nat \ {0}
(* Rates are whole units for every number of events a window can hold.       *)
ASSUME RatesAreExact == MaxOutcomes \in Nat /\ \A n \in 1..MaxOutcomes : Scale % n = 0

VARIABLES topic,    \* the messages of the topic, which stay
          con,      \* what each consumer is at, its engine and its writer
          counts,   \* the row of window_event_counts
          table,    \* the quarantine table: which consumer put which message
          breaker,  \* the circuit breaker
          now,      \* clock
          faults, snaps,   \* how many of each so far
          lost,     \* history: what was left in a writer that is gone, and for which consumer
          killed    \* history: what was held by a process that was killed

vars == <<topic, con, counts, table, breaker, now, faults, snaps, lost, killed>>
bounds == <<topic, now, snaps>>
gone == <<lost, killed>>

NoCounts == [total |-> 0, failed |-> 0]
NoMetrics == [total |-> 0, failed |-> 0, at |-> 0]

(* pos is the next message to poll, from the first one of this connection,   *)
(* msg the message in hand. seen is a history: every outcome since the       *)
(* process was started; closings another: the successful recoveries of the   *)
(* breaker when its state was read.                                          *)
NewConsumer(start) ==
  [window |-> << >>, since |-> 0, seen |-> << >>,             \* ErrorRateEngine
   buffer |-> << >>, metrics |-> NoMetrics,                   \* StreamQualityValidator
   old |-> "CLOSED", closings |-> 0,
   pc |-> "poll", pos |-> start, from |-> start, msg |-> 0, done |-> 0]

Init ==
  /\ topic \in Topics
  /\ con = [c \in Consumers |-> NewConsumer(First[c])]
  /\ counts = NoCounts
  /\ table = {}
  /\ breaker = NewBreaker
  /\ now = 0 /\ faults = 0 /\ snaps = 0
  /\ lost = {} /\ killed = {}

Kind(i) == topic[i]
Fault == faults < MaxFaults /\ faults' = faults + 1
Set(c, r) == con' = [con EXCEPT ![c] = r]

-------------------------------------------------------------------------------
(* ErrorRateEngine and WindowAggregator *)

(* A deviation: nothing is evicted.                                          *)
EvictedNever(w) == w

(* Records are popped from the front, while they are older than the cutoff.  *)
Expired(w) ==
  CHOOSE n \in 0..Len(w) : /\ \A k \in 1..n : w[k].at < now - Window
                           /\ n < Len(w) => w[n + 1].at >= now - Window
Evicted(w) == SubSeq(w, Expired(w) + 1, Len(w))

Failures(w) == Cardinality({k \in DOMAIN w : ~w[k].valid})

ErrorRate(m) == IF m.total = 0 THEN 0 ELSE (Scale * m.failed) \div m.total

(* record_event_outcome: the outcome goes into the window, and every so many *)
(* of them the counts are written, or an error of the database is swallowed. *)
add_event(w, valid) == Append(w, [at |-> now, valid |-> valid])
Record(r, valid) ==
  [r EXCEPT !.window = add_event(@, valid), !.seen = add_event(@, valid),
            !.since = (@ + 1) % FlushEvents]

CountsOf(w) == [total |-> Len(Evicted(w)), failed |-> Failures(Evicted(w))]

FlushCounts(r) ==
  IF r.since # 0 THEN UNCHANGED <<counts, faults>>
  ELSE \/ counts' = CountsOf(r.window) /\ UNCHANGED faults
       \/ Fault /\ UNCHANGED counts

(* calculate, called after an outcome was recorded: the persisted counts are *)
(* not asked for.                                                            *)
Calculated(r) ==
  [r EXCEPT !.window = Evicted(@),
            !.metrics = [total |-> Len(Evicted(r.window)), failed |-> Failures(Evicted(r.window)),
                         at |-> now]]

(* get_metrics_snapshot, for /health, the dashboards and the shutdown, in a  *)
(* thread beside the telemetry loop. It passes a reference time, so it does  *)
(* not fall back to the persisted counts either, and it writes its own.      *)
Snapshot(c) ==
  /\ c \in Apis
  /\ snaps < MaxSnapshots /\ snaps' = snaps + 1
  /\ Set(c, [con[c] EXCEPT !.window = Evicted(@)])
  /\ \/ counts' = CountsOf(con[c].window) /\ UNCHANGED faults
     \/ Fault /\ UNCHANGED counts
  /\ UNCHANGED <<topic, table, breaker, now, gone>>

-------------------------------------------------------------------------------
(* QuarantineRouter and writer, used by one thread of each process *)

Entries(c, b) == { <<c, b[k]>> : k \in DOMAIN b }
HasPoison(b) == \E k \in DOMAIN b : Kind(b[k]) = "poison"

(* What flush may come to: the buffer goes to the table as a whole, or all   *)
(* attempts raise and it stays as a whole, though one of them may have       *)
(* committed (QuarantineWriter has the attempts one by one). A record that   *)
(* the schema does not take makes flush raise, and stays.                    *)
Written(c, b) ==
  [buffer |-> << >>, raised |-> FALSE, table |-> table \cup Entries(c, b), faults |-> faults]
Unwritten(b, tbl) ==
  [buffer |-> b, raised |-> FALSE, table |-> tbl, faults |-> faults + 1]
Refused(b) == [buffer |-> b, raised |-> TRUE, table |-> table, faults |-> faults]
Flush(c, b) ==
  IF HasPoison(b) THEN {Refused(b)}
  ELSE {Written(c, b)}
       \cup { Unwritten(b, tbl) :
                tbl \in { x \in {table, table \cup Entries(c, b)} :
                           b # << >> /\ faults < MaxFaults } }

(* One of them, and the pc that the consumer goes on at.                     *)
Flushes(c, b, next, ifRaised) ==
  \E f \in Flush(c, b) :
    /\ Set(c, [con[c] EXCEPT !.buffer = f.buffer, !.pc = IF f.raised THEN ifRaised ELSE next])
    /\ table' = f.table /\ faults' = f.faults

-------------------------------------------------------------------------------
(* StreamQualityValidator.consume_stream and validate_event *)

(* After an event: every so many of them the quarantine is flushed.          *)
Processed(r) ==
  [r EXCEPT !.done = (@ + 1) % BatchEvents, !.msg = 0, !.metrics = NoMetrics,
            !.old = "CLOSED", !.closings = 0,
            !.pc = IF (r.done + 1) % BatchEvents = 0 THEN "flush" ELSE "poll"]

(* The next message, its outcome recorded. One that is no object raises      *)
(* outside every try of validate_event and ends the loop.                    *)
Poll(c) ==
  LET r == [con[c] EXCEPT !.pos = @ + 1, !.msg = con[c].pos]
      k == Kind(con[c].pos)
      q == [Record(r, k = "good") EXCEPT !.pc = IF k = "good" THEN "answer" ELSE "route"]
  IN  /\ con[c].pc = "poll"
      /\ con[c].pos <= Len(topic) /\ Len(con[c].seen) < MaxOutcomes
      /\ IF k = "list" THEN Set(c, [r EXCEPT !.pc = "closing", !.msg = 0])
                            /\ UNCHANGED <<counts, faults>>
         ELSE Set(c, q) /\ FlushCounts(q)
      /\ UNCHANGED <<table, breaker, bounds, gone>>

(* The answer for a valid or malformed event: the state is read, and with it *)
(* the timeout looked at, but the rate is not evaluated.                     *)
Answer(c) ==
  /\ con[c].pc = "answer"
  /\ breaker' = Refreshed(breaker, now)
  /\ Set(c, Processed(Calculated(con[c])))
  /\ UNCHANGED <<counts, table, faults, bounds, gone>>

(* route_invalid_event: the record joins the buffer and is flushed at once.  *)
(* An exception is caught.                                                   *)
Route(c) ==
  /\ con[c].pc = "route" /\ Kind(con[c].msg) # "garbage"
  /\ Flushes(c, Append(con[c].buffer, con[c].msg), "examine", "examine")
  /\ UNCHANGED <<counts, breaker, bounds, gone>>

(* The same for a malformed payload, but its exception ends the loop, and it *)
(* is never a reason to open the breaker.                                    *)
HandleMalformedPayload(c) ==
  /\ con[c].pc = "route" /\ Kind(con[c].msg) = "garbage"
  /\ Flushes(c, Append(con[c].buffer, con[c].msg), "answer", "closing")
  /\ UNCHANGED <<counts, breaker, bounds, gone>>

(* The rate is calculated, and then the state read.                          *)
Examine(c) ==
  /\ con[c].pc = "examine"
  /\ breaker' = Refreshed(breaker, now)
  /\ Set(c, [Calculated(con[c]) EXCEPT !.pc = "evaluate", !.old = breaker'.state,
                                        !.closings = breaker'.successful_recoveries])
  /\ UNCHANGED <<counts, table, faults, bounds, gone>>

(* A deviation: only a trip out of CLOSED, as it was read, is one.           *)
IsTripFromClosed(old, new) == old = "CLOSED" /\ new = "OPEN"
IsTrip(old, new) == old # "OPEN" /\ new = "OPEN"

(* evaluate, and what to do about the state before and after it.             *)
Evaluate(c) ==
  LET r    == con[c]
      rate == ErrorRate(r.metrics)
  IN  /\ r.pc = "evaluate"
      /\ breaker' = Evaluated(breaker, rate, now)
      /\ Set(c, IF r.old = "HALF_OPEN" /\ r.metrics.total >= MinSample /\ rate <= ErrorThreshold
                THEN [r EXCEPT !.pc = "close"]
                ELSE IF IsTrip(r.old, breaker'.state) THEN [r EXCEPT !.pc = "raise"]
                ELSE Processed(r))
      /\ UNCHANGED <<counts, table, faults, bounds, gone>>

(* record_recovery_result(success=True); it raises unless HALF_OPEN, which   *)
(* is swallowed. The state is read once more for the answer.                 *)
AutoClose(c) ==
  /\ con[c].pc = "close"
  /\ breaker' = IF breaker.state = "HALF_OPEN" THEN Settled(breaker, TRUE, now)
                ELSE Refreshed(breaker, now)
  /\ Set(c, Processed(con[c]))
  /\ UNCHANGED <<counts, table, faults, bounds, gone>>

(* The incident is opened, the remediation started, the pipeline marked:     *)
(* SelfHealing shows how. The state is read once more for the answer.        *)
RaiseIncident(c) ==
  /\ con[c].pc = "raise"
  /\ breaker' = Refreshed(breaker, now)
  /\ Set(c, Processed(con[c]))
  /\ UNCHANGED <<counts, table, faults, bounds, gone>>

(* The periodic flush; its exception ends the loop.                          *)
PeriodicFlush(c) ==
  /\ con[c].pc = "flush"
  /\ Flushes(c, con[c].buffer, "poll", "closing")
  /\ UNCHANGED <<counts, breaker, bounds, gone>>

(* A deviation: the loop is left without the flush.                          *)
CloseUnflushed(c) ==
  /\ con[c].pc = "closing"
  /\ Set(c, [con[c] EXCEPT !.pc = "down"])
  /\ UNCHANGED <<counts, table, breaker, faults, bounds, gone>>

(* The flush in the finally block, on the way out of the loop.               *)
Close(c) ==
  /\ con[c].pc = "closing"
  /\ Flushes(c, con[c].buffer, "down", "down")
  /\ UNCHANGED <<counts, breaker, bounds, gone>>

(* A stop is asked for: SIGTERM, or the number of messages is reached.       *)
Stop(c) ==
  /\ c \notin Apis
  /\ con[c].pc = "poll"
  /\ Set(c, [con[c] EXCEPT !.pc = "closing"])
  /\ UNCHANGED <<counts, table, breaker, faults, bounds, gone>>

-------------------------------------------------------------------------------
(* Connections and processes *)

(* A writer that is let go of flushes once more (__del__), and what that     *)
(* leaves is lost.                                                           *)
LetGo(c) ==
  \E f \in Flush(c, con[c].buffer) :
    /\ table' = f.table /\ faults' = f.faults
    /\ lost' = lost \cup Entries(c, f.buffer)

(* In the background the client commits whatever it has handed out, in hand  *)
(* or not, so the group may stand at any position up to there.               *)
Committed(c) == con[c].from..con[c].pos

(* The telemetry loop connects again, with a new validator, router and       *)
(* writer; the engine is the process's.                                      *)
Reconnect(c) ==
  /\ c \in Apis
  /\ con[c].pc = "down"
  /\ LetGo(c)
  /\ \E start \in Committed(c) :
       Set(c, [NewConsumer(start) EXCEPT !.since = con[c].since, !.window = con[c].window,
                                         !.seen = con[c].seen])
  /\ UNCHANGED <<counts, breaker, bounds, killed>>

(* The worker ends with its loop and is started again, from what the group   *)
(* committed and with an empty window. When an exception ends it, nothing    *)
(* promises that the writer's __del__ still runs.                            *)
Restart(c) ==
  /\ c \notin Apis
  /\ con[c].pc = "down"
  /\ \/ LetGo(c)
     \/ lost' = lost \cup Entries(c, con[c].buffer) /\ UNCHANGED <<table, faults>>
  /\ \E start \in Committed(c) : Set(c, NewConsumer(start))
  /\ UNCHANGED <<counts, breaker, bounds, killed>>

InHand(c) == IF con[c].pc = "route" THEN {<<c, con[c].msg>>} ELSE {}

(* Any process may be killed; what it holds goes with it.                    *)
Kill(c) ==
  /\ Fault
  /\ killed' = killed \cup Entries(c, con[c].buffer) \cup InHand(c)
  /\ \E start \in Committed(c) : Set(c, NewConsumer(start))
  /\ UNCHANGED <<counts, table, breaker, bounds, lost>>

Undecided == breaker.successful_recoveries + breaker.failed_recoveries < MaxVerdicts

(* The remediation, before its verdict, takes an open breaker to HALF_OPEN.  *)
Probe ==
  /\ breaker.state = "OPEN" /\ Undecided
  /\ breaker' = Move(breaker, "HALF_OPEN", now)
  /\ UNCHANGED <<con, counts, table, faults, bounds, gone>>

(* The remediation's verdict.                                                *)
Verdict(pass) ==
  /\ breaker.state = "HALF_OPEN" /\ Undecided
  /\ breaker' = Settled(breaker, pass, now)
  /\ UNCHANGED <<con, counts, table, faults, bounds, gone>>

Tick ==
  /\ now < MaxClock /\ now' = now + 1
  /\ UNCHANGED <<topic, con, counts, table, breaker, faults, snaps, gone>>

Step(c) ==
  \/ Poll(c) \/ Answer(c) \/ Route(c) \/ HandleMalformedPayload(c)
  \/ Examine(c) \/ Evaluate(c)
  \/ AutoClose(c) \/ RaiseIncident(c) \/ PeriodicFlush(c) \/ Close(c)
  \/ Reconnect(c) \/ Restart(c)

Next ==
  \/ \E c \in Consumers : Step(c) \/ Stop(c) \/ Kill(c) \/ Snapshot(c)
  \/ Probe
  \/ \E pass \in BOOLEAN : Verdict(pass)
  \/ Tick

Spec == Init /\ [][Next]_vars

-------------------------------------------------------------------------------

(* Every invalid message that a consumer group has gone past, across its     *)
(* connections and processes, is in the table or waits in the buffer, or is  *)
(* in hand to be routed; or the process or the writer that held it is gone.  *)
Invalid == {"bad", "poison", "garbage"}
Accounted ==
  \A c \in Consumers :
    \A i \in First[c]..(con[c].pos - 1) :
      Kind(i) \in Invalid =>
        <<c, i>> \in table \cup lost \cup killed \cup InHand(c) \/ i \in ToSet(con[c].buffer)

(* One failed flush costs no record, be it followed by a stop or by a message*)
(* that ends the loop: the flush on the way out is a second chance. A writer *)
(* leaves a record behind only after two failures, or in the company of a    *)
(* record that the schema refuses.                                           *)
LostForCause ==
  \A p \in lost : \/ faults >= 2
                 \/ \E q \in lost : q[1] = p[1] /\ Kind(q[2]) = "poison"

NothingInvalidSlips == Accounted /\ LostForCause

(* The breaker is opened by evaluate only on the evidence of one process's   *)
(* own outcomes within the window, valid ones and those of malformed payloads*)
(* included, however long ago the engine last looked.                        *)
Recent(c) ==
  LET at == con[c].metrics.at
  IN  {k \in DOMAIN con[c].seen : con[c].seen[k].at \in (at - Window)..at}

TripsOnEvidence ==
  [][\A c \in Consumers :
       Evaluate(c) /\ breaker'.state = "OPEN" /\ breaker.state # "OPEN"
         => Scale * Cardinality({k \in Recent(c) : ~con[c].seen[k].valid})
              > ErrorThreshold * Cardinality(Recent(c))]_vars

(* A consumer whose evaluation opens the breaker goes on to raise it,        *)
(* whatever the remediation, the timeout and the other consumer have done to *)
(* the breaker since it read the state; except for the one case in which the *)
(* comparison of old and new state is blind: the breaker was open when it    *)
(* was read and has been closed since.                                       *)
ClosedSinceRead(c) ==
  con[c].old = "OPEN" /\ con[c].closings < breaker.successful_recoveries
EveryTripIsRaised ==
  [][\A c \in Consumers :
       Evaluate(c) /\ breaker.state # "OPEN" /\ breaker'.state = "OPEN"
         => con'[c].pc = "raise" \/ ClosedSinceRead(c)]_vars
===============================================================================
