---------------------------- MODULE QuarantineWriter ----------------------------
(***************************************************************************)
(* QuarantineWriter: records are buffered under a lock and appended to the *)
(* Iceberg table in batches. flush copies the buffer under the lock, lets  *)
(* go of it for the append, and takes it again to drop as many records     *)
(* from the front as it has copied. Threads may write, and flush, while    *)
(* another is at its append. The append is tried several times; an attempt *)
(* that raises may have committed all the same, and is then repeated.      *)
(***************************************************************************)
EXTENDS SequencesExt, Naturals

CONSTANTS Threads,      \* the threads that hold the writer
          Flushers,     \* those that flush: by a call of flush or close, or by a write
                        \* that is immediate, late or fills the batch
          Records,      \* the records to be written, each once
          Poison,       \* those of them that the schema of the table refuses
          BatchSize,    \* batch_size
          MaxRetries,   \* max_retries of write_batch
          MaxFailures   \* bound: attempts that raise

ASSUME WriterConfig ==
  /\ Flushers \subseteq Threads /\ Poison \subseteq Records
  /\ {BatchSize, MaxRetries} \subseteq Nat \ {0}

VARIABLES buffer,     \* _buffer
          quarantine, \* the records of the quarantine table, in the order of the appends
          thread,     \* where each thread is, with the copy it flushes
          accepted,   \* history: the records in the order write_record took them
          acked,      \* history: records of immediate writes that returned True
          unheard,    \* history: records of commits whose attempt raised
          failures    \* attempts that raised so far

writer_vars == <<buffer, quarantine, thread, accepted, acked, unheard, failures>>

(* mine holds the record of an immediate write, as long as it has not        *)
(* returned; tried counts the attempts that raised.                          *)
Idle == [pc |-> "idle", batch |-> << >>, mine |-> {}, tried |-> 0]

WriterInit ==
  /\ buffer = << >>
  /\ quarantine = << >>
  /\ thread = [t \in Threads |-> Idle]
  /\ accepted = << >>
  /\ acked = {} /\ unheard = {}
  /\ failures = 0

(* The call of thread t returns (_, success).                                *)
Return(t, success) ==
  /\ thread' = [thread EXCEPT ![t] = Idle]
  /\ acked' = IF success THEN acked \cup thread[t].mine ELSE acked

(* write_record. A thread that is no flusher writes with immediate=False,    *)
(* before the flush interval is over and the batch is full.                  *)
WriteRecord(t, r, immediate, interval) ==
  /\ thread[t].pc = "idle"
  /\ r \notin ToSet(accepted)
  /\ t \notin Flushers => ~immediate /\ ~interval /\ Len(buffer) + 1 < BatchSize
  /\ buffer' = Append(buffer, r)
  /\ accepted' = Append(accepted, r)
  /\ thread' = IF immediate \/ interval \/ Len(buffer') >= BatchSize
               THEN [thread EXCEPT ![t].pc = "flush", ![t].mine = IF immediate THEN {r} ELSE {}]
               ELSE thread
  /\ UNCHANGED <<quarantine, acked, unheard, failures>>

(* flush called for itself: close, and the end of a batch of events.         *)
CallFlush(t) ==
  /\ t \in Flushers
  /\ thread[t].pc = "idle"
  /\ thread' = [thread EXCEPT ![t].pc = "flush"]
  /\ UNCHANGED <<buffer, quarantine, accepted, acked, unheard, failures>>

(* The first critical section: an empty buffer is a success.                 *)
TakeBatch(t) ==
  /\ thread[t].pc = "flush"
  /\ IF buffer = << >> THEN Return(t, TRUE)
     ELSE /\ thread' = [thread EXCEPT ![t].pc = "append", ![t].batch = buffer]
          /\ UNCHANGED acked
  /\ UNCHANGED <<buffer, quarantine, accepted, unheard, failures>>

Poisoned(batch) == ToSet(batch) \cap Poison # {}

(* write_batch builds one Arrow table of the batch before its first attempt; *)
(* a record that the schema refuses makes that raise, out of flush and of    *)
(* write_record: the caller has no answer and the buffer stays.              *)
BatchRaises(t) ==
  /\ thread[t].pc = "append"
  /\ Poisoned(thread[t].batch)
  /\ Return(t, FALSE)
  /\ UNCHANGED <<buffer, quarantine, accepted, unheard, failures>>

(* A deviation: the loop goes on after an append that was heard of.          *)
AppendBatchAgain(t) ==
  /\ thread[t].pc = "append"
  /\ ~Poisoned(thread[t].batch)
  /\ quarantine' = quarantine \o thread[t].batch
  /\ thread' = IF thread[t].tried + 1 < MaxRetries THEN [thread EXCEPT ![t].tried = @ + 1]
               ELSE [thread EXCEPT ![t].pc = "drop"]
  /\ UNCHANGED <<buffer, accepted, acked, unheard, failures>>

(* An attempt of write_batch appends the batch and the caller hears of it.   *)
AppendBatch(t) ==
  /\ thread[t].pc = "append"
  /\ ~Poisoned(thread[t].batch)
  /\ quarantine' = quarantine \o thread[t].batch
  /\ thread' = [thread EXCEPT ![t].pc = "drop"]
  /\ UNCHANGED <<buffer, accepted, acked, unheard, failures>>

(* Deviations: that all attempts failed is not reported; the batch is given  *)
(* up.                                                                       *)
GiveUpSilently(t) == Return(t, TRUE) /\ UNCHANGED buffer
GiveUpForGood(t) == Return(t, FALSE) /\ buffer' = << >>

(* All attempts raised: the records stay in the buffer, the caller is told.  *)
GiveUp(t) == Return(t, FALSE) /\ UNCHANGED buffer

(* An attempt raises, before the commit or after it, when the answer of the  *)
(* catalog is lost. Either way the same batch is tried again.                *)
AttemptFails(t) ==
  /\ thread[t].pc = "append"
  /\ ~Poisoned(thread[t].batch)
  /\ failures < MaxFailures /\ failures' = failures + 1
  /\ \/ UNCHANGED <<quarantine, unheard>>
     \/ /\ quarantine' = quarantine \o thread[t].batch
        /\ unheard' = unheard \cup ToSet(thread[t].batch)
  /\ IF thread[t].tried + 1 < MaxRetries
     THEN thread' = [thread EXCEPT ![t].tried = @ + 1] /\ UNCHANGED <<buffer, acked>>
     ELSE GiveUp(t)
  /\ UNCHANGED accepted

(* A slice beyond the end of a Python list is empty.                         *)
DropFirst(s, n) == IF n >= Len(s) THEN << >> ELSE SubSeq(s, n + 1, Len(s))

(* A deviation: the buffer is emptied, with what was written meanwhile.      *)
DropBatchClears(t) ==
  /\ thread[t].pc = "drop"
  /\ buffer' = << >>
  /\ Return(t, TRUE)
  /\ UNCHANGED <<quarantine, accepted, unheard, failures>>

(* The second critical section.                                              *)
DropBatch(t) ==
  /\ thread[t].pc = "drop"
  /\ buffer' = DropFirst(buffer, Len(thread[t].batch))
  /\ Return(t, TRUE)
  /\ UNCHANGED <<quarantine, accepted, unheard, failures>>

WriterNext ==
  \E t \in Threads :
    \/ \E r \in Records, immediate, interval \in BOOLEAN : WriteRecord(t, r, immediate, interval)
    \/ CallFlush(t)
    \/ TakeBatch(t)
    \/ BatchRaises(t)
    \/ AppendBatch(t)
    \/ AttemptFails(t)
    \/ DropBatch(t)

WriterStep(t) ==
  TakeBatch(t) \/ BatchRaises(t) \/ AppendBatch(t) \/ AttemptFails(t) \/ DropBatch(t)

(* A thread inside flush goes on, and a flusher comes back to flush (the     *)
(* consumer does every fifty events and on its way out). Nothing is asked of *)
(* the outcome of an attempt: that attempts do not raise for ever is the     *)
(* bound MaxFailures.                                                          *)
Fairness ==
  \A t \in Flushers : WF_writer_vars(WriterStep(t)) /\ WF_writer_vars(CallFlush(t))

WriterSpec == WriterInit /\ [][WriterNext]_writer_vars /\ Fairness

-------------------------------------------------------------------------------

TypeOK ==
  /\ buffer \in Seq(Records) /\ quarantine \in Seq(Records) /\ accepted \in Seq(Records)
  /\ thread \in [Threads -> [pc : {"idle", "flush", "append", "drop"},
                             batch : Seq(Records), mine : SUBSET Records, tried : Nat]]
  /\ acked \subseteq Records /\ unheard \subseteq Records
  /\ failures \in Nat

(* What was accepted and is not known to be durable: the buffer, or what     *)
(* flush will leave of it once its batch was appended and heard of (it drops *)
(* by count, not by identity).                                               *)
Waiting ==
  IF \E t \in Threads : thread[t].pc = "drop"
  THEN LET t == CHOOSE u \in Threads : thread[u].pc = "drop"
       IN  DropFirst(buffer, Len(thread[t].batch))
  ELSE buffer

(* With one flusher, whatever the other threads write meanwhile and however  *)
(* attempts fail: the waiting records are the last ones accepted, in order,  *)
(* all earlier ones are in the table, and a record is there more than once   *)
(* only if the answer to a commit of it was lost.                            *)
DurableBeforeWaiting ==
  LET n == Len(accepted) - Len(Waiting)
  IN  /\ n >= 0
      /\ \A i \in 1..n : accepted[i] \in ToSet(quarantine)
      /\ \A i \in 1..Len(Waiting) : accepted[n + i] = Waiting[i]
RepeatedOnlyUnheard ==
  \A i, j \in DOMAIN quarantine :
    i # j /\ quarantine[i] = quarantine[j] => quarantine[i] \in unheard
AtLeastOnceInOrder == DurableBeforeWaiting /\ RepeatedOnlyUnheard

(* An immediate write that reports success has made its record durable.      *)
AckedIsDurable == acked \subseteq ToSet(quarantine)

(* A record that was accepted gets to the table, though flushes fail and     *)
(* other threads keep writing, as long as attempts do not fail for ever and  *)
(* no record is accepted that the schema refuses: such a one stays in the    *)
(* buffer, and makes every later flush raise.                                *)
EveryRecordArrives ==
  \A r \in Records :
    r \in ToSet(accepted) ~> r \in ToSet(quarantine) \/ Poisoned(accepted)

(* The module's docstring: "thread safety, failure preservation, and         *)
(* shutdown flush guarantees". Two threads that flush at once copy the same  *)
(* records and drop twice as many.                                           *)
NoRecordLost ==
  (\A t \in Threads : thread[t].pc = "idle") =>
    ToSet(accepted) \subseteq ToSet(quarantine) \cup ToSet(buffer)

(* One flusher: the writer is the one of QuarantineContract. A record waits  *)
(* from write_record until an append of its batch is heard of.               *)
Promise == INSTANCE QuarantineContract WITH
  Record <- Records, table <- quarantine, waiting <- Waiting, told <- acked,
  doubted <- unheard
KeepsPromise == Promise!Spec

===============================================================================
