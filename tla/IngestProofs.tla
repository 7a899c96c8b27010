------------------------------ MODULE IngestProofs ------------------------------
(***************************************************************************)
(* Proofs about the quarantine writer and about the consumers that use it. *)
(*                                                                         *)
(* QuarantineWriter, for any threads, records and batch size: what flush   *)
(* does to the buffer by its slice, the inductive invariant, and with a    *)
(* single flusher the guarantees of the writer.                            *)
(*                                                                         *)
(* StreamIngest, for any consumers, topics, thresholds and bounds: what    *)
(* each step does to the records of a consumer, to its window and to the   *)
(* breaker, and from these shapes alone that no invalid message slips by,  *)
(* that every trip is raised and that trips rest on evidence.              *)
(***************************************************************************)
EXTENDS QuarantineWriter, StreamIngest, SequenceTheorems, FiniteSetTheorems,
        WellFoundedInduction, TLAPS

(* One thread of the process flushes: the premise of the guarantees below     *)
(* (stream_worker's consumer has the writer to itself; two flushers drop      *)
(* records, which the run quarantine_loss shows).                             *)
OneFlusher == \A t, u \in Flushers : t = u

(* b is the front of s.                                                       *)
IsFront(b, s) == Len(b) <= Len(s) /\ \A i \in 1..Len(b) : b[i] = s[i]

(* Only flushers are inside flush, with the front of the buffer as their copy *)
(* once they have taken it, and the record of an immediate write is where the *)
(* next step of flush expects it.                                             *)
InFlush(t) ==
  /\ thread[t].pc # "idle" => t \in Flushers
  /\ thread[t].pc \in {"append", "drop"}
       => IsFront(thread[t].batch, buffer) /\ thread[t].batch # << >>
  /\ thread[t].pc = "idle" => thread[t].mine = {}
  /\ thread[t].pc = "flush" => thread[t].mine \subseteq ToSet(buffer)
  /\ thread[t].pc = "append" => thread[t].mine \subseteq ToSet(thread[t].batch)
  /\ thread[t].pc = "drop" => thread[t].mine \subseteq ToSet(quarantine)

(* How the records accepted, acc, those waiting, w, those of the table, q,    *)
(* and those whose commit was not heard of, un, hang together: what waits is  *)
(* the end of what was accepted, the rest is in the table, and what waits is  *)
(* there only if a commit of it was not heard of.                             *)
Distinct(acc) == \A i, j \in 1..Len(acc) : acc[i] = acc[j] => i = j
EndsWith(acc, w) ==
  Len(w) <= Len(acc) /\ \A i \in 1..Len(w) : acc[(Len(acc) - Len(w)) + i] = w[i]
Landed(acc, w, q) == \A i \in 1..(Len(acc) - Len(w)) : acc[i] \in ToSet(q)
Heard(w, q, un) == \A i \in 1..Len(w) : w[i] \in ToSet(q) => w[i] \in un
Repeats(q, un) == \A i, j \in 1..Len(q) : i # j /\ q[i] = q[j] => q[i] \in un

Ordered(acc, w, q, un) ==
  /\ Distinct(acc) /\ EndsWith(acc, w) /\ Landed(acc, w, q)
  /\ Heard(w, q, un) /\ Repeats(q, un)
  /\ ToSet(q) \subseteq ToSet(acc)

IInv ==
  /\ TypeOK
  /\ \A t \in Threads : InFlush(t)
  /\ Waiting \in Seq(Records)
  /\ Ordered(accepted, Waiting, quarantine, unheard)
  /\ AckedIsDurable
-------------------------------------------------------------------------------

(* The slice buffer[n:] of flush leaves a sequence of records.                *)
LEMMA DropFirstType ==
  ASSUME NEW S, NEW s \in Seq(S), NEW n \in Nat
  PROVE  DropFirst(s, n) \in Seq(S)
<1>1. CASE n >= Len(s)
  BY <1>1, EmptySeq DEF DropFirst
<1>2. CASE ~(n >= Len(s))
  <2>1. Len(s) \in Nat /\ \A i \in n + 1 .. Len(s) : s[i] \in S
    BY LenProperties, ElementOfSeq
  <2>2. SubSeq(s, n + 1, Len(s)) \in Seq(S)
    BY <2>1, SubSeqProperties
  <2> QED
    BY <1>2, <2>2 DEF DropFirst
<1> QED
  BY <1>1, <1>2

(* What is appended as the front of the buffer and what the slice leaves make *)
(* up the buffer: dropping by count is dropping what was written.             *)
LEMMA FrontAndRest ==
  ASSUME NEW S, NEW b \in Seq(S), NEW s \in Seq(S), IsFront(b, s)
  PROVE  s = b \o DropFirst(s, Len(b))
<1>1. Len(b) \in Nat /\ Len(s) \in Nat /\ Len(b) <= Len(s)
  BY LenProperties DEF IsFront
<1>2. CASE Len(b) = Len(s)
  <2>1. b = s
    BY <1>2, SeqEqual DEF IsFront
  <2>2. DropFirst(s, Len(b)) = << >>
    BY <1>1, <1>2 DEF DropFirst
  <2> QED
    BY <2>1, <2>2, ConcatEmptySeq
<1>3. CASE Len(b) < Len(s)
  <2> DEFINE rest == SubSeq(s, Len(b) + 1, Len(s))
  <2>1. DropFirst(s, Len(b)) = rest
    BY <1>1, <1>3 DEF DropFirst
  <2>2. \A i \in Len(b) + 1 .. Len(s) : s[i] \in S
    BY <1>1, ElementOfSeq
  <2>3. /\ rest \in Seq(S)
        /\ Len(rest) = Len(s) - Len(b)
        /\ \A i \in 1 .. Len(s) - Len(b) : rest[i] = s[Len(b) + i]
    <3>1. /\ rest \in Seq(S)
          /\ Len(rest) = IF Len(b) + 1 <= Len(s) THEN Len(s) - (Len(b) + 1) + 1 ELSE 0
          /\ \A i \in 1 .. Len(s) - (Len(b) + 1) + 1 : rest[i] = s[Len(b) + 1 + i - 1]
      BY <1>1, <2>2, SubSeqProperties
    <3> HIDE DEF rest
    <3> QED
      BY <1>1, <1>3, <3>1
  <2> HIDE DEF rest
  <2>4. /\ b \o rest \in Seq(S)
        /\ Len(b \o rest) = Len(s)
        /\ \A i \in 1 .. Len(b) + Len(rest) :
             (b \o rest)[i] = IF i <= Len(b) THEN b[i] ELSE rest[i - Len(b)]
    BY <1>1, <2>3, ConcatProperties
  <2>5. ASSUME NEW i \in 1 .. Len(s) PROVE s[i] = (b \o rest)[i]
    <3>1. CASE i <= Len(b)
      BY <1>1, <2>3, <2>4, <3>1 DEF IsFront
    <3>2. CASE ~(i <= Len(b))
      BY <1>1, <1>3, <2>3, <2>4, <3>2
    <3> QED
      BY <3>1, <3>2
  <2>6. s = b \o rest
    BY <2>4, <2>5, SeqEqual
  <2> QED
    BY <2>1, <2>6
<1> QED
  BY <1>1, <1>2, <1>3

(* A record written while a batch is at its append stays behind the batch.    *)
LEMMA AppendBehindFront ==
  ASSUME NEW S, NEW b \in Seq(S), NEW s \in Seq(S), NEW r \in S, IsFront(b, s)
  PROVE  /\ IsFront(b, Append(s, r))
         /\ DropFirst(Append(s, r), Len(b)) = Append(DropFirst(s, Len(b)), r)
<1> DEFINE a == Append(s, r)
<1>1. Len(b) \in Nat /\ Len(s) \in Nat /\ Len(b) <= Len(s)
  BY LenProperties DEF IsFront
<1>2. /\ a \in Seq(S)
      /\ Len(a) = Len(s) + 1
      /\ \A i \in 1 .. Len(s) : a[i] = s[i]
      /\ a[Len(s) + 1] = r
  BY AppendProperties
<1> HIDE DEF a
<1>3. IsFront(b, a)
  BY <1>1, <1>2 DEF IsFront
<1>4. DropFirst(a, Len(b)) = Append(DropFirst(s, Len(b)), r)
  <2> DEFINE rest == DropFirst(s, Len(b))
             left == DropFirst(a, Len(b))
  <2>1. rest \in Seq(S) /\ left \in Seq(S)
    BY <1>1, <1>2, DropFirstType
  <2>2. s = b \o rest /\ a = b \o left
    BY <1>2, <1>3, FrontAndRest
  <2> HIDE DEF rest, left
  <2>3. a = s \o <<r>> /\ <<r>> \in Seq(S) /\ Append(rest, r) = rest \o <<r>>
    BY <2>1, AppendIsConcat DEF a
  <2>4. a = b \o (rest \o <<r>>) /\ rest \o <<r>> \in Seq(S)
    BY <2>1, <2>2, <2>3, ConcatAssociative, ConcatProperties
  <2>5. left = rest \o <<r>>
    BY <2>1, <2>2, <2>4, ConcatSimplifications
  <2> QED
    BY <2>3, <2>5 DEF rest, left
<1> QED
  BY <1>3, <1>4 DEF a

(* The records of a sequence: none is lost or made up by an append.           *)
LEMMA RecordsOfConcat ==
  ASSUME NEW S, NEW s \in Seq(S), NEW t \in Seq(S)
  PROVE  ToSet(s \o t) = ToSet(s) \cup ToSet(t)
<1>1. \A q : ToSet(q) = Range(q)
  BY DEF ToSet, Range
<1> QED
  BY <1>1, RangeConcatenation

(* The same of one record.                                                    *)
LEMMA RecordsOfAppend ==
  ASSUME NEW S, NEW s \in Seq(S), NEW r \in S
  PROVE  ToSet(Append(s, r)) = ToSet(s) \cup {r}
<1>1. <<r>> \in Seq(S) /\ ToSet(<<r>>) = {r}
  BY DEF ToSet
<1>2. Append(s, r) = s \o <<r>>
  BY AppendIsConcat
<1>3. \A t \in Seq(S) : ToSet(s \o t) = ToSet(s) \cup ToSet(t)
  BY RecordsOfConcat
<1>4. ToSet(s \o <<r>>) = ToSet(s) \cup ToSet(<<r>>)
  BY <1>1, <1>3
<1> QED
  BY <1>1, <1>2, <1>4

(* A front of the buffer and what its slice leaves are the two parts of it    *)
(* that the contract names.                                                   *)
LEMMA SplitAtFront ==
  ASSUME NEW S, NEW b \in Seq(S), NEW s \in Seq(S), IsFront(b, s)
  PROVE  b = SubSeq(s, 1, Len(b)) /\ DropFirst(s, Len(b)) = SubSeq(s, Len(b) + 1, Len(s))
<1>1. Len(b) \in Nat /\ Len(s) \in Nat /\ Len(b) <= Len(s)
  BY LenProperties DEF IsFront
<1>2. b = SubSeq(s, 1, Len(b))
  <2> DEFINE front == SubSeq(s, 1, Len(b))
  <2>1. \A i \in 1..Len(b) : s[i] \in S
    BY <1>1, ElementOfSeq
  <2>2. /\ front \in Seq(S) /\ Len(front) = Len(b)
        /\ \A i \in 1..Len(b) : front[i] = s[i]
    BY <1>1, <2>1, SubSeqProperties
  <2> HIDE DEF front
  <2>3. b = front
    BY <2>2, SeqEqual DEF IsFront
  <2> QED
    BY <2>3 DEF front
<1>3. DropFirst(s, Len(b)) = SubSeq(s, Len(b) + 1, Len(s))
  <2>1. CASE Len(b) = Len(s)
    <3>1. SubSeq(s, Len(s) + 1, Len(s)) = << >>
      BY <1>1, SubSeqProperties, EmptySeq
    <3> QED
      BY <1>1, <2>1, <3>1 DEF DropFirst
  <2>2. CASE Len(b) # Len(s)
    BY <1>1, <2>2 DEF DropFirst
  <2> QED
    BY <2>1, <2>2
<1> QED
  BY <1>2, <1>3

(* The records of a sequence are those at its places.                         *)
LEMMA InSequence ==
  ASSUME NEW S, NEW s \in Seq(S), NEW r
  PROVE  r \in ToSet(s) <=> \E i \in 1..Len(s) : s[i] = r
<1>1. DOMAIN s = 1..Len(s)
  OBVIOUS
<1> QED
  BY <1>1 DEF ToSet

(* What the slice leaves, place by place.                                     *)
LEMMA RestAfterFront ==
  ASSUME NEW S, NEW b \in Seq(S), NEW s \in Seq(S), IsFront(b, s)
  PROVE  LET rest == DropFirst(s, Len(b))
         IN  /\ rest \in Seq(S) /\ Len(rest) = Len(s) - Len(b)
             /\ \A i \in 1..Len(rest) : rest[i] = s[Len(b) + i]
<1> DEFINE rest == DropFirst(s, Len(b))
<1>1. Len(b) \in Nat /\ Len(s) \in Nat /\ Len(b) <= Len(s)
  BY LenProperties DEF IsFront
<1>2. rest \in Seq(S) /\ s = b \o rest
  BY <1>1, DropFirstType, FrontAndRest
<1> HIDE DEF rest
<1>3. /\ Len(b \o rest) = Len(b) + Len(rest)
      /\ \A i \in 1 .. Len(b) + Len(rest) :
           (b \o rest)[i] = IF i <= Len(b) THEN b[i] ELSE rest[i - Len(b)]
  BY <1>2, ConcatProperties
<1>4. Len(rest) \in Nat
  BY <1>2, LenProperties
<1>5. Len(rest) = Len(s) - Len(b)
  BY <1>1, <1>2, <1>3, <1>4
<1>6. ASSUME NEW i \in 1..Len(rest) PROVE rest[i] = s[Len(b) + i]
  <2>1. /\ Len(b) + i \in 1 .. Len(b) + Len(rest) /\ ~(Len(b) + i <= Len(b))
        /\ (Len(b) + i) - Len(b) = i
    BY <1>1, <1>4
  <2> QED
    BY <1>2, <1>3, <2>1
<1> QED
  BY <1>2, <1>5, <1>6 DEF rest

(* A record that was not accepted before is taken.                            *)
LEMMA OrderedTake ==
  ASSUME NEW S, NEW acc \in Seq(S), NEW w \in Seq(S), NEW q \in Seq(S), NEW un,
         Ordered(acc, w, q, un), NEW r \in S, r \notin ToSet(acc)
  PROVE  Ordered(Append(acc, r), Append(w, r), q, un)
<1> DEFINE a == Append(acc, r)
           v == Append(w, r)
<1>1. /\ a \in Seq(S) /\ Len(a) = Len(acc) + 1 /\ a[Len(acc) + 1] = r
      /\ \A i \in 1..Len(acc) : a[i] = acc[i]
      /\ v \in Seq(S) /\ Len(v) = Len(w) + 1 /\ v[Len(w) + 1] = r
      /\ \A i \in 1..Len(w) : v[i] = w[i]
      /\ Len(acc) \in Nat /\ Len(w) \in Nat /\ Len(w) <= Len(acc)
  BY AppendProperties, LenProperties DEF Ordered, EndsWith
<1>2. ToSet(a) = ToSet(acc) \cup {r} /\ r \notin ToSet(q)
  BY RecordsOfAppend DEF Ordered
<1>3. \A i \in 1..Len(acc) : acc[i] # r
  BY InSequence
<1> HIDE DEF a, v
<1>4. Distinct(a)
  <2> SUFFICES ASSUME NEW i \in 1..Len(a), NEW j \in 1..Len(a), a[i] = a[j]
               PROVE  i = j
    BY DEF Distinct
  <2>1. (i \in 1..Len(acc) \/ i = Len(acc) + 1) /\ (j \in 1..Len(acc) \/ j = Len(acc) + 1)
    BY <1>1
  <2> QED
    BY <1>1, <1>3, <2>1 DEF Ordered, Distinct
<1>5. EndsWith(a, v)
  <2>1. Len(v) <= Len(a) /\ Len(a) - Len(v) = Len(acc) - Len(w)
    BY <1>1
  <2>2. ASSUME NEW i \in 1..Len(v) PROVE a[(Len(a) - Len(v)) + i] = v[i]
    <3>1. CASE i \in 1..Len(w)
      <4>1. (Len(acc) - Len(w)) + i \in 1..Len(acc)
        BY <1>1, <3>1
      <4> QED
        BY <1>1, <2>1, <3>1, <4>1 DEF Ordered, EndsWith
    <3>2. CASE i = Len(w) + 1
      <4>1. (Len(acc) - Len(w)) + i = Len(acc) + 1
        BY <1>1, <3>2
      <4> QED
        BY <1>1, <2>1, <3>2, <4>1
    <3> QED
      BY <1>1, <3>1, <3>2
  <2> QED
    BY <2>1, <2>2 DEF EndsWith
<1>6. Landed(a, v, q)
  <2>1. Len(a) - Len(v) = Len(acc) - Len(w)
    BY <1>1
  <2>2. \A i \in 1..(Len(acc) - Len(w)) : i \in 1..Len(acc)
    BY <1>1
  <2> QED
    BY <1>1, <2>1, <2>2 DEF Ordered, Landed
<1>7. Heard(v, q, un)
  <2> SUFFICES ASSUME NEW i \in 1..Len(v), v[i] \in ToSet(q) PROVE v[i] \in un
    BY DEF Heard
  <2>1. i \in 1..Len(w) \/ i = Len(w) + 1
    BY <1>1
  <2> QED
    BY <1>1, <1>2, <2>1 DEF Ordered, Heard
<1> QED
  BY <1>2, <1>4, <1>5, <1>6, <1>7 DEF Ordered, a, v

(* The front of what waits is appended to the table, heard of or not: which   *)
(* records the table then holds, and which twice.                             *)
LEMMA OrderedAppend ==
  ASSUME NEW S, NEW acc \in Seq(S), NEW w \in Seq(S), NEW q \in Seq(S), NEW un,
         Ordered(acc, w, q, un), NEW b \in Seq(S), IsFront(b, w)
  PROVE  /\ q \o b \in Seq(S) /\ ToSet(q \o b) = ToSet(q) \cup ToSet(b)
         /\ ToSet(q \o b) \subseteq ToSet(acc)
         /\ Repeats(q \o b, un)
         /\ \A i, j \in 1..Len(w) : w[i] = w[j] => i = j
<1> DEFINE p == q \o b
<1>1. /\ p \in Seq(S) /\ Len(p) = Len(q) + Len(b)
      /\ \A i \in 1 .. Len(q) + Len(b) : p[i] = IF i <= Len(q) THEN q[i] ELSE b[i - Len(q)]
      /\ Len(q) \in Nat /\ Len(b) \in Nat /\ Len(w) \in Nat /\ Len(acc) \in Nat
      /\ Len(b) <= Len(w) /\ Len(w) <= Len(acc)
  BY ConcatProperties, LenProperties DEF Ordered, EndsWith, IsFront
<1>2. ToSet(p) = ToSet(q) \cup ToSet(b)
  BY RecordsOfConcat
<1>3. ASSUME NEW i \in 1..Len(w)
      PROVE  (Len(acc) - Len(w)) + i \in 1..Len(acc) /\ acc[(Len(acc) - Len(w)) + i] = w[i]
  BY <1>1, <1>3 DEF Ordered, EndsWith
<1>4. ASSUME NEW i \in 1..Len(w), NEW j \in 1..Len(w), w[i] = w[j] PROVE i = j
  <2>1. (Len(acc) - Len(w)) + i = (Len(acc) - Len(w)) + j
    BY <1>3, <1>4 DEF Ordered, Distinct
  <2> QED
    BY <1>1, <2>1
<1>5. \A i \in 1..Len(b) : i \in 1..Len(w) /\ b[i] = w[i]
  BY <1>1 DEF IsFront
<1>6. ToSet(b) \subseteq ToSet(acc)
  <2> SUFFICES ASSUME NEW r \in ToSet(b) PROVE r \in ToSet(acc)
    OBVIOUS
  <2>1. PICK i \in 1..Len(b) : b[i] = r
    BY InSequence
  <2> QED
    BY <1>3, <1>5, <2>1, InSequence
<1> HIDE DEF p
<1>7. Repeats(p, un)
  <2>1. ASSUME NEW i \in 1..Len(p), NEW j \in 1..Len(p), i < j, p[i] = p[j]
        PROVE  p[i] \in un
    <3>1. CASE j <= Len(q)
      <4>1. i \in 1..Len(q) /\ j \in 1..Len(q) /\ i # j /\ p[i] = q[i] /\ p[j] = q[j]
        BY <1>1, <2>1, <3>1
      <4> QED
        BY <2>1, <4>1 DEF Ordered, Repeats
    <3>2. CASE ~(j <= Len(q)) /\ i <= Len(q)
      <4>1. j - Len(q) \in 1..Len(b) /\ p[j] = b[j - Len(q)]
        BY <1>1, <2>1, <3>2
      <4>2. i \in 1..Len(q) /\ p[i] = q[i]
        BY <1>1, <2>1, <3>2
      <4>3. p[i] \in ToSet(q)
        BY <4>2, InSequence
      <4> QED
        BY <1>5, <2>1, <4>1, <4>3 DEF Ordered, Heard
    <3>3. CASE ~(i <= Len(q))
      <4>1. /\ i - Len(q) \in 1..Len(b) /\ p[i] = b[i - Len(q)]
            /\ j - Len(q) \in 1..Len(b) /\ p[j] = b[j - Len(q)]
            /\ i - Len(q) # j - Len(q)
        BY <1>1, <2>1, <3>3
      <4> QED
        BY <1>4, <1>5, <2>1, <4>1
    <3> QED
      BY <3>1, <3>2, <3>3
  <2> SUFFICES ASSUME NEW i \in 1..Len(p), NEW j \in 1..Len(p), i # j, p[i] = p[j]
               PROVE  p[i] \in un
    BY DEF Repeats
  <2>2. i < j \/ j < i
    BY <1>1
  <2> QED
    BY <2>1, <2>2
<1> QED
  BY <1>1, <1>2, <1>4, <1>6, <1>7 DEF Ordered, p

(* The append was heard of: its records wait no longer.                       *)
LEMMA OrderedPersist ==
  ASSUME NEW S, NEW acc \in Seq(S), NEW w \in Seq(S), NEW q \in Seq(S), NEW un,
         Ordered(acc, w, q, un), NEW b \in Seq(S), IsFront(b, w)
  PROVE  Ordered(acc, DropFirst(w, Len(b)), q \o b, un)
<1> DEFINE p == q \o b
           v == DropFirst(w, Len(b))
<1>1. /\ p \in Seq(S) /\ ToSet(p) = ToSet(q) \cup ToSet(b) /\ ToSet(p) \subseteq ToSet(acc)
      /\ Repeats(p, un)
      /\ \A i, j \in 1..Len(w) : w[i] = w[j] => i = j
  BY OrderedAppend
<1>2. /\ v \in Seq(S) /\ Len(v) = Len(w) - Len(b)
      /\ \A i \in 1..Len(v) : v[i] = w[Len(b) + i]
  BY RestAfterFront
<1> HIDE DEF p, v
<1>3. /\ Len(w) \in Nat /\ Len(b) \in Nat /\ Len(acc) \in Nat
      /\ Len(b) <= Len(w) /\ Len(w) <= Len(acc)
  BY LenProperties DEF IsFront, Ordered, EndsWith
<1>4. EndsWith(acc, v)
  <2>1. ASSUME NEW i \in 1..Len(v) PROVE acc[(Len(acc) - Len(v)) + i] = v[i]
    <3>1. /\ Len(b) + i \in 1..Len(w)
          /\ (Len(acc) - Len(w)) + (Len(b) + i) = (Len(acc) - Len(v)) + i
      BY <1>2, <1>3
    <3>2. acc[(Len(acc) - Len(w)) + (Len(b) + i)] = w[Len(b) + i]
      BY <3>1 DEF Ordered, EndsWith
    <3> QED
      BY <1>2, <3>1, <3>2
  <2> QED
    BY <1>2, <1>3, <2>1 DEF EndsWith
<1>5. Landed(acc, v, p)
  <2> SUFFICES ASSUME NEW i \in 1..(Len(acc) - Len(v)) PROVE acc[i] \in ToSet(p)
    BY DEF Landed
  <2>1. CASE i \in 1..(Len(acc) - Len(w))
    BY <1>1, <2>1 DEF Ordered, Landed
  <2>2. CASE i \notin 1..(Len(acc) - Len(w))
    <3> DEFINE k == i - (Len(acc) - Len(w))
    <3>1. k \in 1..Len(b) /\ k \in 1..Len(w) /\ (Len(acc) - Len(w)) + k = i
      BY <1>2, <1>3, <2>2
    <3> HIDE DEF k
    <3>2. acc[(Len(acc) - Len(w)) + k] = w[k] /\ b[k] = w[k]
      BY <3>1 DEF Ordered, EndsWith, IsFront
    <3>3. b[k] \in ToSet(b)
      BY <3>1, InSequence
    <3> QED
      BY <1>1, <3>1, <3>2, <3>3
  <2> QED
    BY <2>1, <2>2
<1>6. Heard(v, p, un)
  <2> SUFFICES ASSUME NEW i \in 1..Len(v), v[i] \in ToSet(p) PROVE v[i] \in un
    BY DEF Heard
  <2>1. Len(b) + i \in 1..Len(w) /\ v[i] = w[Len(b) + i]
    BY <1>2, <1>3
  <2>2. v[i] \notin ToSet(b)
    <3>1. ASSUME NEW k \in 1..Len(b), b[k] = v[i] PROVE FALSE
      <4>1. k \in 1..Len(w) /\ w[k] = w[Len(b) + i] /\ k # Len(b) + i
        BY <1>3, <2>1, <3>1 DEF IsFront
      <4> QED
        BY <1>1, <2>1, <4>1
    <3> QED
      BY <3>1, InSequence
  <2> QED
    BY <1>1, <2>1, <2>2 DEF Ordered, Heard
<1> QED
  BY <1>1, <1>4, <1>5, <1>6 DEF Ordered, p, v

(* It was not: they wait on, and may land again.                              *)
LEMMA OrderedDoubt ==
  ASSUME NEW S, NEW acc \in Seq(S), NEW w \in Seq(S), NEW q \in Seq(S), NEW un,
         Ordered(acc, w, q, un), NEW b \in Seq(S), IsFront(b, w)
  PROVE  Ordered(acc, w, q \o b, un \cup ToSet(b))
<1> DEFINE p == q \o b
           d == un \cup ToSet(b)
<1>1. /\ p \in Seq(S) /\ ToSet(p) = ToSet(q) \cup ToSet(b) /\ ToSet(p) \subseteq ToSet(acc)
      /\ Repeats(p, un)
  BY OrderedAppend
<1>2. un \subseteq d /\ ToSet(b) \subseteq d
  OBVIOUS
<1> HIDE DEF p, d
<1>3. Repeats(p, d)
  BY <1>1, <1>2 DEF Repeats
<1>4. Landed(acc, w, p) /\ Heard(w, p, d)
  BY <1>1, <1>2 DEF Ordered, Landed, Heard
<1> QED
  BY <1>1, <1>3, <1>4 DEF Ordered, p, d
-------------------------------------------------------------------------------

(* What waits, by what the threads th are at and the buffer b.                *)
WaitsOf(th, b) ==
  IF \E t \in Threads : th[t].pc = "drop"
  THEN LET t == CHOOSE u \in Threads : th[u].pc = "drop"
       IN  DropFirst(b, Len(th[t].batch))
  ELSE b

LEMMA WaitingOf == Waiting = WaitsOf(thread, buffer) /\ Waiting' = WaitsOf(thread', buffer')
BY DEF Waiting, WaitsOf

(* While nobody else is about to drop, thread t decides.                      *)
LEMMA WaitsCases ==
  ASSUME NEW th, NEW b, NEW t \in Threads,
         \A u \in Threads : u # t => th[u].pc # "drop"
  PROVE  /\ th[t].pc = "drop" => WaitsOf(th, b) = DropFirst(b, Len(th[t].batch))
         /\ th[t].pc # "drop" => WaitsOf(th, b) = b
<1>1. CASE th[t].pc = "drop"
  <2>1. t = CHOOSE u \in Threads : th[u].pc = "drop"
    BY <1>1
  <2> QED
    BY <1>1, <2>1 DEF WaitsOf
<1>2. CASE th[t].pc # "drop"
  BY <1>2 DEF WaitsOf
<1> QED
  BY <1>1, <1>2

(* One flusher: while it is inside flush nobody else is.                      *)
LEMMA AloneInFlush ==
  ASSUME OneFlusher, IInv, NEW t \in Threads, t \in Flushers
  PROVE  \A u \in Threads : u # t => thread[u].pc = "idle"
BY DEF OneFlusher, IInv, InFlush

(* A step of the writer, by what becomes of the records.                      *)
Takes(r) ==
  /\ r \in Records \ ToSet(accepted)
  /\ accepted' = Append(accepted, r) /\ Waiting' = Append(Waiting, r)
  /\ UNCHANGED <<quarantine, unheard, acked>>

Lands(b) ==
  /\ b \in Seq(Records) /\ b # << >> /\ IsFront(b, Waiting)
  /\ quarantine' = quarantine \o b
  /\ UNCHANGED <<accepted, acked>>
Persists(b) == Lands(b) /\ Waiting' = DropFirst(Waiting, Len(b)) /\ unheard' = unheard
Doubts(b) == Lands(b) /\ Waiting' = Waiting /\ unheard' = unheard \cup ToSet(b)

Tells ==
  /\ UNCHANGED <<accepted, quarantine, unheard>> /\ Waiting' = Waiting
  /\ acked \subseteq acked' /\ acked' \subseteq ToSet(quarantine)

RecordStep ==
  \/ \E r \in Records : Takes(r)
  \/ \E b \in Seq(Records) : Persists(b) \/ Doubts(b)
  \/ Tells

Fits == TypeOK /\ \A t \in Threads : InFlush(t)

(* The types of the variables that a step of flush does not change.           *)
LEMMA Typed ==
  ASSUME IInv
  PROVE  /\ buffer \in Seq(Records) /\ quarantine \in Seq(Records)
         /\ accepted \in Seq(Records) /\ Waiting \in Seq(Records)
         /\ thread = [t \in Threads |-> thread[t]]
         /\ \A t \in Threads : thread[t].batch \in Seq(Records)
BY DEF IInv, TypeOK

(* The call of thread t returns: it is as it was at first, the others stay.   *)
LEMMA Returned ==
  ASSUME IInv, NEW t \in Threads, NEW success \in BOOLEAN, Return(t, success)
  PROVE  /\ thread'[t] = Idle /\ \A u \in Threads : u # t => thread'[u] = thread[u]
         /\ thread' \in [Threads -> [pc : {"idle", "flush", "append", "drop"},
                                     batch : Seq(Records), mine : SUBSET Records, tried : Nat]]
         /\ acked' = IF success THEN acked \cup thread[t].mine ELSE acked
         /\ acked' \subseteq Records
<1>1. Idle \in [pc : {"idle", "flush", "append", "drop"},
                batch : Seq(Records), mine : SUBSET Records, tried : Nat]
  BY EmptySeq DEF Idle
<1>2. thread[t].mine \in SUBSET Records /\ acked \subseteq Records
  BY DEF IInv, TypeOK
<1> QED
  BY <1>1, <1>2 DEF Return, IInv, TypeOK

(* write_record puts its record behind whatever flush is at.                  *)
LEMMA WriteRecordSteps ==
  ASSUME OneFlusher, IInv, NEW t \in Threads, NEW r \in Records,
         NEW immediate \in BOOLEAN, NEW interval \in BOOLEAN,
         WriteRecord(t, r, immediate, interval)
  PROVE  Fits' /\ Takes(r)
<1>1. /\ thread[t].pc = "idle" /\ r \notin ToSet(accepted)
      /\ t \notin Flushers => ~immediate /\ ~interval /\ Len(buffer) + 1 < BatchSize
      /\ buffer' = Append(buffer, r) /\ accepted' = Append(accepted, r)
      /\ UNCHANGED <<quarantine, acked, unheard, failures>>
  BY DEF WriteRecord
<1> DEFINE flushes == immediate \/ interval \/ Len(buffer') >= BatchSize
           mine == IF immediate THEN {r} ELSE {}
<1>2. thread' = IF flushes THEN [thread EXCEPT ![t].pc = "flush", ![t].mine = mine] ELSE thread
  BY DEF WriteRecord
<1>3. buffer \in Seq(Records) /\ accepted \in Seq(Records) /\ quarantine \in Seq(Records)
      /\ \A u \in Threads : thread[u].batch \in Seq(Records)
  BY Typed
<1>4. /\ buffer' \in Seq(Records) /\ accepted' \in Seq(Records)
      /\ ToSet(buffer') = ToSet(buffer) \cup {r} /\ Len(buffer') = Len(buffer) + 1
  BY <1>1, <1>3, AppendProperties, RecordsOfAppend
<1>5. flushes => t \in Flushers
  <2>1. Len(buffer) \in Nat /\ BatchSize \in Nat
    BY <1>3, LenProperties, WriterConfig
  <2> QED
    BY <1>1, <1>4, <2>1
<1>6. mine \in SUBSET Records /\ mine \subseteq ToSet(buffer')
  BY <1>4
<1> HIDE DEF flushes, mine
<1>7. TypeOK'
  BY <1>1, <1>2, <1>4, <1>6 DEF IInv, TypeOK
<1>8. /\ \A u \in Threads : u # t => thread'[u] = thread[u]
      /\ \/ thread'[t] = thread[t]
         \/ t \in Flushers /\ thread'[t].pc = "flush" /\ thread'[t].mine = mine
      /\ thread'[t].pc # "drop" /\ thread'[t].batch = thread[t].batch
  <2>1. CASE flushes
    <3>1. thread' = [thread EXCEPT ![t].pc = "flush", ![t].mine = mine]
      BY <1>2, <2>1
    <3> QED
      BY <1>1, <1>5, <2>1, <3>1 DEF IInv, TypeOK
  <2>2. CASE ~flushes
    <3>1. thread' = thread
      BY <1>2, <2>2
    <3> QED
      BY <1>1, <3>1
  <2> QED
    BY <2>1, <2>2
<1>9. ASSUME NEW u \in Threads
      PROVE  IsFront(thread[u].batch, buffer)
               => /\ IsFront(thread[u].batch, buffer')
                  /\ DropFirst(buffer', Len(thread[u].batch))
                       = Append(DropFirst(buffer, Len(thread[u].batch)), r)
  BY <1>1, <1>3, AppendBehindFront
<1>10. ASSUME NEW u \in Threads PROVE InFlush(u)'
  <2>1. CASE thread'[u] = thread[u]
    BY <1>1, <1>4, <1>9, <2>1 DEF IInv, InFlush
  <2>2. CASE u = t /\ t \in Flushers /\ thread'[t].pc = "flush" /\ thread'[t].mine = mine
    BY <1>6, <2>2 DEF InFlush
  <2> QED
    BY <1>8, <2>1, <2>2
<1>11. Waiting' = Append(Waiting, r)
  <2>1. CASE \E u \in Threads : thread[u].pc = "drop"
    <3>1. PICK u \in Threads : thread[u].pc = "drop"
      BY <2>1
    <3>2. /\ u # t /\ u \in Flushers /\ thread'[u] = thread[u]
          /\ IsFront(thread[u].batch, buffer)
      BY <1>1, <1>8, <3>1 DEF IInv, InFlush
    <3>3. \A v \in Threads : v # u => thread[v].pc # "drop" /\ thread'[v].pc # "drop"
      BY <1>8, <3>2, AloneInFlush
    <3>4. /\ Waiting = DropFirst(buffer, Len(thread[u].batch))
          /\ Waiting' = DropFirst(buffer', Len(thread[u].batch))
      <4>1. /\ WaitsOf(thread, buffer) = DropFirst(buffer, Len(thread[u].batch))
            /\ WaitsOf(thread', buffer') = DropFirst(buffer', Len(thread'[u].batch))
        BY <3>1, <3>2, <3>3, WaitsCases
      <4> QED
        BY <3>2, <4>1, WaitingOf
    <3> QED
      BY <1>9, <3>2, <3>4
  <2>2. CASE \A u \in Threads : thread[u].pc # "drop"
    <3>1. \A u \in Threads : thread'[u].pc # "drop"
      BY <1>8, <2>2
    <3>2. WaitsOf(thread, buffer) = buffer /\ WaitsOf(thread', buffer') = buffer'
      BY <2>2, <3>1, WaitsCases
    <3> QED
      BY <1>1, <3>2, WaitingOf
  <2> QED
    BY <2>1, <2>2
<1> QED
  BY <1>1, <1>7, <1>10, <1>11 DEF Fits, Takes

(* Steps of flush that leave the buffer and what waits: the flusher was not   *)
(* at the drop and is not there afterwards.                                   *)
LEMMA SameWaiting ==
  ASSUME OneFlusher, IInv, NEW t \in Threads, t \in Flushers, thread[t].pc # "drop",
         thread'[t].pc # "drop", \A u \in Threads : u # t => thread'[u] = thread[u],
         buffer' = buffer
  PROVE  Waiting = buffer /\ Waiting' = Waiting
<1>1. \A u \in Threads : u # t => thread[u].pc # "drop" /\ thread'[u].pc # "drop"
  BY AloneInFlush
<1>2. WaitsOf(thread, buffer) = buffer /\ WaitsOf(thread', buffer') = buffer
  BY <1>1, WaitsCases
<1> QED
  BY <1>2, WaitingOf

(* A flusher enters flush for itself and waits for no record.                 *)
LEMMA CallFlushSteps ==
  ASSUME OneFlusher, IInv, NEW t \in Threads, CallFlush(t)
  PROVE  Fits' /\ Tells
<1>1. /\ thread[t].pc = "idle" /\ t \in Flushers
      /\ UNCHANGED <<buffer, quarantine, accepted, acked, unheard, failures>>
      /\ thread' = [thread EXCEPT ![t].pc = "flush"]
  BY DEF CallFlush
<1>2. /\ thread'[t].pc = "flush" /\ thread'[t].mine = thread[t].mine
      /\ \A u \in Threads : u # t => thread'[u] = thread[u]
  BY <1>1 DEF IInv, TypeOK
<1>3. TypeOK'
  BY <1>1 DEF IInv, TypeOK
<1>4. ASSUME NEW u \in Threads PROVE InFlush(u)'
  <2>1. CASE u = t
    BY <1>1, <1>2, <2>1 DEF IInv, InFlush
  <2>2. CASE u # t
    BY <1>1, <1>2, <2>2 DEF IInv, InFlush
  <2> QED
    BY <2>1, <2>2
<1>5. Waiting' = Waiting
  BY <1>1, <1>2, SameWaiting
<1> QED
  BY <1>1, <1>3, <1>4, <1>5 DEF Fits, Tells, IInv, AckedIsDurable

(* The first critical section copies the buffer, or finds it empty: then no   *)
(* immediate write waits for it.                                              *)
LEMMA TakeBatchSteps ==
  ASSUME OneFlusher, IInv, NEW t \in Threads, TakeBatch(t)
  PROVE  Fits' /\ Tells
<1>1. /\ thread[t].pc = "flush" /\ t \in Flushers
      /\ UNCHANGED <<buffer, quarantine, accepted, unheard, failures>>
      /\ buffer \in Seq(Records) /\ thread[t].mine \subseteq ToSet(buffer)
  BY DEF TakeBatch, IInv, TypeOK, InFlush
<1>2. CASE buffer = << >>
  <2>1. Return(t, TRUE) /\ thread[t].mine = {}
    <3>1. ToSet(buffer) = {}
      BY <1>2 DEF ToSet
    <3> QED
      BY <1>1, <1>2, <3>1 DEF TakeBatch
  <2>2. /\ thread'[t] = Idle /\ \A u \in Threads : u # t => thread'[u] = thread[u]
        /\ acked' = acked /\ TypeOK'
    BY <1>1, <2>1, Returned DEF IInv, TypeOK
  <2>3. ASSUME NEW u \in Threads PROVE InFlush(u)'
    BY <1>1, <2>2 DEF IInv, InFlush, Idle
  <2>4. Waiting' = Waiting
    BY <1>1, <2>2, SameWaiting DEF Idle
  <2> QED
    BY <1>1, <2>2, <2>3, <2>4 DEF Fits, Tells, IInv, AckedIsDurable
<1>3. CASE buffer # << >>
  <2>1. thread' = [thread EXCEPT ![t].pc = "append", ![t].batch = buffer] /\ acked' = acked
    BY <1>3 DEF TakeBatch
  <2>2. /\ thread'[t].pc = "append" /\ thread'[t].batch = buffer
        /\ thread'[t].mine = thread[t].mine
        /\ \A u \in Threads : u # t => thread'[u] = thread[u]
    BY <2>1 DEF IInv, TypeOK
  <2>3. TypeOK'
    BY <1>1, <2>1 DEF IInv, TypeOK
  <2>4. IsFront(buffer, buffer)
    BY <1>1, LenProperties DEF IsFront
  <2>5. ASSUME NEW u \in Threads PROVE InFlush(u)'
    <3>1. CASE u = t
      BY <1>1, <1>3, <2>2, <2>4, <3>1 DEF InFlush
    <3>2. CASE u # t
      BY <1>1, <2>2, <3>2 DEF IInv, InFlush
    <3> QED
      BY <3>1, <3>2
  <2>6. Waiting' = Waiting
    BY <1>1, <2>2, SameWaiting
  <2> QED
    BY <1>1, <2>1, <2>3, <2>5, <2>6 DEF Fits, Tells, IInv, AckedIsDurable
<1> QED
  BY <1>2, <1>3

(* A call that returns without success keeps everything.                      *)
LEMMA GivenUp ==
  ASSUME OneFlusher, IInv, NEW t \in Threads, t \in Flushers, thread[t].pc = "append",
         Return(t, FALSE), UNCHANGED <<buffer, accepted>>,
         quarantine' \in Seq(Records), ToSet(quarantine) \subseteq ToSet(quarantine'),
         unheard' \subseteq Records, failures' \in Nat
  PROVE  Fits' /\ acked' = acked /\ Waiting' = Waiting
<1>1. /\ thread'[t] = Idle /\ \A u \in Threads : u # t => thread'[u] = thread[u]
      /\ acked' = acked /\ TypeOK'
  BY Returned DEF IInv, TypeOK
<1>2. ASSUME NEW u \in Threads PROVE InFlush(u)'
  BY <1>1 DEF IInv, InFlush, Idle
<1>3. Waiting' = Waiting
  BY <1>1, SameWaiting DEF Idle
<1> QED
  BY <1>1, <1>2, <1>3 DEF Fits

(* A batch that the schema refuses: write_batch raises before any attempt.    *)
LEMMA BatchRaisesSteps ==
  ASSUME OneFlusher, IInv, NEW t \in Threads, BatchRaises(t)
  PROVE  Fits' /\ Tells
<1>1. /\ thread[t].pc = "append" /\ t \in Flushers /\ Return(t, FALSE)
      /\ UNCHANGED <<buffer, quarantine, accepted, unheard, failures>>
      /\ quarantine \in Seq(Records) /\ unheard \subseteq Records /\ failures \in Nat
  BY DEF BatchRaises, IInv, TypeOK, InFlush
<1>2. Fits' /\ acked' = acked /\ Waiting' = Waiting
  BY <1>1, GivenUp
<1> QED
  BY <1>1, <1>2 DEF Tells, IInv, AckedIsDurable

(* A successful append writes the front of the buffer to the table.           *)
LEMMA AppendBatchSteps ==
  ASSUME OneFlusher, IInv, NEW t \in Threads, AppendBatch(t)
  PROVE  Fits' /\ Persists(thread[t].batch)
<1> DEFINE batch == thread[t].batch
<1>1. /\ buffer \in Seq(Records) /\ quarantine \in Seq(Records) /\ batch \in Seq(Records)
      /\ thread[t].pc = "append" /\ t \in Flushers /\ batch # << >>
      /\ IsFront(batch, buffer) /\ thread[t].mine \subseteq ToSet(batch)
      /\ quarantine' = quarantine \o batch
      /\ thread' = [thread EXCEPT ![t].pc = "drop"]
      /\ UNCHANGED <<buffer, accepted, acked, unheard, failures>>
  BY DEF AppendBatch, IInv, TypeOK, InFlush
<1>2. /\ thread'[t].pc = "drop" /\ thread'[t].batch = batch /\ thread'[t].mine = thread[t].mine
      /\ \A u \in Threads : u # t => thread'[u] = thread[u]
  BY <1>1 DEF IInv, TypeOK
<1> HIDE DEF batch
<1>3. quarantine' \in Seq(Records) /\ ToSet(quarantine') = ToSet(quarantine) \cup ToSet(batch)
  BY <1>1, ConcatProperties, RecordsOfConcat
<1>4. TypeOK'
  BY <1>1, <1>3 DEF IInv, TypeOK
<1>5. \A u \in Threads : u # t => thread[u].pc = "idle"
  BY <1>1, AloneInFlush
<1>6. ASSUME NEW u \in Threads PROVE InFlush(u)'
  <2>1. CASE u = t
    BY <1>1, <1>2, <1>3, <2>1 DEF InFlush
  <2>2. CASE u # t
    BY <1>1, <1>2, <1>5, <2>2 DEF IInv, InFlush
  <2> QED
    BY <2>1, <2>2
<1>7. Waiting = buffer /\ Waiting' = DropFirst(buffer, Len(batch))
  <2>1. WaitsOf(thread, buffer) = buffer
        /\ WaitsOf(thread', buffer') = DropFirst(buffer', Len(thread'[t].batch))
    BY <1>1, <1>2, <1>5, WaitsCases
  <2> QED
    BY <1>1, <1>2, <2>1, WaitingOf
<1> QED
  BY <1>1, <1>4, <1>6, <1>7 DEF Fits, Persists, Lands, batch

(* An attempt raises, with or without a commit; after the last one the call   *)
(* returns False and the records stay.                                        *)
LEMMA AttemptFailsSteps ==
  ASSUME OneFlusher, IInv, NEW t \in Threads, AttemptFails(t)
  PROVE  Fits' /\ (Tells \/ Doubts(thread[t].batch))
<1> DEFINE batch == thread[t].batch
<1>1. /\ buffer \in Seq(Records) /\ quarantine \in Seq(Records) /\ batch \in Seq(Records)
      /\ thread[t].pc = "append" /\ t \in Flushers /\ batch # << >>
      /\ IsFront(batch, buffer) /\ thread[t].mine \subseteq ToSet(batch)
      /\ failures' = failures + 1 /\ failures \in Nat /\ unheard \subseteq Records
      /\ thread[t].tried \in Nat
  BY DEF AttemptFails, IInv, TypeOK, InFlush
<1>2. /\ \/ UNCHANGED <<quarantine, unheard>>
         \/ quarantine' = quarantine \o batch /\ unheard' = unheard \cup ToSet(batch)
      /\ \/ /\ thread' = [thread EXCEPT ![t].tried = @ + 1]
            /\ UNCHANGED <<buffer, acked>>
         \/ Return(t, FALSE) /\ UNCHANGED buffer
      /\ UNCHANGED accepted
  BY DEF AttemptFails, GiveUp
<1> HIDE DEF batch
<1>3. /\ quarantine' \in Seq(Records) /\ ToSet(quarantine) \subseteq ToSet(quarantine')
      /\ unheard' \subseteq Records /\ failures' \in Nat
  <2>1. quarantine \o batch \in Seq(Records)
        /\ ToSet(quarantine \o batch) = ToSet(quarantine) \cup ToSet(batch)
    BY <1>1, ConcatProperties, RecordsOfConcat
  <2>2. ToSet(batch) \subseteq Records
    BY <1>1, InSequence, ElementOfSeq
  <2>3. CASE UNCHANGED <<quarantine, unheard>>
    BY <1>1, <1>2, <2>3
  <2>4. CASE quarantine' = quarantine \o batch /\ unheard' = unheard \cup ToSet(batch)
    BY <1>1, <2>1, <2>2, <2>4
  <2> QED
    BY <1>2, <2>3, <2>4
<1>4. Fits' /\ acked' = acked /\ Waiting' = Waiting /\ Waiting = buffer
  <2>1. CASE thread' = [thread EXCEPT ![t].tried = @ + 1] /\ UNCHANGED <<buffer, acked>>
    <3>1. /\ thread'[t].pc = "append" /\ thread'[t].batch = thread[t].batch
          /\ thread'[t].mine = thread[t].mine
          /\ \A u \in Threads : u # t => thread'[u] = thread[u]
      BY <1>1, <2>1 DEF IInv, TypeOK
    <3>2. TypeOK'
      <4>1. thread[t].tried + 1 \in Nat
        BY <1>1
      <4>2. thread' \in [Threads -> [pc : {"idle", "flush", "append", "drop"},
                                     batch : Seq(Records), mine : SUBSET Records,
                                     tried : Nat]]
        BY <2>1, <4>1 DEF IInv, TypeOK
      <4> QED
        BY <1>1, <1>2, <1>3, <2>1, <4>2 DEF IInv, TypeOK
    <3>3. ASSUME NEW u \in Threads PROVE InFlush(u)'
      <4>1. CASE u = t
        BY <1>1, <2>1, <3>1, <4>1 DEF InFlush, batch
      <4>2. CASE u # t
        BY <1>3, <2>1, <3>1, <4>2 DEF IInv, InFlush
      <4> QED
        BY <4>1, <4>2
    <3>4. Waiting = buffer /\ Waiting' = Waiting
      BY <1>1, <2>1, <3>1, SameWaiting
    <3> QED
      BY <2>1, <3>2, <3>3, <3>4 DEF Fits
  <2>2. CASE Return(t, FALSE) /\ UNCHANGED buffer
    <3>1. Fits' /\ acked' = acked /\ Waiting' = Waiting
      BY <1>1, <1>2, <1>3, <2>2, GivenUp
    <3>2. WaitsOf(thread, buffer) = buffer
      BY <1>1, AloneInFlush, WaitsCases
    <3> QED
      BY <3>1, <3>2, WaitingOf
  <2> QED
    BY <1>2, <2>1, <2>2
<1> QED
  BY <1>1, <1>2, <1>4 DEF Tells, Doubts, Lands, IInv, AckedIsDurable, batch

(* The second critical section drops what was appended, by its count, and     *)
(* tells the caller.                                                          *)
LEMMA DropBatchSteps ==
  ASSUME OneFlusher, IInv, NEW t \in Threads, DropBatch(t)
  PROVE  Fits' /\ Tells
<1>1. /\ thread[t].pc = "drop" /\ t \in Flushers /\ Return(t, TRUE)
      /\ buffer' = DropFirst(buffer, Len(thread[t].batch))
      /\ thread[t].mine \subseteq ToSet(quarantine)
      /\ UNCHANGED <<quarantine, accepted, unheard, failures>>
  BY DEF DropBatch, IInv, InFlush
<1>2. \A u \in Threads : u # t => thread[u].pc = "idle"
  BY <1>1, AloneInFlush
<1>3. buffer' \in Seq(Records)
  BY <1>1, Typed, DropFirstType, LenProperties
<1>4. /\ thread'[t] = Idle /\ \A u \in Threads : u # t => thread'[u] = thread[u]
      /\ acked' = acked \cup thread[t].mine /\ TypeOK'
  BY <1>1, <1>3, Returned DEF IInv, TypeOK
<1>5. ASSUME NEW u \in Threads PROVE InFlush(u)'
  <2>1. CASE u = t
    BY <1>4, <2>1 DEF InFlush, Idle
  <2>2. CASE u # t
    BY <1>1, <1>2, <1>4, <2>2 DEF IInv, InFlush
  <2> QED
    BY <2>1, <2>2
<1>6. Waiting' = Waiting
  <2>1. WaitsOf(thread, buffer) = DropFirst(buffer, Len(thread[t].batch))
    BY <1>1, <1>2, WaitsCases
  <2>2. \A u \in Threads : thread'[u].pc # "drop"
    <3>1. \A u \in Threads : u # t => thread'[u].pc = "idle"
      BY <1>2, <1>4
    <3>2. thread'[t].pc = "idle"
      BY <1>4 DEF Idle
    <3> QED
      BY <3>1, <3>2
  <2>3. WaitsOf(thread', buffer') = buffer'
    BY <2>2, WaitsCases
  <2> QED
    BY <1>1, <2>1, <2>3, WaitingOf
<1> QED
  BY <1>1, <1>4, <1>5, <1>6 DEF Fits, Tells, IInv, AckedIsDurable

(* With one flusher every step of the writer keeps the places of the threads  *)
(* and is one of the four things that can become of the records.              *)
LEMMA WriterSteps ==
  ASSUME OneFlusher, IInv, WriterNext PROVE Fits' /\ RecordStep
<1>1. \A t \in Threads : thread[t].batch \in Seq(Records)
  BY Typed
<1>2. ASSUME NEW t \in Threads, NEW r \in Records,
             NEW immediate \in BOOLEAN, NEW interval \in BOOLEAN,
             WriteRecord(t, r, immediate, interval)
      PROVE  Fits' /\ RecordStep
  BY <1>2, WriteRecordSteps DEF RecordStep
<1>3. ASSUME NEW t \in Threads, CallFlush(t) PROVE Fits' /\ RecordStep
  BY <1>3, CallFlushSteps DEF RecordStep
<1>4. ASSUME NEW t \in Threads, TakeBatch(t) PROVE Fits' /\ RecordStep
  BY <1>4, TakeBatchSteps DEF RecordStep
<1>5. ASSUME NEW t \in Threads, BatchRaises(t) PROVE Fits' /\ RecordStep
  BY <1>5, BatchRaisesSteps DEF RecordStep
<1>6. ASSUME NEW t \in Threads, AppendBatch(t) PROVE Fits' /\ RecordStep
  BY <1>1, <1>6, AppendBatchSteps DEF RecordStep
<1>7. ASSUME NEW t \in Threads, AttemptFails(t) PROVE Fits' /\ RecordStep
  BY <1>1, <1>7, AttemptFailsSteps DEF RecordStep
<1>8. ASSUME NEW t \in Threads, DropBatch(t) PROVE Fits' /\ RecordStep
  BY <1>8, DropBatchSteps DEF RecordStep
<1> QED
  BY <1>2, <1>3, <1>4, <1>5, <1>6, <1>7, <1>8 DEF WriterNext

(* Each of the four keeps the order of accepted, waiting and durable records. *)
LEMMA RecordStepKeeps ==
  ASSUME IInv, Fits', RecordStep PROVE IInv'
<1> DEFINE acc == accepted
           w == Waiting
           q == quarantine
           un == unheard
<1>1. /\ acc \in Seq(Records) /\ w \in Seq(Records) /\ q \in Seq(Records)
      /\ Ordered(acc, w, q, un) /\ acked \subseteq ToSet(q)
  BY Typed DEF IInv, AckedIsDurable
<1>2. ASSUME Waiting' \in Seq(Records), Ordered(accepted', Waiting', quarantine', unheard'),
             acked' \subseteq ToSet(quarantine')
      PROVE  IInv'
  BY <1>2 DEF IInv, Fits, AckedIsDurable
<1>3. ASSUME NEW r \in Records, Takes(r) PROVE IInv'
  <2>1. /\ r \notin ToSet(acc) /\ accepted' = Append(acc, r) /\ Waiting' = Append(w, r)
        /\ quarantine' = q /\ unheard' = un /\ acked' = acked
    BY <1>3 DEF Takes
  <2> HIDE DEF acc, w, q, un
  <2>2. Ordered(Append(acc, r), Append(w, r), q, un) /\ Append(w, r) \in Seq(Records)
    BY <1>1, <2>1, OrderedTake, AppendProperties
  <2> QED
    BY <1>1, <1>2, <2>1, <2>2
<1>4. ASSUME NEW b \in Seq(Records), Lands(b)
      PROVE  /\ IsFront(b, w) /\ accepted' = acc /\ quarantine' = q \o b /\ acked' = acked
             /\ acked' \subseteq ToSet(q \o b)
  <2>1. ToSet(q \o b) = ToSet(q) \cup ToSet(b)
    BY <1>1, RecordsOfConcat
  <2> QED
    BY <1>1, <1>4, <2>1 DEF Lands
<1>5. ASSUME NEW b \in Seq(Records), Persists(b) PROVE IInv'
  <2>1. Lands(b) /\ Waiting' = DropFirst(w, Len(b)) /\ unheard' = un
    BY <1>5 DEF Persists
  <2>2. /\ IsFront(b, w) /\ accepted' = acc /\ quarantine' = q \o b
        /\ acked' \subseteq ToSet(q \o b)
    BY <1>4, <2>1
  <2> HIDE DEF acc, w, q, un
  <2>3. /\ Ordered(acc, DropFirst(w, Len(b)), q \o b, un)
        /\ DropFirst(w, Len(b)) \in Seq(Records)
    BY <1>1, <2>2, OrderedPersist, RestAfterFront
  <2> QED
    BY <1>2, <2>1, <2>2, <2>3
<1>6. ASSUME NEW b \in Seq(Records), Doubts(b) PROVE IInv'
  <2>1. Lands(b) /\ Waiting' = w /\ unheard' = un \cup ToSet(b)
    BY <1>6 DEF Doubts
  <2>2. /\ IsFront(b, w) /\ accepted' = acc /\ quarantine' = q \o b
        /\ acked' \subseteq ToSet(q \o b)
    BY <1>4, <2>1
  <2> HIDE DEF acc, w, q, un
  <2>3. Ordered(acc, w, q \o b, un \cup ToSet(b))
    BY <1>1, <2>2, OrderedDoubt
  <2> QED
    BY <1>1, <1>2, <2>1, <2>2, <2>3
<1>7. CASE Tells
  BY <1>1, <1>2, <1>7 DEF Tells
<1> QED
  BY <1>3, <1>5, <1>6, <1>7 DEF RecordStep

(* The first state: an empty buffer and table, nobody inside the writer.      *)
LEMMA InitInv == WriterInit => IInv
<1> SUFFICES ASSUME WriterInit PROVE IInv
  OBVIOUS
<1>1. << >> \in Seq(Records) /\ Len(<< >>) = 0 /\ ToSet(<< >>) = {}
  BY EmptySeq DEF ToSet
<1>2. TypeOK
  BY <1>1 DEF WriterInit, Idle, TypeOK
<1>3. \A t \in Threads : InFlush(t)
  BY DEF WriterInit, Idle, InFlush
<1>4. Waiting = << >>
  BY DEF WriterInit, Idle, Waiting
<1>5. Ordered(<< >>, << >>, << >>, {})
  BY <1>1 DEF Ordered, Distinct, EndsWith, Landed, Heard, Repeats
<1> QED
  BY <1>1, <1>2, <1>3, <1>4, <1>5 DEF WriterInit, IInv, AckedIsDurable
-------------------------------------------------------------------------------

(* With one flusher the inductive invariant holds of every reachable state of *)
(* the writer, whatever the other threads write and however attempts fail.    *)
THEOREM WriterInvariant ==
  ASSUME OneFlusher
  PROVE  WriterSpec => []IInv
<1>1. WriterInit => IInv
  BY InitInv
<1>2. IInv /\ [WriterNext]_writer_vars => IInv'
  <2>1. ASSUME IInv, UNCHANGED writer_vars PROVE IInv'
    BY <2>1 DEF writer_vars, IInv, TypeOK, InFlush, Waiting, Ordered, AckedIsDurable
  <2>2. ASSUME IInv, WriterNext PROVE IInv'
    BY <2>2, WriterSteps, RecordStepKeeps
  <2> QED
    BY <2>1, <2>2
<1> QED
  BY <1>1, <1>2, PTL DEF WriterSpec

(* With one flusher, what waits is the end of what was accepted, in order,    *)
(* every earlier record is in the table, and a record is there twice only if  *)
(* an attempt of it raised after its commit.                                  *)
THEOREM WriterAtLeastOnceInOrder ==
  ASSUME OneFlusher
  PROVE  WriterSpec => []AtLeastOnceInOrder
<1>1. ASSUME IInv PROVE AtLeastOnceInOrder
  <2>1. /\ accepted \in Seq(Records) /\ Waiting \in Seq(Records)
        /\ quarantine \in Seq(Records) /\ DOMAIN quarantine = 1..Len(quarantine)
        /\ Len(accepted) \in Nat /\ Len(Waiting) \in Nat
    BY <1>1, Typed, LenProperties
  <2>2. DurableBeforeWaiting
    BY <1>1, <2>1 DEF IInv, Ordered, EndsWith, Landed, DurableBeforeWaiting
  <2>3. RepeatedOnlyUnheard
    BY <1>1, <2>1 DEF IInv, Ordered, Repeats, RepeatedOnlyUnheard
  <2> QED
    BY <2>2, <2>3 DEF AtLeastOnceInOrder
<1>2. IInv => AtLeastOnceInOrder
  BY <1>1
<1> QED
  BY <1>2, WriterInvariant, PTL

(* With one flusher, an immediate write_record that returned success has its  *)
(* record in the Iceberg table.                                               *)
THEOREM WriterAckedIsDurable ==
  ASSUME OneFlusher
  PROVE  WriterSpec => []AckedIsDurable
<1>1. IInv => AckedIsDurable
  BY DEF IInv
<1> QED
  BY <1>1, WriterInvariant, PTL

(* With one flusher, no accepted record is missing from both the table and    *)
(* the buffer when every thread has returned from the writer: what the        *)
(* docstring's "failure preservation" promises and two flushers break.        *)
THEOREM WriterNoRecordLost ==
  ASSUME OneFlusher
  PROVE  WriterSpec => []NoRecordLost
<1>1. ASSUME IInv, \A t \in Threads : thread[t].pc = "idle"
      PROVE  ToSet(accepted) \subseteq ToSet(quarantine) \cup ToSet(buffer)
  <2>1. /\ accepted \in Seq(Records) /\ buffer \in Seq(Records)
        /\ Len(accepted) \in Nat /\ Len(buffer) \in Nat /\ Waiting = buffer
    BY <1>1, Typed, LenProperties DEF Waiting
  <2>2. ASSUME NEW r \in ToSet(accepted) PROVE r \in ToSet(quarantine) \cup ToSet(buffer)
    <3>1. PICK i \in 1..Len(accepted) : accepted[i] = r
      BY <2>1, InSequence
    <3>2. CASE i \in 1..(Len(accepted) - Len(buffer))
      BY <1>1, <2>1, <3>1, <3>2 DEF IInv, Ordered, Landed
    <3>3. CASE i \notin 1..(Len(accepted) - Len(buffer))
      <4> DEFINE k == i - (Len(accepted) - Len(buffer))
      <4>1. Len(buffer) <= Len(accepted)
        BY <1>1, <2>1 DEF IInv, Ordered, EndsWith
      <4>2. k \in 1..Len(buffer) /\ (Len(accepted) - Len(buffer)) + k = i
        BY <2>1, <3>3, <4>1
      <4> HIDE DEF k
      <4>3. buffer[k] = r
        BY <1>1, <2>1, <3>1, <4>2 DEF IInv, Ordered, EndsWith
      <4> QED
        BY <2>1, <4>2, <4>3, InSequence
    <3> QED
      BY <3>2, <3>3
  <2> QED
    BY <2>2
<1>2. IInv => NoRecordLost
  BY <1>1 DEF NoRecordLost
<1> QED
  BY <1>2, WriterInvariant, PTL

(* Each of the four things that can become of the records is one that the     *)
(* contract allows.                                                           *)
LEMMA RecordStepAllowed ==
  ASSUME IInv, Fits', RecordStep PROVE Promise!Next
<1>1. /\ accepted \in Seq(Records) /\ Waiting \in Seq(Records)
      /\ quarantine \in Seq(Records)
      /\ Len(accepted) \in Nat /\ Len(Waiting) \in Nat
  BY Typed, LenProperties
<1>2. ASSUME NEW r \in Records, Takes(r) PROVE Promise!Next
  <2>1. ToSet(Waiting) \subseteq ToSet(accepted)
    <3> SUFFICES ASSUME NEW s \in ToSet(Waiting) PROVE s \in ToSet(accepted)
      OBVIOUS
    <3>1. PICK i \in 1..Len(Waiting) : Waiting[i] = s
      BY <1>1, InSequence
    <3>2. /\ (Len(accepted) - Len(Waiting)) + i \in 1..Len(accepted)
          /\ accepted[(Len(accepted) - Len(Waiting)) + i] = s
      BY <1>1, <3>1 DEF IInv, Ordered, EndsWith
    <3> QED
      BY <1>1, <3>2, InSequence
  <2>2. ToSet(quarantine \o Waiting) = ToSet(quarantine) \cup ToSet(Waiting)
    BY <1>1, RecordsOfConcat
  <2>3. r \notin ToSet(quarantine \o Waiting)
    BY <1>2, <2>1, <2>2 DEF Takes, IInv, Ordered
  <2>4. r \in Records \ Promise!ToSet(quarantine \o Waiting)
    BY <1>2, <2>3 DEF ToSet, Promise!ToSet
  <2> QED
    BY <1>2, <2>4 DEF Takes, Promise!Next, Promise!Take
<1>3. ASSUME NEW b \in Seq(Records), Lands(b)
      PROVE  /\ Len(b) \in 1..Len(Waiting)
             /\ b = SubSeq(Waiting, 1, Len(b))
             /\ DropFirst(Waiting, Len(b)) = SubSeq(Waiting, Len(b) + 1, Len(Waiting))
             /\ quarantine' = quarantine \o b
  <2>1. Len(b) \in Nat /\ Len(b) # 0 /\ Len(b) <= Len(Waiting)
    BY <1>3, LenProperties, EmptySeq DEF Lands, IsFront
  <2> QED
    BY <1>1, <1>3, <2>1, SplitAtFront DEF Lands
<1>4. ASSUME NEW b \in Seq(Records), Persists(b) PROVE Promise!Next
  <2>1. Lands(b) /\ Waiting' = DropFirst(Waiting, Len(b)) /\ UNCHANGED <<acked, unheard>>
    BY <1>4 DEF Persists, Lands
  <2>2. /\ Len(b) \in 1..Len(Waiting)
        /\ quarantine' = quarantine \o SubSeq(Waiting, 1, Len(b))
        /\ Waiting' = SubSeq(Waiting, Len(b) + 1, Len(Waiting))
    BY <1>3, <2>1
  <2> QED
    BY <2>1, <2>2 DEF Promise!Next, Promise!Persist
<1>5. ASSUME NEW b \in Seq(Records), Doubts(b) PROVE Promise!Next
  <2>1. /\ Lands(b) /\ Waiting' = Waiting /\ unheard' = unheard \cup Promise!ToSet(b)
        /\ acked' = acked
    BY <1>5 DEF Doubts, Lands, ToSet, Promise!ToSet
  <2>2. /\ Len(b) \in 1..Len(Waiting)
        /\ quarantine' = quarantine \o SubSeq(Waiting, 1, Len(b))
        /\ unheard' = unheard \cup Promise!ToSet(SubSeq(Waiting, 1, Len(b)))
    BY <1>3, <2>1
  <2> QED
    BY <2>1, <2>2 DEF Promise!Next, Promise!PersistInDoubt
<1>6. CASE Tells
  BY <1>6 DEF Tells, Promise!Next, Promise!Tell, ToSet, Promise!ToSet
<1> QED
  BY <1>2, <1>4, <1>5, <1>6 DEF RecordStep

(* With one flusher the writer keeps the promise of QuarantineContract: what  *)
(* its threads do between the copy of the buffer, the attempts and the drop   *)
(* by count amounts to a queue whose front becomes durable, again only when   *)
(* that was in doubt, and callers of an immediate write_record are told of    *)
(* nothing else.                                                              *)
THEOREM WriterKeepsPromise ==
  ASSUME OneFlusher
  PROVE  WriterSpec => KeepsPromise
<1>1. WriterInit => Promise!Init
  BY DEF WriterInit, Idle, Waiting, Promise!Init
<1>2. IInv /\ [WriterNext]_writer_vars => [Promise!Next]_Promise!vars
  <2>1. ASSUME UNCHANGED writer_vars PROVE UNCHANGED Promise!vars
    BY <2>1 DEF writer_vars, Waiting, Promise!vars
  <2>2. ASSUME IInv, WriterNext PROVE Promise!Next
    BY <2>2, WriterSteps, RecordStepAllowed
  <2> QED
    BY <2>1, <2>2
<1> QED
  BY <1>1, <1>2, WriterInvariant, PTL DEF WriterSpec, KeepsPromise, Promise!Spec
-------------------------------------------------------------------------------

(* The parts of a consumer, of its metrics and of the breaker.                *)
Row(r) ==
  r = [window |-> r.window, since |-> r.since, seen |-> r.seen, buffer |-> r.buffer,
       metrics |-> r.metrics, old |-> r.old, closings |-> r.closings, pc |-> r.pc,
       pos |-> r.pos, from |-> r.from, msg |-> r.msg, done |-> r.done]

Outcomes == [at : Nat, valid : BOOLEAN]
Metrics == [total : Nat, failed : Nat, at : Nat]

ConsumerFits(r) ==
  /\ Row(r)
  /\ r.window \in Seq(Outcomes) /\ r.seen \in Seq(Outcomes) /\ r.metrics \in Metrics
  /\ r.buffer \in Seq(Nat) /\ r.pos \in Nat /\ r.from \in Nat /\ r.msg \in Nat

BreakerFits(b) ==
  /\ b.successful_recoveries \in Nat
  /\ b =
      [state |-> b.state, opened_at |-> b.opened_at, probe_active |-> b.probe_active,
       recovery_attempts |-> b.recovery_attempts,
       successful_recoveries |-> b.successful_recoveries,
       failed_recoveries |-> b.failed_recoveries, open_total_count |-> b.open_total_count]

(* What the operators of a consumer do to its parts.                          *)
LEMMA ProcessedFields ==
  ASSUME NEW r, ConsumerFits(r)
  PROVE  LET p == Processed(r)
         IN  /\ ConsumerFits(p)
             /\ p.window = r.window /\ p.seen = r.seen /\ p.buffer = r.buffer
             /\ p.pos = r.pos /\ p.from = r.from /\ p.pc \in {"flush", "poll"}
<1> DEFINE p == Processed(r)
<1>1. /\ Row(p) /\ p.window = r.window /\ p.seen = r.seen /\ p.buffer = r.buffer
      /\ p.pos = r.pos /\ p.from = r.from /\ p.pc \in {"flush", "poll"}
      /\ p.msg = 0 /\ p.metrics = NoMetrics
  <2> DEFINE done == (r.done + 1) % BatchEvents
             pc == IF done = 0 THEN "flush" ELSE "poll"
             none == NoMetrics
  <2>1. p = [r EXCEPT !.done = done, !.msg = 0, !.metrics = none, !.old = "CLOSED",
                      !.closings = 0, !.pc = pc]
    BY DEF Processed
  <2>2. pc \in {"flush", "poll"}
    OBVIOUS
  <2> HIDE DEF p, pc, done, none
  <2>3. Row(r)
    BY DEF ConsumerFits
  <2>4. /\ Row(p) /\ p.window = r.window /\ p.seen = r.seen /\ p.buffer = r.buffer
        /\ p.pos = r.pos /\ p.from = r.from /\ p.pc = pc
        /\ p.msg = 0 /\ p.metrics = none
    BY <2>1, <2>3 DEF Row
  <2> QED
    BY <2>2, <2>4 DEF none
<1>2. NoMetrics \in Metrics
  BY DEF NoMetrics, Metrics
<1>3. ConsumerFits(p)
  <2> HIDE DEF p
  <2> QED
    BY <1>1, <1>2 DEF ConsumerFits
<1> QED
  BY <1>1, <1>3

(* record_event_outcome appends the outcome to window and history alike.      *)
LEMMA RecordFields ==
  ASSUME NEW r, ConsumerFits(r), NEW valid \in BOOLEAN, now \in Nat
  PROVE  LET p == Record(r, valid)
             o == [at |-> now, valid |-> valid]
         IN  /\ ConsumerFits(p)
             /\ p.window = Append(r.window, o) /\ p.seen = Append(r.seen, o)
             /\ p.buffer = r.buffer /\ p.pos = r.pos /\ p.from = r.from /\ p.pc = r.pc
             /\ p.msg = r.msg /\ p.old = r.old /\ p.metrics = r.metrics
<1> DEFINE p == Record(r, valid)
           o == [at |-> now, valid |-> valid]
<1>1. o \in Outcomes
  BY DEF Outcomes
<1>2. /\ Row(p) /\ p.window = add_event(r.window, valid)
      /\ p.seen = add_event(r.seen, valid)
      /\ p.buffer = r.buffer /\ p.pos = r.pos /\ p.from = r.from /\ p.pc = r.pc
      /\ p.msg = r.msg /\ p.old = r.old /\ p.metrics = r.metrics
  <2> DEFINE w == add_event(r.window, valid)
             h == add_event(r.seen, valid)
             since == (r.since + 1) % FlushEvents
  <2>1. p = [r EXCEPT !.window = w, !.seen = h, !.since = since]
    BY DEF Record
  <2>2. Row(r)
    BY DEF ConsumerFits
  <2> HIDE DEF p, w, h, since
  <2>3. /\ Row(p) /\ p.window = w /\ p.seen = h
        /\ p.buffer = r.buffer /\ p.pos = r.pos /\ p.from = r.from /\ p.pc = r.pc
        /\ p.msg = r.msg /\ p.old = r.old /\ p.metrics = r.metrics
    BY <2>1, <2>2 DEF Row
  <2> QED
    BY <2>3 DEF w, h
<1>3. \A w : add_event(w, valid) = Append(w, o)
  BY DEF add_event
<1>4. Append(r.window, o) \in Seq(Outcomes) /\ Append(r.seen, o) \in Seq(Outcomes)
  BY <1>1 DEF ConsumerFits
<1>5. ConsumerFits(p)
  <2> HIDE DEF p, o
  <2> QED
    BY <1>2, <1>3, <1>4 DEF ConsumerFits
<1> QED
  BY <1>2, <1>3, <1>5

(* A new consumer has an empty window and buffer and stands where its group   *)
(* does.                                                                      *)
LEMMA NewConsumerFields ==
  ASSUME NEW start \in Nat
  PROVE  LET p == NewConsumer(start)
         IN  /\ ConsumerFits(p)
             /\ p.window = << >> /\ p.seen = << >> /\ p.buffer = << >>
             /\ p.pos = start /\ p.from = start /\ p.pc = "poll"
<1> DEFINE p == NewConsumer(start)
<1>1. /\ Row(p) /\ p.window = << >> /\ p.seen = << >> /\ p.buffer = << >>
      /\ p.pos = start /\ p.from = start /\ p.pc = "poll" /\ p.msg = 0
      /\ p.metrics = NoMetrics
  BY DEF NewConsumer, Row
<1>2. NoMetrics \in Metrics /\ << >> \in Seq(Outcomes) /\ << >> \in Seq(Nat)
  BY DEF NoMetrics, Metrics
<1>3. ConsumerFits(p)
  <2> HIDE DEF p
  <2> QED
    BY <1>1, <1>2 DEF ConsumerFits
<1> QED
  BY <1>1, <1>3

(* Popping from the front stops: the window is cut at the first record that   *)
(* is not older than the cutoff.                                              *)
IsExpired(w, n) ==
  /\ n \in 0..Len(w)
  /\ \A k \in 1..n : w[k].at < now - Window
  /\ n < Len(w) => w[n + 1].at >= now - Window

(* There is such a place in every window, and the model chooses it.           *)
LEMMA ExpiredFacts ==
  ASSUME NEW w \in Seq(Outcomes), now \in Nat, Window \in Nat
  PROVE  IsExpired(w, Expired(w))
<1> DEFINE S == {n \in 0..Len(w) : n < Len(w) => w[n + 1].at >= now - Window}
           R == OpToRel(<, Nat)
<1>1. Len(w) \in Nat /\ \A k \in 1..Len(w) : w[k].at \in Nat
  <2>1. \A o \in Outcomes : o.at \in Nat
    BY DEF Outcomes
  <2> QED
    BY <2>1
<1>2. S \subseteq Nat /\ Len(w) \in S
  BY <1>1
<1>3. PICK x \in S : \A y \in S : ~ (<<y, x>> \in R)
  <2>1. IsWellFoundedOn(R, Nat)
    BY NatLessThanWellFounded
  <2> HIDE DEF R, S
  <2> QED
    BY <1>2, <2>1, WFMin
<1>4. \A y \in S : ~(y < x)
  BY <1>2, <1>3 DEF OpToRel
<1>5. ASSUME NEW k \in 1..x PROVE w[k].at < now - Window
  <2>0. x \in 0..Len(w)
    BY <1>3
  <2>1. k - 1 \in 0..Len(w) /\ k - 1 < x /\ k - 1 < Len(w) /\ (k - 1) + 1 = k /\ w[k].at \in Nat
    <3> HIDE DEF S
    <3> QED
      BY <1>1, <2>0, <1>5
  <2>2. k - 1 \notin S
    BY <1>4, <2>1
  <2>3. ~(w[k].at >= now - Window)
    BY <2>1, <2>2
  <2> QED
    BY <2>1, <2>3
<1>6. IsExpired(w, x)
  BY <1>3, <1>5 DEF IsExpired
<1>7. Expired(w) = CHOOSE n \in 0..Len(w) : /\ \A k \in 1..n : w[k].at < now - Window
                                            /\ n < Len(w) => w[n + 1].at >= now - Window
  BY DEF Expired
<1> QED
  BY <1>6, <1>7 DEF IsExpired

(* What _evict_expired leaves is the window behind that place.                *)
LEMMA EvictedFacts ==
  ASSUME NEW w \in Seq(Outcomes), now \in Nat, Window \in Nat
  PROVE  LET n == Expired(w)
             v == Evicted(w)
         IN  /\ IsExpired(w, n)
             /\ v \in Seq(Outcomes) /\ Len(v) = Len(w) - n
             /\ \A k \in 1..Len(v) : v[k] = w[k + n]
<1> DEFINE n == Expired(w)
<1>1. IsExpired(w, n) /\ Len(w) \in Nat /\ n \in 0..Len(w)
  BY ExpiredFacts DEF IsExpired
<1>2. Evicted(w) = SubSeq(w, n + 1, Len(w))
  BY DEF Evicted
<1> HIDE DEF n
<1>3. \A i \in n + 1 .. Len(w) : w[i] \in Outcomes
  BY <1>1
<1>4. /\ SubSeq(w, n + 1, Len(w)) \in Seq(Outcomes)
      /\ Len(SubSeq(w, n + 1, Len(w))) = Len(w) - n
      /\ \A k \in 1..Len(w) - n : SubSeq(w, n + 1, Len(w))[k] = w[k + n]
  BY <1>1, <1>3, SubSeqProperties
<1> QED
  BY <1>1, <1>2, <1>4 DEF n

(* The number of failures in a window.                                        *)
LEMMA FailuresCounted ==
  ASSUME NEW w \in Seq(Outcomes)
  PROVE  /\ Failures(w) = Cardinality({k \in 1..Len(w) : ~w[k].valid})
         /\ Failures(w) \in Nat
<1> DEFINE S == {k \in 1..Len(w) : ~w[k].valid}
<1>1. Failures(w) = Cardinality(S)
  <2>1. DOMAIN w = 1..Len(w)
    OBVIOUS
  <2> QED
    BY <2>1 DEF Failures
<1>2. IsFiniteSet(1..Len(w))
  BY FS_Interval
<1>3. IsFiniteSet(S)
  <2>1. S \in SUBSET (1..Len(w))
    OBVIOUS
  <2> QED
    BY <1>2, <2>1, FS_Subset
<1>4. Cardinality(S) \in Nat
  BY <1>3, FS_CardinalityType
<1> QED
  BY <1>1, <1>4

(* calculate evicts and counts, and leaves records and position alone.        *)
LEMMA CalculatedFields ==
  ASSUME NEW r, ConsumerFits(r), now \in Nat, Window \in Nat
  PROVE  LET p == Calculated(r)
             v == Evicted(r.window)
         IN  /\ ConsumerFits(p)
             /\ p.window = v /\ p.metrics.total = Len(v) /\ p.metrics.failed = Failures(v)
             /\ p.metrics.at = now /\ p.seen = r.seen /\ p.buffer = r.buffer
             /\ p.pos = r.pos /\ p.from = r.from /\ p.pc = r.pc /\ p.msg = r.msg
<1> DEFINE p == Calculated(r)
           v == Evicted(r.window)
           m == [total |-> Len(v), failed |-> Failures(v), at |-> now]
<1>1. v \in Seq(Outcomes) /\ Len(v) \in Nat /\ Failures(v) \in Nat
  <2>1. v \in Seq(Outcomes)
    BY EvictedFacts DEF ConsumerFits
  <2> HIDE DEF v
  <2>2. Len(v) \in Nat
    BY <2>1
  <2>3. Failures(v) \in Nat
    BY <2>1, FailuresCounted, Zenon
  <2> QED
    BY <2>1, <2>2, <2>3
<1>2. m \in Metrics /\ m.total = Len(v) /\ m.failed = Failures(v) /\ m.at = now
  BY <1>1 DEF Metrics
<1>3. p = [r EXCEPT !.window = v, !.metrics = m]
  BY DEF Calculated
<1>4. /\ Row(p) /\ p.window = v /\ p.metrics = m /\ p.seen = r.seen /\ p.buffer = r.buffer
      /\ p.pos = r.pos /\ p.from = r.from /\ p.pc = r.pc /\ p.msg = r.msg
  <2>1. Row(r)
    BY DEF ConsumerFits
  <2> HIDE DEF p, v, m
  <2> QED
    BY <1>3, <2>1 DEF Row
<1>5. ConsumerFits(p)
  <2> HIDE DEF p, v, m
  <2> QED
    BY <1>1, <1>2, <1>4 DEF ConsumerFits
<1> HIDE DEF m
<1> QED
  BY <1>2, <1>4, <1>5

(* What a flush comes to: no record is dropped, and none leaves the table;    *)
(* and when records stay, then by a failure or for one that is refused.       *)
LEMMA FlushHolds ==
  ASSUME NEW c, NEW b \in Seq(Nat), NEW f \in Flush(c, b), faults \in Nat
  PROVE  /\ f.buffer \in Seq(Nat) /\ table \subseteq f.table
         /\ f.faults \in Nat /\ f.faults >= faults
         /\ \/ f.buffer = << >> /\ \A i \in {b[k] : k \in DOMAIN b} : <<c, i>> \in f.table
            \/ f.buffer = b /\ (HasPoison(b) \/ f.faults >= faults + 1)
<1>1. CASE HasPoison(b)
  <2>1. f = Refused(b)
    BY <1>1 DEF Flush
  <2> QED
    BY <1>1, <2>1 DEF Refused
<1>2. CASE ~HasPoison(b) /\ f = Written(c, b)
  <2>1. f.buffer = << >> /\ f.table = table \cup Entries(c, b) /\ f.faults = faults
    BY <1>2 DEF Written
  <2>2. Entries(c, b) = { <<c, b[k]>> : k \in DOMAIN b }
    BY DEF Entries
  <2> QED
    BY <2>1, <2>2
<1>3. ASSUME NEW tbl \in {table, table \cup Entries(c, b)}, f = Unwritten(b, tbl)
      PROVE  f.buffer = b /\ table \subseteq f.table /\ f.faults = faults + 1
  BY <1>3 DEF Unwritten
<1>4. CASE ~HasPoison(b) /\ f # Written(c, b)
  <2>1. \E tbl \in {table, table \cup Entries(c, b)} : f = Unwritten(b, tbl)
    BY <1>4 DEF Flush
  <2>2. f.buffer = b /\ table \subseteq f.table /\ f.faults = faults + 1
    BY <1>3, <2>1
  <2> QED
    BY <2>2
<1> QED
  BY <1>1, <1>2, <1>4

(* What the calls of the breaker do to its parts.                             *)
LEMMA MoveShape ==
  ASSUME NEW b, BreakerFits(b), NEW s, NEW t
  PROVE  /\ BreakerFits(Move(b, s, t)) /\ Move(b, s, t).state = s
         /\ Move(b, s, t).successful_recoveries = b.successful_recoveries
<1> DEFINE o == OpenedAt(b, s, t)
           p == ProbeLeft(b, s)
           n == Openings(b, s)
           m == Move(b, s, t)
<1>1. m = [b EXCEPT !.state = s, !.opened_at = o, !.probe_active = p, !.open_total_count = n]
  BY DEF Move
<1> HIDE DEF o, p, n
<1>2. /\ BreakerFits(m) /\ m.state = s
      /\ m.successful_recoveries = b.successful_recoveries
  <2> HIDE DEF m
  <2> QED
    BY <1>1 DEF BreakerFits
<1> QED
  BY <1>2

(* From b to a the breaker is closed only by a recovery that counts.          *)
ClosedByRecovery(b, a) ==
  /\ a.successful_recoveries >= b.successful_recoveries
  /\ a.state = "CLOSED" /\ b.state # "CLOSED" =>
       a.successful_recoveries > b.successful_recoveries

(* Reading the state leaves a breaker that is not due, and half-opens one     *)
(* that is.                                                                   *)
LEMMA RefreshedShape ==
  ASSUME NEW b, BreakerFits(b), NEW t
  PROVE  LET a == Refreshed(b, t)
         IN  /\ BreakerFits(a) /\ ClosedByRecovery(b, a)
             /\ a = b \/ a.state = "HALF_OPEN"
<1> DEFINE a == Move(b, "HALF_OPEN", t)
<1>1. /\ BreakerFits(a) /\ a.state = "HALF_OPEN"
      /\ a.successful_recoveries = b.successful_recoveries
  BY MoveShape
<1> HIDE DEF a
<1>2. ClosedByRecovery(b, a) /\ ClosedByRecovery(b, b)
  BY <1>1 DEF ClosedByRecovery, BreakerFits
<1>3. Refreshed(b, t) = a \/ Refreshed(b, t) = b
  BY DEF Refreshed, a
<1> QED
  BY <1>1, <1>2, <1>3

(* evaluate opens a closed breaker only, and that above the threshold.        *)
LEMMA EvaluatedShape ==
  ASSUME NEW b, BreakerFits(b), NEW rate, NEW t
  PROVE  LET a == Evaluated(b, rate, t)
         IN  /\ BreakerFits(a) /\ ClosedByRecovery(b, a)
             /\ b.state # "OPEN" /\ a.state = "OPEN"
                  => b.state = "CLOSED" /\ rate > ErrorThreshold
<1> DEFINE r == Refreshed(b, t)
           a == Evaluated(b, rate, t)
           m == Move(r, "OPEN", t)
<1>1. BreakerFits(r) /\ ClosedByRecovery(b, r) /\ (r = b \/ r.state = "HALF_OPEN")
  BY RefreshedShape
<1> HIDE DEF r
<1>2. /\ BreakerFits(m) /\ m.state = "OPEN"
      /\ m.successful_recoveries = r.successful_recoveries
  BY <1>1, MoveShape
<1>3. (Trips(r, rate) /\ a = m) \/ a = r
  BY DEF Evaluated, r
<1>4. Trips(r, rate) => r.state = "CLOSED" /\ rate > ErrorThreshold
  BY DEF Trips
<1> HIDE DEF a, m
<1>5. ClosedByRecovery(b, a)
  BY <1>1, <1>2, <1>3 DEF ClosedByRecovery, BreakerFits
<1> QED
  BY <1>1, <1>2, <1>3, <1>4, <1>5 DEF a

(* A recovery result leaves a breaker of the same parts, and counts.          *)
LEMMA SettledShape ==
  ASSUME NEW b, BreakerFits(b), NEW pass \in BOOLEAN, NEW t
  PROVE  LET a == Settled(b, pass, t)
         IN  BreakerFits(a) /\ ClosedByRecovery(b, a)
<1> DEFINE x == IF pass THEN b.successful_recoveries + 1 ELSE b.successful_recoveries
           y == IF pass THEN b.failed_recoveries ELSE b.failed_recoveries + 1
           none == FALSE
           r == [b EXCEPT !.probe_active = none, !.successful_recoveries = x,
                          !.failed_recoveries = y]
           s == IF pass THEN "CLOSED" ELSE "OPEN"
           a == Move(r, s, t)
<1>1. Settled(b, pass, t) = a
  BY DEF Settled
<1>2. /\ x \in Nat /\ x >= b.successful_recoveries
      /\ s = "CLOSED" => x > b.successful_recoveries
  BY DEF BreakerFits
<1> HIDE DEF x, y, s, none
<1>3. r = [b EXCEPT !.probe_active = none, !.successful_recoveries = x, !.failed_recoveries = y]
  OBVIOUS
<1> HIDE DEF r
<1>4. BreakerFits(r) /\ r.successful_recoveries = x
  BY <1>2, <1>3 DEF BreakerFits
<1>5. BreakerFits(a) /\ a.state = s /\ a.successful_recoveries = x
  BY <1>4, MoveShape
<1> HIDE DEF a
<1>6. ClosedByRecovery(b, a)
  BY <1>2, <1>5 DEF ClosedByRecovery
<1> QED
  BY <1>1, <1>5, <1>6
-------------------------------------------------------------------------------

IngestTyped ==
  /\ con = [c \in Consumers |-> con[c]]
  /\ \A c \in Consumers : ConsumerFits(con[c])
  /\ now \in Nat /\ faults \in Nat
  /\ BreakerFits(breaker)

(* A step of consumer c replaces what it is at by r.                          *)
Becomes(c, r) ==
  /\ con' = [d \in Consumers |-> con'[d]]
  /\ con'[c] = r
  /\ \A d \in Consumers \ {c} : con'[d] = con[d]

(* The steps of a consumer set it by EXCEPT: the others stay.                 *)
LEMMA SetFacts ==
  ASSUME IngestTyped, NEW c \in Consumers, NEW r, Set(c, r) PROVE Becomes(c, r)
BY DEF IngestTyped, Set, Becomes

(* What a step does to the records of consumer c in table and buffer, r being *)
(* what c was at and q what it is at.                                         *)
IsInvalid(i) == Kind(i) \in Invalid
InBuffer(r, i) == i \in {r.buffer[k] : k \in DOMAIN r.buffer}
IsInHand(r, i) == r.pc = "route" /\ r.msg = i
SameRange(r, q) == q.from = r.from /\ q.pos = r.pos

KeepsRecords(r, q) ==
  /\ SameRange(r, q) /\ q.buffer = r.buffer
  /\ r.pc # "route" \/ (q.pc = r.pc /\ q.msg = r.msg)

TakesMessage(r, q) ==
  /\ r.pc = "poll" /\ q.from = r.from /\ q.pos = r.pos + 1 /\ q.buffer = r.buffer
  /\ IsInHand(q, r.pos) \/ ~IsInvalid(r.pos)

FlushesRecords(c, r, q) ==
  /\ SameRange(r, q)
  /\ \A i : InBuffer(r, i) \/ IsInHand(r, i) => <<c, i>> \in table' \/ InBuffer(q, i)

StartsOver(c, r, q) ==
  /\ q.pos \in Nat /\ q.pos <= r.pos
  /\ \A i : InBuffer(r, i) \/ IsInHand(r, i) => <<c, i>> \in table' \cup lost' \cup killed'

HandlesRecords(c, r, q) ==
  /\ \/ KeepsRecords(r, q) \/ TakesMessage(r, q)
     \/ FlushesRecords(c, r, q) \/ StartsOver(c, r, q)
  /\ table \subseteq table' /\ lost \subseteq lost' /\ killed \subseteq killed'

(* Records that none of them is refused wait in a buffer only after a         *)
(* failure, and when the loop has ended only after two.                       *)
Excused(r, n) ==
  r.buffer # << >> /\ ~HasPoison(r.buffer) => n >= 1 /\ (r.pc = "down" => n >= 2)

(* Whatever else is left in a writer goes with one that is refused.           *)
HasCause(p) ==
  \/ faults' >= 2
  \/ \E s \in lost' : s[1] = p[1] /\ Kind(s[2]) = "poison"

KeepsExcuse(r, q) ==
  /\ faults' \in Nat /\ faults' >= faults
  /\ Excused(r, faults) => /\ Excused(q, faults')
                           /\ \A p \in lost' \ lost : HasCause(p)

(* A step that leaves the buffer alone and does not end the loop.             *)
LEMMA KeepsExcuseBySame ==
  ASSUME NEW r, NEW q, q.buffer = r.buffer, q.pc # "down" \/ q.pc = r.pc,
         faults \in Nat, faults' \in Nat, faults' >= faults, lost' = lost
  PROVE  KeepsExcuse(r, q)
BY DEF KeepsExcuse, Excused

(* What it does to the window and to the history of outcomes.                 *)
HandlesWindow(r, q) ==
  \/ q.window = r.window /\ q.seen = r.seen
  \/ q.window = Evicted(r.window) /\ q.seen = r.seen
  \/ \E valid \in BOOLEAN : LET o == [at |-> now, valid |-> valid]
                            IN  q.window = Append(r.window, o) /\ q.seen = Append(r.seen, o)
  \/ q.window = << >> /\ q.seen = << >>

(* A step of c, by what it becomes.                                           *)
Moves(c, q) ==
  /\ Becomes(c, q) /\ ConsumerFits(q)
  /\ HandlesRecords(c, con[c], q) /\ KeepsExcuse(con[c], q) /\ HandlesWindow(con[c], q)
  /\ topic' = topic /\ now' = now

(* The steps that evaluate no rate and read no state for it.                  *)
Passive(c, q) ==
  /\ Moves(c, q)
  /\ q.pc = "evaluate" => /\ con[c].pc = "evaluate" /\ q.old = con[c].old
                         /\ q.closings = con[c].closings
                         /\ q.metrics = con[c].metrics /\ q.seen = con[c].seen

(* Changes of one or two fields.                                              *)
LEMMA PcField ==
  ASSUME NEW r, ConsumerFits(r), NEW pc, NEW q, q = [r EXCEPT !.pc = pc]
  PROVE  /\ ConsumerFits(q) /\ q.pc = pc /\ q.window = r.window /\ q.seen = r.seen
         /\ q.buffer = r.buffer /\ q.pos = r.pos /\ q.from = r.from /\ q.msg = r.msg
         /\ q.metrics = r.metrics /\ q.old = r.old /\ q.closings = r.closings
<1>1. /\ Row(q) /\ q.pc = pc /\ q.window = r.window /\ q.seen = r.seen
      /\ q.buffer = r.buffer /\ q.pos = r.pos /\ q.from = r.from /\ q.msg = r.msg
      /\ q.metrics = r.metrics /\ q.old = r.old /\ q.closings = r.closings
  BY DEF ConsumerFits, Row
<1> QED
  BY <1>1 DEF ConsumerFits

(* The steps of consume_stream and validate_event.                            *)
LEMMA PollMoves ==
  ASSUME IngestTyped, NEW c \in Consumers, Poll(c)
  PROVE  \E q : Passive(c, q) /\ breaker' = breaker
<1> DEFINE r0 == con[c]
           k == Kind(r0.pos)
           r == [r0 EXCEPT !.pos = @ + 1, !.msg = r0.pos]
           closed == [r EXCEPT !.pc = "closing", !.msg = 0]
           noted == Record(r, k = "good")
           q == [noted EXCEPT !.pc = IF k = "good" THEN "answer" ELSE "route"]
<1>1. ConsumerFits(r0) /\ now \in Nat /\ r0.pos \in Nat
  BY DEF IngestTyped, ConsumerFits
<1>2. /\ r0.pc = "poll"
      /\ IF k = "list" THEN Set(c, closed) ELSE Set(c, q)
      /\ table' = table /\ breaker' = breaker /\ topic' = topic /\ now' = now
      /\ lost' = lost /\ killed' = killed /\ faults \in Nat
      /\ faults' \in Nat /\ faults' >= faults
  <2>1. faults \in Nat /\ (faults' = faults \/ faults' = faults + 1)
    BY DEF Poll, FlushCounts, Fault, IngestTyped
  <2> QED
    BY <2>1 DEF Poll, bounds, gone
<1>3. /\ ConsumerFits(r) /\ r.pos = r0.pos + 1 /\ r.msg = r0.pos /\ r.from = r0.from
      /\ r.buffer = r0.buffer /\ r.window = r0.window /\ r.seen = r0.seen
  <2> DEFINE pos == r0.pos + 1
             msg == r0.pos
  <2>1. r = [r0 EXCEPT !.pos = pos, !.msg = msg] /\ pos \in Nat /\ msg \in Nat
    BY <1>1
  <2> HIDE DEF r0, r, pos, msg
  <2>2. /\ Row(r) /\ r.pos = pos /\ r.msg = msg /\ r.from = r0.from
        /\ r.buffer = r0.buffer /\ r.window = r0.window /\ r.seen = r0.seen
        /\ r.metrics = r0.metrics
    BY <1>1, <2>1 DEF Row, ConsumerFits
  <2>3. ConsumerFits(r)
    BY <1>1, <2>1, <2>2 DEF ConsumerFits
  <2> QED
    BY <2>2, <2>3 DEF pos, msg
<1> HIDE DEF r, r0
<1>4. CASE k = "list"
  <2>1. /\ ConsumerFits(closed) /\ closed.pc = "closing" /\ closed.pos = r0.pos + 1
        /\ closed.from = r0.from /\ closed.buffer = r0.buffer /\ closed.window = r0.window
        /\ closed.seen = r0.seen
    <3>1. /\ Row(closed) /\ closed.pc = "closing" /\ closed.pos = r.pos /\ closed.msg = 0
          /\ closed.from = r.from /\ closed.buffer = r.buffer /\ closed.window = r.window
          /\ closed.seen = r.seen /\ closed.metrics = r.metrics
      <4>1. closed = [r EXCEPT !.pc = "closing", !.msg = 0] /\ Row(r)
        BY <1>3 DEF ConsumerFits
      <4> HIDE DEF closed
      <4> QED
        BY <4>1 DEF Row
    <3> HIDE DEF closed
    <3> QED
      BY <1>3, <3>1 DEF ConsumerFits
  <2> HIDE DEF closed
  <2>2. Becomes(c, closed)
    BY <1>2, <1>4, SetFacts
  <2>3. HandlesRecords(c, r0, closed)
    BY <1>2, <1>4, <2>1 DEF HandlesRecords, TakesMessage, IsInHand, IsInvalid, Invalid
  <2>4. HandlesWindow(r0, closed)
    BY <2>1 DEF HandlesWindow
  <2>5. KeepsExcuse(r0, closed)
    BY <1>2, <2>1, KeepsExcuseBySame
  <2>6. Passive(c, closed)
    BY <1>2, <2>1, <2>2, <2>3, <2>4, <2>5 DEF Passive, Moves, r0
  <2> QED
    BY <1>2, <2>6
<1>5. CASE k # "list"
  <2> DEFINE pc == IF k = "good" THEN "answer" ELSE "route"
             o == [at |-> now, valid |-> (k = "good")]
  <2>1. /\ ConsumerFits(noted)
        /\ noted.window = Append(r.window, o) /\ noted.seen = Append(r.seen, o)
        /\ noted.buffer = r.buffer /\ noted.pos = r.pos /\ noted.from = r.from
        /\ noted.msg = r.msg
    <3>1. (k = "good") \in BOOLEAN
      OBVIOUS
    <3> HIDE DEF k
    <3> QED
      BY <1>1, <1>3, <3>1, RecordFields
  <2> HIDE DEF noted
  <2>2. q = [noted EXCEPT !.pc = pc]
    OBVIOUS
  <2>3. pc = "route" \/ k = "good"
    OBVIOUS
  <2>4. pc \in {"answer", "route"} /\ \E valid \in BOOLEAN : o = [at |-> now, valid |-> valid]
    OBVIOUS
  <2> HIDE DEF q, pc, o
  <2>5. /\ ConsumerFits(q) /\ q.pc = pc /\ q.window = noted.window /\ q.seen = noted.seen
        /\ q.buffer = noted.buffer /\ q.pos = noted.pos /\ q.from = noted.from
        /\ q.msg = noted.msg
    <3>1. ConsumerFits(noted)
      BY <2>1
    <3> QED
      BY <3>1, <2>2, PcField
  <2>6. Becomes(c, q)
    BY <1>2, <1>5, SetFacts
  <2>7. HandlesRecords(c, r0, q)
    BY <1>2, <1>3, <2>1, <2>3, <2>5
       DEF HandlesRecords, TakesMessage, IsInHand, IsInvalid, Invalid
  <2>8. HandlesWindow(r0, q)
    BY <1>3, <2>1, <2>4, <2>5 DEF HandlesWindow
  <2>9. KeepsExcuse(r0, q)
    BY <1>2, <1>3, <2>1, <2>4, <2>5, KeepsExcuseBySame
  <2>10. Passive(c, q)
    BY <1>2, <2>4, <2>5, <2>6, <2>7, <2>8, <2>9 DEF Passive, Moves, r0
  <2> QED
    BY <1>2, <2>10
<1> QED
  BY <1>4, <1>5

GoesOn(r, q, s, pc) == q = [r EXCEPT !.buffer = s, !.pc = pc]

(* The same for buffer and pc, which a flush sets.                            *)
LEMMA BufferPcFields ==
  ASSUME NEW r, ConsumerFits(r), NEW pc, NEW s, s \in Seq(Nat), NEW q,
         GoesOn(r, q, s, pc)
  PROVE  /\ ConsumerFits(q) /\ q.pc = pc /\ q.window = r.window /\ q.seen = r.seen
         /\ q.buffer = s /\ SameRange(r, q)
<1>1. /\ Row(q) /\ q.pc = pc /\ q.window = r.window /\ q.seen = r.seen
      /\ q.buffer = s /\ q.pos = r.pos /\ q.from = r.from /\ q.msg = r.msg
      /\ q.metrics = r.metrics
  BY DEF ConsumerFits, Row, GoesOn
<1> QED
  BY <1>1 DEF ConsumerFits, SameRange

(* What a flush of the records b makes of the consumer and of the table: the  *)
(* common part of the four handlers that flush.                               *)
LEMMA FlushesShape ==
  ASSUME IngestTyped, NEW c \in Consumers, NEW b \in Seq(Nat), NEW next, NEW ifRaised,
         Flushes(c, b, next, ifRaised)
  PROVE  \E q : /\ Becomes(c, q) /\ ConsumerFits(q) /\ q.pc \in {next, ifRaised}
                /\ SameRange(con[c], q) /\ q.window = con[c].window /\ q.seen = con[c].seen
                /\ table \subseteq table' /\ faults' \in Nat /\ faults' >= faults
                /\ \/ /\ q.buffer = << >>
                      /\ \A i \in {b[k] : k \in DOMAIN b} : <<c, i>> \in table'
                   \/ q.buffer = b /\ (HasPoison(b) \/ faults' >= faults + 1)
<1>1. PICK f \in Flush(c, b) :
        /\ Set(c, [con[c] EXCEPT !.buffer = f.buffer,
                                        !.pc = IF f.raised THEN ifRaised ELSE next])
        /\ table' = f.table /\ faults' = f.faults
  BY DEF Flushes
<1> DEFINE pc == IF f.raised THEN ifRaised ELSE next
           q == [con[c] EXCEPT !.buffer = f.buffer, !.pc = pc]
<1>2. /\ f.buffer \in Seq(Nat) /\ table \subseteq f.table
      /\ f.faults \in Nat /\ f.faults >= faults
      /\ \/ f.buffer = << >> /\ \A i \in {b[k] : k \in DOMAIN b} : <<c, i>> \in f.table
         \/ f.buffer = b /\ (HasPoison(b) \/ f.faults >= faults + 1)
  BY FlushHolds DEF IngestTyped
<1>3. pc \in {next, ifRaised} /\ ConsumerFits(con[c])
  BY DEF IngestTyped
<1> HIDE DEF pc
<1>4. /\ ConsumerFits(q) /\ q.pc = pc /\ q.window = con[c].window /\ q.seen = con[c].seen
      /\ q.buffer = f.buffer /\ SameRange(con[c], q)
  <2> DEFINE r == con[c]
             u == f.buffer
  <2>1. ConsumerFits(r) /\ u \in Seq(Nat)
    BY <1>2, <1>3
  <2>2. GoesOn(r, q, u, pc)
    BY DEF GoesOn
  <2> HIDE DEF q, r, u
  <2>3. /\ ConsumerFits(q) /\ q.pc = pc /\ q.window = r.window /\ q.seen = r.seen
        /\ q.buffer = u /\ SameRange(r, q)
    BY <2>1, <2>2, BufferPcFields
  <2> QED
    BY <2>3 DEF r, u
<1>5. Becomes(c, q)
  BY <1>1, SetFacts DEF pc
<1> HIDE DEF q
<1> QED
  BY <1>1, <1>2, <1>3, <1>4, <1>5

(* A flush of the buffer or of the buffer and the message in hand.            *)
LEMMA FlushingMoves ==
  ASSUME IngestTyped, NEW c \in Consumers, NEW b \in Seq(Nat), NEW next, NEW ifRaised,
         Flushes(c, b, next, ifRaised),
         next # "evaluate", ifRaised # "evaluate",
         "down" \in {next, ifRaised} => b = con[c].buffer,
         \A i : InBuffer(con[c], i) \/ IsInHand(con[c], i) => i \in {b[k] : k \in DOMAIN b},
         breaker' = breaker, topic' = topic, now' = now, lost' = lost, killed' = killed
  PROVE  \E q : Passive(c, q) /\ breaker' = breaker
<1>1. PICK q : /\ Becomes(c, q) /\ ConsumerFits(q) /\ q.pc \in {next, ifRaised}
               /\ SameRange(con[c], q) /\ q.window = con[c].window /\ q.seen = con[c].seen
               /\ table \subseteq table' /\ faults' \in Nat /\ faults' >= faults
               /\ \/ /\ q.buffer = << >>
                     /\ \A i \in {b[k] : k \in DOMAIN b} : <<c, i>> \in table'
                  \/ q.buffer = b /\ (HasPoison(b) \/ faults' >= faults + 1)
  BY FlushesShape
<1>2. HandlesRecords(c, con[c], q)
  <2>1. \A i \in {b[k] : k \in DOMAIN b} : <<c, i>> \in table' \/ InBuffer(q, i)
    BY <1>1 DEF InBuffer
  <2>2. FlushesRecords(c, con[c], q)
    BY <1>1, <2>1 DEF FlushesRecords
  <2> QED
    BY <1>1, <2>2 DEF HandlesRecords
<1>3. KeepsExcuse(con[c], q)
  <2>1. faults \in Nat
    BY DEF IngestTyped
  <2>2. ASSUME Excused(con[c], faults), q.buffer # << >>, ~HasPoison(q.buffer)
        PROVE  faults' >= 1 /\ (q.pc = "down" => faults' >= 2)
    <3>1. q.buffer = b /\ faults' >= faults + 1
      BY <1>1, <2>2
    <3>2. q.pc = "down" => faults >= 1
      BY <1>1, <2>2, <3>1 DEF Excused
    <3> QED
      BY <1>1, <2>1, <3>1, <3>2
  <2> QED
    BY <1>1, <2>2 DEF KeepsExcuse, Excused
<1>4. HandlesWindow(con[c], q)
  BY <1>1 DEF HandlesWindow
<1>5. Moves(c, q)
  BY <1>1, <1>2, <1>3, <1>4 DEF Moves
<1>6. q.pc # "evaluate"
  BY <1>1
<1> QED
  BY <1>5, <1>6 DEF Passive

(* The two handlers that put the message in hand into the buffer first.       *)
LEMMA RoutingMoves ==
  ASSUME IngestTyped, NEW c \in Consumers, Route(c) \/ HandleMalformedPayload(c)
  PROVE  \E q : Passive(c, q) /\ breaker' = breaker
<1> DEFINE b == Append(con[c].buffer, con[c].msg)
<1>1. con[c].buffer \in Seq(Nat) /\ con[c].msg \in Nat
  BY DEF IngestTyped, ConsumerFits
<1>2. b \in Seq(Nat) /\ \A i : InBuffer(con[c], i) \/ IsInHand(con[c], i)
                                 => i \in {b[k] : k \in DOMAIN b}
  <2> DEFINE s == con[c].buffer
  <2>1. /\ b \in Seq(Nat) /\ DOMAIN s = 1..Len(s) /\ DOMAIN b = 1..Len(s) + 1 /\ Len(s) \in Nat
        /\ b[Len(s) + 1] = con[c].msg /\ \A k \in 1..Len(s) : b[k] = s[k]
    BY <1>1
  <2> HIDE DEF b
  <2>2. \A k \in 1..Len(s) : k \in 1..Len(s) + 1
    BY <2>1
  <2>3. Len(s) + 1 \in 1..Len(s) + 1
    BY <2>1
  <2> QED
    BY <2>1, <2>2, <2>3 DEF InBuffer, IsInHand
<1> HIDE DEF b
<1>3. CASE Route(c)
  <2>1. /\ con[c].pc = "route" /\ Flushes(c, b, "examine", "examine")
        /\ breaker' = breaker /\ topic' = topic /\ now' = now
        /\ lost' = lost /\ killed' = killed
    BY <1>3 DEF Route, bounds, gone, b
  <2> QED
    BY <1>2, <2>1, FlushingMoves
<1>4. CASE HandleMalformedPayload(c)
  <2>1. /\ con[c].pc = "route" /\ Flushes(c, b, "answer", "closing")
        /\ breaker' = breaker /\ topic' = topic /\ now' = now
        /\ lost' = lost /\ killed' = killed
    BY <1>4 DEF HandleMalformedPayload, bounds, gone, b
  <2> QED
    BY <1>2, <2>1, FlushingMoves
<1> QED
  BY <1>3, <1>4

(* The periodic flush and the one on the way out.                             *)
LEMMA DrainingMoves ==
  ASSUME IngestTyped, NEW c \in Consumers, PeriodicFlush(c) \/ Close(c)
  PROVE  \E q : Passive(c, q) /\ breaker' = breaker
<1> DEFINE b == con[c].buffer
<1>1. b \in Seq(Nat)
  BY DEF IngestTyped, ConsumerFits
<1>2. con[c].pc # "route" => \A i : InBuffer(con[c], i) \/ IsInHand(con[c], i)
                                      => i \in {b[k] : k \in DOMAIN b}
  BY DEF InBuffer, IsInHand
<1>3. CASE PeriodicFlush(c)
  <2>1. /\ con[c].pc = "flush" /\ Flushes(c, b, "poll", "closing")
        /\ breaker' = breaker /\ topic' = topic /\ now' = now
        /\ lost' = lost /\ killed' = killed
    BY <1>3 DEF PeriodicFlush, bounds, gone
  <2>2. "down" \in {"poll", "closing"} => b = con[c].buffer
    OBVIOUS
  <2> HIDE DEF b
  <2> QED
    BY <1>1, <1>2, <2>1, <2>2, FlushingMoves
<1>4. CASE Close(c)
  <2>1. /\ con[c].pc = "closing" /\ Flushes(c, b, "down", "down")
        /\ breaker' = breaker /\ topic' = topic /\ now' = now
        /\ lost' = lost /\ killed' = killed
    BY <1>4 DEF Close, bounds, gone
  <2>2. b = con[c].buffer
    OBVIOUS
  <2> HIDE DEF b
  <2> QED
    BY <1>1, <1>2, <2>1, <2>2, FlushingMoves
<1> QED
  BY <1>3, <1>4

(* No step takes the breaker apart or closes it but by a recovery.            *)
BreakerKeeps == BreakerFits(breaker') /\ ClosedByRecovery(breaker, breaker')

(* Reading the state is such a step.                                          *)
LEMMA RefreshKeeps ==
  ASSUME IngestTyped, breaker' = Refreshed(breaker, now) PROVE BreakerKeeps
BY RefreshedShape DEF IngestTyped, BreakerKeeps

(* The answer: the metrics are calculated and forgotten.                      *)
LEMMA AnswerMoves ==
  ASSUME IngestTyped, Window \in Nat, NEW c \in Consumers, Answer(c)
  PROVE  \E q : Passive(c, q) /\ BreakerKeeps
<1> DEFINE r == Calculated(con[c])
           q == Processed(r)
<1>1. /\ con[c].pc = "answer" /\ breaker' = Refreshed(breaker, now) /\ Set(c, q)
      /\ table' = table /\ topic' = topic /\ now' = now
      /\ lost' = lost /\ killed' = killed /\ faults' = faults
  BY DEF Answer, bounds, gone
<1>2. /\ ConsumerFits(r) /\ r.window = Evicted(con[c].window) /\ r.seen = con[c].seen
      /\ r.buffer = con[c].buffer /\ r.pos = con[c].pos /\ r.from = con[c].from
  BY CalculatedFields DEF IngestTyped
<1> HIDE DEF r
<1>3. /\ ConsumerFits(q) /\ q.window = r.window /\ q.seen = r.seen /\ q.buffer = r.buffer
      /\ q.pos = r.pos /\ q.from = r.from /\ q.pc \in {"flush", "poll"}
  BY <1>2, ProcessedFields
<1>4. Becomes(c, q)
  BY <1>1, SetFacts
<1> HIDE DEF q
<1>5. HandlesRecords(c, con[c], q)
  BY <1>1, <1>2, <1>3 DEF HandlesRecords, KeepsRecords, SameRange
<1>6. HandlesWindow(con[c], q)
  BY <1>2, <1>3 DEF HandlesWindow
<1>7. KeepsExcuse(con[c], q)
  BY <1>1, <1>2, <1>3, KeepsExcuseBySame DEF IngestTyped
<1>8. Moves(c, q)
  BY <1>1, <1>3, <1>4, <1>5, <1>6, <1>7 DEF Moves
<1>9. Passive(c, q)
  BY <1>1, <1>3, <1>8 DEF Passive
<1> QED
  BY <1>1, <1>9, RefreshKeeps

(* A consumer that is through with its event, whatever it did to the breaker. *)
LEMMA ThroughMoves ==
  ASSUME IngestTyped, NEW c \in Consumers,
         Set(c, Processed(con[c])), con[c].pc # "route",
         table' = table, lost' = lost, killed' = killed, faults' = faults,
         topic' = topic, now' = now
  PROVE  LET q == Processed(con[c])
         IN  Moves(c, q) /\ q.pc \in {"flush", "poll"}
<1> DEFINE r == con[c]
           q == Processed(r)
<1>1. ConsumerFits(r) /\ faults \in Nat
  BY DEF IngestTyped
<1>2. Becomes(c, q)
  BY SetFacts
<1>3. /\ ConsumerFits(q) /\ q.window = r.window /\ q.seen = r.seen /\ q.buffer = r.buffer
      /\ q.pos = r.pos /\ q.from = r.from /\ q.pc \in {"flush", "poll"}
  <2> HIDE DEF r
  <2> QED
    BY <1>1, ProcessedFields
<1>4. r.pc # "route"
  OBVIOUS
<1> HIDE DEF q
<1>5. HandlesRecords(c, r, q)
  BY <1>3, <1>4 DEF HandlesRecords, KeepsRecords, SameRange
<1>6. HandlesWindow(r, q)
  BY <1>3 DEF HandlesWindow
<1>7. KeepsExcuse(r, q)
  BY <1>1, <1>3, KeepsExcuseBySame
<1>8. Moves(c, q)
  BY <1>2, <1>3, <1>5, <1>6, <1>7 DEF Moves
<1> QED
  BY <1>3, <1>8 DEF q

(* The recovery result by auto-close, and the raising of the incident.        *)
LEMMA ThroughSteps ==
  ASSUME IngestTyped, NEW c \in Consumers, AutoClose(c) \/ RaiseIncident(c)
  PROVE  \E q : Passive(c, q) /\ BreakerKeeps
<1> DEFINE q == Processed(con[c])
<1>1. /\ con[c].pc \in {"close", "raise"} /\ Set(c, q)
      /\ breaker' = Settled(breaker, TRUE, now) \/ breaker' = Refreshed(breaker, now)
      /\ table' = table /\ lost' = lost /\ killed' = killed /\ faults' = faults
      /\ topic' = topic /\ now' = now
  BY DEF AutoClose, RaiseIncident, bounds, gone
<1>2. Moves(c, q) /\ q.pc \in {"flush", "poll"}
  BY <1>1, ThroughMoves
<1>3. BreakerKeeps
  <2>1. BreakerFits(breaker) /\ TRUE \in BOOLEAN
    BY DEF IngestTyped
  <2>2. CASE breaker' = Settled(breaker, TRUE, now)
    BY <2>1, <2>2, SettledShape DEF BreakerKeeps
  <2>3. CASE breaker' = Refreshed(breaker, now)
    BY <2>3, RefreshKeeps
  <2> QED
    BY <1>1, <2>2, <2>3
<1> HIDE DEF q
<1>4. Passive(c, q)
  BY <1>2 DEF Passive
<1> QED
  BY <1>3, <1>4

(* A stop asked for between two messages.                                     *)
LEMMA StopMoves ==
  ASSUME IngestTyped, NEW c \in Consumers, Stop(c)
  PROVE  \E q : Passive(c, q) /\ breaker' = breaker
<1> DEFINE r == con[c]
           q == [r EXCEPT !.pc = "closing"]
<1>1. /\ r.pc = "poll" /\ Set(c, q) /\ lost' = lost /\ killed' = killed /\ breaker' = breaker
      /\ table' = table /\ faults' = faults /\ topic' = topic /\ now' = now
  BY DEF Stop, bounds, gone
<1>2. Becomes(c, q) /\ ConsumerFits(r) /\ faults \in Nat
  BY <1>1, SetFacts DEF IngestTyped
<1>3. /\ ConsumerFits(q) /\ q.pc = "closing" /\ q.window = r.window /\ q.seen = r.seen
      /\ q.buffer = r.buffer /\ q.pos = r.pos /\ q.from = r.from
  <2> HIDE DEF r
  <2> QED
    BY <1>2, PcField
<1> HIDE DEF q
<1>4. HandlesRecords(c, r, q)
  BY <1>1, <1>3 DEF HandlesRecords, KeepsRecords, SameRange
<1>5. HandlesWindow(r, q)
  BY <1>3 DEF HandlesWindow
<1>6. KeepsExcuse(r, q)
  BY <1>1, <1>2, <1>3, KeepsExcuseBySame
<1>7. Moves(c, q)
  BY <1>1, <1>2, <1>3, <1>4, <1>5, <1>6 DEF Moves
<1>8. Passive(c, q)
  BY <1>3, <1>7 DEF Passive
<1> QED
  BY <1>1, <1>8

(* A snapshot for /health evicts beside whatever the loop is at.              *)
LEMMA SnapshotMoves ==
  ASSUME IngestTyped, Window \in Nat, NEW c \in Consumers, Snapshot(c)
  PROVE  \E q : Passive(c, q) /\ breaker' = breaker
<1> DEFINE r == con[c]
           w == Evicted(r.window)
           q == [r EXCEPT !.window = w]
<1>1. /\ Set(c, q) /\ lost' = lost /\ killed' = killed /\ breaker' = breaker
      /\ table' = table /\ topic' = topic /\ now' = now
      /\ faults \in Nat /\ faults' \in Nat /\ faults' >= faults
  <2>1. faults \in Nat /\ (faults' = faults \/ faults' = faults + 1)
    BY DEF Snapshot, Fault, IngestTyped
  <2> QED
    BY <2>1 DEF Snapshot, gone
<1>2. Becomes(c, q)
  BY <1>1, SetFacts
<1>3. ConsumerFits(r) /\ now \in Nat
  BY DEF IngestTyped
<1>4. w \in Seq(Outcomes)
  <2> HIDE DEF r
  <2>1. r.window \in Seq(Outcomes)
    BY <1>3 DEF ConsumerFits
  <2> QED
    BY <1>3, <2>1, EvictedFacts
<1>5. /\ Row(q) /\ q.pc = r.pc /\ q.window = w /\ q.seen = r.seen /\ q.buffer = r.buffer
      /\ q.pos = r.pos /\ q.from = r.from /\ q.msg = r.msg /\ q.metrics = r.metrics
      /\ q.old = r.old /\ q.closings = r.closings
  <2>1. Row(r)
    BY <1>3 DEF ConsumerFits
  <2> HIDE DEF r, w
  <2> QED
    BY <2>1 DEF Row
<1>6. ConsumerFits(q)
  <2> HIDE DEF q, r, w
  <2> QED
    BY <1>3, <1>4, <1>5 DEF ConsumerFits
<1> HIDE DEF q
<1>7. HandlesRecords(c, r, q)
  BY <1>1, <1>5 DEF HandlesRecords, KeepsRecords, SameRange
<1>8. HandlesWindow(r, q)
  BY <1>5 DEF HandlesWindow
<1>9. KeepsExcuse(r, q)
  BY <1>1, <1>5, KeepsExcuseBySame
<1>10. Moves(c, q)
  BY <1>1, <1>2, <1>6, <1>7, <1>8, <1>9 DEF Moves
<1>11. Passive(c, q)
  BY <1>5, <1>10 DEF Passive
<1> QED
  BY <1>1, <1>11

(* A consumer that starts over, with nothing in its buffer, and accounts for  *)
(* what it leaves behind.                                                     *)
LEMMA StartingMoves ==
  ASSUME IngestTyped, NEW c \in Consumers, NEW q, Becomes(c, q), ConsumerFits(q),
         q.pc = "poll", q.buffer = << >>, q.pos <= con[c].pos,
         HandlesWindow(con[c], q),
         \A i : InBuffer(con[c], i) \/ IsInHand(con[c], i)
                  => <<c, i>> \in table' \cup lost' \cup killed',
         table \subseteq table', lost \subseteq lost', killed \subseteq killed',
         faults' \in Nat, faults' >= faults,
         Excused(con[c], faults) => \A p \in lost' \ lost : HasCause(p),
         topic' = topic, now' = now
  PROVE  Passive(c, q)
<1>1. StartsOver(c, con[c], q)
  BY DEF StartsOver, ConsumerFits
<1>2. HandlesRecords(c, con[c], q)
  BY <1>1 DEF HandlesRecords
<1>3. KeepsExcuse(con[c], q)
  BY DEF KeepsExcuse, Excused
<1> QED
  BY <1>2, <1>3 DEF Passive, Moves

(* Where a consumer may start over is no further than it has polled.          *)
LEMMA CommittedFacts ==
  ASSUME IngestTyped, NEW c \in Consumers, NEW start \in Committed(c)
  PROVE  start \in Nat /\ start <= con[c].pos
BY DEF IngestTyped, ConsumerFits, Committed

(* The records of a buffer that a writer leaves behind are lost, and for      *)
(* cause: one of them is refused, or this was not the first failure.          *)
LEMMA LeftBehind ==
  ASSUME IngestTyped, NEW c \in Consumers, con[c].pc = "down",
         lost' = lost \cup Entries(c, con[c].buffer),
         faults' \in Nat, faults' >= faults
  PROVE  /\ \A i : InBuffer(con[c], i) => <<c, i>> \in lost'
         /\ Excused(con[c], faults) => \A p \in lost' \ lost : HasCause(p)
<1> DEFINE b == con[c].buffer
<1>1. Entries(c, b) = { <<c, b[k]>> : k \in DOMAIN b }
  BY DEF Entries
<1>2. \A i : InBuffer(con[c], i) => <<c, i>> \in lost'
  BY <1>1 DEF InBuffer
<1>3. ASSUME Excused(con[c], faults), NEW p \in lost' \ lost PROVE HasCause(p)
  <2>1. PICK k \in DOMAIN b : p = <<c, b[k]>>
    BY <1>1, <1>3
  <2>2. CASE HasPoison(b)
    <3>1. PICK j \in DOMAIN b : Kind(b[j]) = "poison"
      BY <2>2 DEF HasPoison
    <3> DEFINE s == <<c, b[j]>>
    <3>2. s \in lost' /\ s[1] = p[1] /\ Kind(s[2]) = "poison"
      BY <1>1, <2>1, <3>1
    <3> HIDE DEF s
    <3> QED
      BY <3>2 DEF HasCause
  <2>3. CASE ~HasPoison(b)
    <3>1. b # << >>
      BY <2>1
    <3>2. faults >= 2
      BY <1>3, <2>3, <3>1 DEF Excused
    <3>3. faults' >= 2
      BY <3>2 DEF IngestTyped
    <3> QED
      BY <3>3 DEF HasCause
  <2> QED
    BY <2>2, <2>3
<1> QED
  BY <1>2, <1>3

(* The last flush of a writer puts its records into the table or leaves them  *)
(* behind.                                                                    *)
LEMMA LetGoFacts ==
  ASSUME IngestTyped, NEW c \in Consumers, con[c].pc = "down", LetGo(c)
  PROVE  /\ \A i : InBuffer(con[c], i) => <<c, i>> \in table' \cup lost'
         /\ table \subseteq table' /\ lost \subseteq lost'
         /\ faults' \in Nat /\ faults' >= faults
         /\ Excused(con[c], faults) => \A p \in lost' \ lost : HasCause(p)
<1> DEFINE b == con[c].buffer
<1>1. PICK f \in Flush(c, b) :
        table' = f.table /\ faults' = f.faults /\ lost' = lost \cup Entries(c, f.buffer)
  BY DEF LetGo
<1>2. b \in Seq(Nat) /\ faults \in Nat
  BY DEF IngestTyped, ConsumerFits
<1>3. /\ table \subseteq f.table /\ f.faults \in Nat /\ f.faults >= faults
      /\ \/ f.buffer = << >> /\ \A i \in {b[k] : k \in DOMAIN b} : <<c, i>> \in f.table
         \/ f.buffer = b
  <2> HIDE DEF b
  <2> QED
    BY <1>2, FlushHolds
<1>4. CASE f.buffer = << >> /\ \A i \in {b[k] : k \in DOMAIN b} : <<c, i>> \in f.table
  <2>1. Entries(c, << >>) = {}
    BY DEF Entries
  <2>2. lost' = lost
    BY <1>1, <1>4, <2>1
  <2> QED
    BY <1>1, <1>3, <1>4, <2>2 DEF InBuffer
<1>5. CASE f.buffer = b
  BY <1>1, <1>3, <1>5, LeftBehind
<1> QED
  BY <1>3, <1>4, <1>5

(* A new connection keeps the engine of the process.                          *)
LEMMA ReconnectMoves ==
  ASSUME IngestTyped, NEW c \in Consumers, Reconnect(c)
  PROVE  \E q : Passive(c, q) /\ breaker' = breaker
<1> DEFINE r == con[c]
<1>1. ConsumerFits(r)
  BY DEF IngestTyped
<1>2. /\ r.pc = "down" /\ LetGo(c) /\ killed' = killed /\ breaker' = breaker
      /\ topic' = topic /\ now' = now
  BY DEF Reconnect, bounds
<1>3. PICK start \in Committed(c) :
        Set(c, [NewConsumer(start) EXCEPT !.since = r.since, !.window = r.window,
                                          !.seen = r.seen])
  BY DEF Reconnect
<1>4. start \in Nat /\ start <= r.pos
  BY CommittedFacts
<1>5. /\ \A i : InBuffer(r, i) => <<c, i>> \in table' \cup lost'
      /\ table \subseteq table' /\ lost \subseteq lost'
      /\ faults' \in Nat /\ faults' >= faults
      /\ Excused(r, faults) => \A p \in lost' \ lost : HasCause(p)
  BY <1>2, LetGoFacts
<1>6. \A i : ~IsInHand(r, i)
  BY <1>2 DEF IsInHand
<1> DEFINE n == NewConsumer(start)
           q == [n EXCEPT !.since = r.since, !.window = r.window, !.seen = r.seen]
<1>7. /\ ConsumerFits(n) /\ n.buffer = << >> /\ n.pos = start /\ n.from = start /\ n.pc = "poll"
  BY <1>4, NewConsumerFields
<1>8. Becomes(c, q)
  BY <1>3, SetFacts
<1> HIDE DEF n, r
<1>9. /\ Row(q) /\ q.pc = "poll" /\ q.window = r.window /\ q.seen = r.seen /\ q.buffer = n.buffer
      /\ q.pos = start /\ q.from = start /\ q.msg = n.msg /\ q.metrics = n.metrics
  <2> DEFINE since == r.since
             w == r.window
             h == r.seen
  <2>1. Row(n)
    BY <1>7 DEF ConsumerFits
  <2>2. q = [n EXCEPT !.since = since, !.window = w, !.seen = h]
    OBVIOUS
  <2> HIDE DEF q, since, w, h
  <2>3. /\ Row(q) /\ q.pc = n.pc /\ q.window = w /\ q.seen = h /\ q.buffer = n.buffer
        /\ q.pos = n.pos /\ q.from = n.from /\ q.msg = n.msg /\ q.metrics = n.metrics
    BY <2>1, <2>2 DEF Row
  <2> QED
    BY <1>7, <2>3 DEF w, h
<1> HIDE DEF q
<1>10. ConsumerFits(q) /\ HandlesWindow(r, q)
  BY <1>1, <1>4, <1>7, <1>9 DEF ConsumerFits, HandlesWindow
<1>11. Passive(c, q)
  BY <1>2, <1>4, <1>5, <1>6, <1>7, <1>8, <1>9, <1>10, StartingMoves DEF r
<1> QED
  BY <1>2, <1>11

(* A new process has nothing of the old one's, whichever way that one ended.  *)
LEMMA RestartMoves ==
  ASSUME IngestTyped, NEW c \in Consumers, Restart(c) \/ Kill(c)
  PROVE  \E q : Passive(c, q) /\ breaker' = breaker
<1> DEFINE r == con[c]
<1>1. /\ breaker' = breaker /\ topic' = topic /\ now' = now
      /\ \E start \in Committed(c) : Set(c, NewConsumer(start))
  BY DEF Restart, Kill, bounds
<1>2. PICK start \in Committed(c) : Set(c, NewConsumer(start))
  BY <1>1
<1>3. start \in Nat /\ start <= r.pos
  BY CommittedFacts
<1> DEFINE q == NewConsumer(start)
<1>4. /\ ConsumerFits(q) /\ q.pos = start /\ q.pc = "poll" /\ q.buffer = << >>
      /\ q.window = << >> /\ q.seen = << >>
  BY <1>3, NewConsumerFields
<1>5. Becomes(c, q)
  BY <1>2, SetFacts
<1> HIDE DEF q
<1>6. HandlesWindow(r, q)
  BY <1>4 DEF HandlesWindow
<1>7. /\ \A i : InBuffer(r, i) \/ IsInHand(r, i) => <<c, i>> \in table' \cup lost' \cup killed'
      /\ table \subseteq table' /\ lost \subseteq lost' /\ killed \subseteq killed'
      /\ faults' \in Nat /\ faults' >= faults
      /\ Excused(r, faults) => \A p \in lost' \ lost : HasCause(p)
  <2>1. CASE Restart(c)
    <3>1. /\ r.pc = "down" /\ killed' = killed
          /\ \/ LetGo(c)
             \/ lost' = lost \cup Entries(c, r.buffer) /\ table' = table /\ faults' = faults
      BY <2>1 DEF Restart
    <3>2. \A i : ~IsInHand(r, i)
      BY <3>1 DEF IsInHand
    <3>3. CASE LetGo(c)
      BY <3>1, <3>2, <3>3, LetGoFacts
    <3>4. CASE lost' = lost \cup Entries(c, r.buffer) /\ table' = table /\ faults' = faults
      <4>1. faults' \in Nat /\ faults' >= faults
        BY <3>4 DEF IngestTyped
      <4> QED
        BY <3>1, <3>2, <3>4, <4>1, LeftBehind
    <3> QED
      BY <3>1, <3>3, <3>4
  <2>2. CASE Kill(c)
    <3>1. /\ killed' = killed \cup Entries(c, r.buffer) \cup InHand(c)
          /\ faults' = faults + 1 /\ table' = table /\ lost' = lost
      BY <2>2 DEF Kill, Fault
    <3>2. \A i : InBuffer(r, i) => <<c, i>> \in Entries(c, r.buffer)
      BY DEF InBuffer, Entries
    <3>3. \A i : IsInHand(r, i) => <<c, i>> \in InHand(c)
      BY DEF IsInHand, InHand
    <3>4. faults' \in Nat /\ faults' >= faults
      BY <3>1 DEF IngestTyped
    <3> HIDE DEF r
    <3> QED
      BY <3>1, <3>2, <3>3, <3>4
  <2> QED
    BY <2>1, <2>2
<1>8. Passive(c, q)
  BY <1>1, <1>3, <1>4, <1>5, <1>6, <1>7, StartingMoves
<1> QED
  BY <1>1, <1>8

(* The rate is rounded down: above the threshold, so is the quotient itself.  *)
LEMMA RateFacts ==
  ASSUME NEW m \in Metrics, Scale \in Nat, ErrorThreshold \in Nat
  PROVE  /\ ErrorRate(m) \in Nat
         /\ ErrorRate(m) > ErrorThreshold => Scale * m.failed > ErrorThreshold * m.total
<1> DEFINE n == m.total
           x == Scale * m.failed
           q == ErrorRate(m)
<1>1. n \in Nat /\ x \in Nat
  BY DEF Metrics
<1>2. q = IF n = 0 THEN 0 ELSE x \div n
  BY DEF ErrorRate
<1> HIDE DEF n, x, q
<1>3. CASE n = 0
  BY <1>2, <1>3 DEF n, x, q
<1>4. CASE n # 0
  <2>1. q = x \div n
    BY <1>2, <1>4
  <2>2. q \in Nat /\ n * q <= x
    BY <1>1, <1>4, <2>1
  <2>3. ASSUME q > ErrorThreshold PROVE x > ErrorThreshold * n
    <3>1. q >= ErrorThreshold + 1
      BY <2>2, <2>3
    <3>2. n * q >= n * (ErrorThreshold + 1)
      BY <1>1, <2>2, <3>1
    <3>3. n * (ErrorThreshold + 1) = ErrorThreshold * n + n
      BY <1>1
    <3>4. ErrorThreshold * n \in Nat
      BY <1>1
    <3> QED
      BY <1>1, <1>4, <2>2, <3>2, <3>3, <3>4
  <2> QED
    BY <2>2, <2>3 DEF n, x, q
<1> QED
  BY <1>3, <1>4

(* The read of rate and state: the window is evicted and counted at this      *)
(* moment, and the state is the breaker's.                                    *)
Examines(c, q) ==
  /\ Moves(c, q) /\ BreakerKeeps
  /\ con[c].pc = "examine"
  /\ q.old = breaker'.state /\ q.closings = breaker'.successful_recoveries
  /\ q.window = Evicted(con[c].window) /\ q.seen = con[c].seen
  /\ q.metrics.at = now /\ q.metrics.total = Len(q.window)
  /\ q.metrics.failed = Failures(q.window)

(* Examine is such a step.                                                    *)
LEMMA ExamineMoves ==
  ASSUME IngestTyped, Window \in Nat, NEW c \in Consumers, Examine(c)
  PROVE  \E q : Examines(c, q)
<1> DEFINE r == Calculated(con[c])
           s == breaker'.state
           n == breaker'.successful_recoveries
           pc == "evaluate"
           q == [r EXCEPT !.pc = pc, !.old = s, !.closings = n]
<1>1. /\ con[c].pc = "examine" /\ breaker' = Refreshed(breaker, now) /\ Set(c, q)
      /\ table' = table /\ lost' = lost /\ killed' = killed /\ faults' = faults
      /\ topic' = topic /\ now' = now
  BY DEF Examine, bounds, gone
<1>2. /\ ConsumerFits(r) /\ r.window = Evicted(con[c].window) /\ r.seen = con[c].seen
      /\ r.buffer = con[c].buffer /\ r.pos = con[c].pos /\ r.from = con[c].from
      /\ r.metrics.at = now /\ r.metrics.total = Len(r.window)
      /\ r.metrics.failed = Failures(r.window)
  BY CalculatedFields DEF IngestTyped
<1>3. pc # "down"
  OBVIOUS
<1> HIDE DEF r, s, n, pc
<1>4. /\ Row(q) /\ q.window = r.window /\ q.seen = r.seen /\ q.buffer = r.buffer
      /\ q.pos = r.pos /\ q.from = r.from /\ q.metrics = r.metrics /\ q.msg = r.msg
      /\ q.old = s /\ q.closings = n /\ q.pc = pc
  <2>1. Row(r) /\ q = [r EXCEPT !.pc = pc, !.old = s, !.closings = n]
    BY <1>2 DEF ConsumerFits
  <2> HIDE DEF q
  <2> QED
    BY <2>1 DEF Row
<1>5. Becomes(c, q)
  BY <1>1, SetFacts
<1> HIDE DEF q
<1>6. ConsumerFits(q)
  BY <1>2, <1>4 DEF ConsumerFits
<1>7. HandlesRecords(c, con[c], q)
  BY <1>1, <1>2, <1>4 DEF HandlesRecords, KeepsRecords, SameRange
<1>8. HandlesWindow(con[c], q)
  BY <1>2, <1>4 DEF HandlesWindow
<1>9. KeepsExcuse(con[c], q)
  BY <1>1, <1>2, <1>3, <1>4, KeepsExcuseBySame DEF IngestTyped
<1>10. Moves(c, q)
  BY <1>1, <1>5, <1>6, <1>7, <1>8, <1>9 DEF Moves
<1> QED
  BY <1>1, <1>2, <1>4, <1>10, RefreshKeeps DEF Examines, s, n

(* The evaluation: it opens a closed breaker only, at a rate above the        *)
(* threshold, and goes on to raise that unless it had read the state as open. *)
Opens == breaker.state # "OPEN" /\ breaker'.state = "OPEN"

Evaluates(c, q) ==
  /\ Moves(c, q) /\ BreakerKeeps
  /\ con[c].pc = "evaluate" /\ q.pc # "evaluate"
  /\ Opens => /\ breaker.state = "CLOSED"
              /\ ErrorRate(con[c].metrics) > ErrorThreshold
              /\ con[c].old # "OPEN" => q.pc = "raise"

(* Evaluate is such a step.                                                   *)
LEMMA EvaluateMoves ==
  ASSUME IngestTyped, NEW c \in Consumers, Evaluate(c)
  PROVE  \E q : Evaluates(c, q) /\ con'[c] = q
<1> DEFINE r == con[c]
           rate == ErrorRate(r.metrics)
           closing == r.old = "HALF_OPEN" /\ r.metrics.total >= MinSample /\ rate <= ErrorThreshold
           closes == [r EXCEPT !.pc = "close"]
           raises == [r EXCEPT !.pc = "raise"]
           done == Processed(r)
<1>1. /\ r.pc = "evaluate" /\ breaker' = Evaluated(breaker, rate, now)
      /\ table' = table /\ lost' = lost /\ killed' = killed /\ faults' = faults
      /\ topic' = topic /\ now' = now
  BY DEF Evaluate, bounds, gone
<1>2. Set(c, IF closing THEN closes
             ELSE IF IsTrip(r.old, breaker'.state) THEN raises ELSE done)
  BY DEF Evaluate
<1>3. ConsumerFits(r) /\ BreakerFits(breaker) /\ faults \in Nat
  BY DEF IngestTyped
<1>4. Scale \in Nat /\ ErrorThreshold \in Nat
  BY IngestConfig, BreakerConfig
<1>5. rate \in Nat
  <2> HIDE DEF r
  <2>1. r.metrics \in Metrics
    BY <1>3 DEF ConsumerFits
  <2> QED
    BY <1>4, <2>1, RateFacts
<1>6. /\ BreakerKeeps
      /\ Opens => breaker.state = "CLOSED" /\ rate > ErrorThreshold
  <2> HIDE DEF rate
  <2> QED
    BY <1>1, <1>3, EvaluatedShape DEF BreakerKeeps, Opens
<1>7. ASSUME NEW pc \in {"close", "raise"}, NEW q, q = [r EXCEPT !.pc = pc], Set(c, q)
      PROVE  Moves(c, q) /\ q.pc = pc /\ con'[c] = q
  <2>1. Becomes(c, q)
    BY <1>7, SetFacts
  <2> HIDE DEF r
  <2>2. /\ ConsumerFits(q) /\ q.pc = pc /\ q.window = r.window /\ q.seen = r.seen
        /\ q.buffer = r.buffer /\ q.pos = r.pos /\ q.from = r.from
    BY <1>3, <1>7, PcField
  <2>3. HandlesRecords(c, r, q)
    BY <1>1, <2>2 DEF HandlesRecords, KeepsRecords, SameRange
  <2>4. HandlesWindow(r, q)
    BY <2>2 DEF HandlesWindow
  <2>5. KeepsExcuse(r, q)
    BY <1>1, <1>3, <2>2, KeepsExcuseBySame
  <2> QED
    BY <1>1, <2>1, <2>2, <2>3, <2>4, <2>5 DEF Moves, Becomes, r
<1>8. CASE closing
  <2>1. Set(c, closes)
    BY <1>2, <1>8
  <2>2. Moves(c, closes) /\ closes.pc = "close" /\ con'[c] = closes
    <3> HIDE DEF r
    <3> QED
      BY <1>7, <2>1
  <2>3. ~Opens
    BY <1>4, <1>5, <1>6, <1>8
  <2> HIDE DEF closes
  <2> QED
    BY <1>1, <1>6, <2>2, <2>3 DEF Evaluates
<1>9. CASE ~closing /\ IsTrip(r.old, breaker'.state)
  <2>1. Set(c, raises)
    BY <1>2, <1>9
  <2>2. Moves(c, raises) /\ raises.pc = "raise" /\ con'[c] = raises
    <3> HIDE DEF r
    <3> QED
      BY <1>7, <2>1
  <2> HIDE DEF raises
  <2> QED
    BY <1>1, <1>6, <2>2 DEF Evaluates
<1>10. CASE ~closing /\ ~IsTrip(r.old, breaker'.state)
  <2>1. Set(c, done)
    BY <1>2, <1>10
  <2>2. Moves(c, done) /\ done.pc \in {"flush", "poll"} /\ con'[c] = done
    BY <1>1, <2>1, ThroughMoves DEF Moves, Becomes
  <2>3. Opens => r.old = "OPEN"
    BY <1>10 DEF IsTrip, Opens
  <2> HIDE DEF done
  <2> QED
    BY <1>1, <1>6, <2>2, <2>3 DEF Evaluates
<1> QED
  BY <1>8, <1>9, <1>10

(* What is left: the remediation's moves of the breaker, the clock, and       *)
(* nothing at all.                                                            *)
Rests ==
  /\ con' = con /\ table' = table /\ lost' = lost /\ killed' = killed /\ faults' = faults
  /\ topic' = topic /\ now' \in Nat /\ now <= now'
  /\ BreakerKeeps

(* These steps rest.                                                          *)
LEMMA RestSteps ==
  ASSUME IngestTyped,
         Probe \/ (\E pass \in BOOLEAN : Verdict(pass)) \/ Tick \/ UNCHANGED vars
  PROVE  Rests
<1>1. now \in Nat /\ BreakerFits(breaker)
  BY DEF IngestTyped
<1>2. breaker' = breaker => BreakerKeeps
  BY <1>1 DEF BreakerKeeps, ClosedByRecovery, BreakerFits
<1>3. CASE Probe
  <2>1. /\ breaker' = Move(breaker, "HALF_OPEN", now)
        /\ con' = con /\ table' = table /\ lost' = lost /\ killed' = killed
        /\ faults' = faults /\ topic' = topic /\ now' = now
    BY <1>3 DEF Probe, bounds, gone
  <2>2. BreakerKeeps
    <3>1. /\ BreakerFits(breaker') /\ breaker'.state = "HALF_OPEN"
          /\ breaker'.successful_recoveries = breaker.successful_recoveries
      BY <1>1, <2>1, MoveShape
    <3> QED
      BY <3>1 DEF BreakerKeeps, ClosedByRecovery, BreakerFits
  <2> QED
    BY <1>1, <2>1, <2>2 DEF Rests
<1>4. CASE \E pass \in BOOLEAN : Verdict(pass)
  <2>1. PICK pass \in BOOLEAN : Verdict(pass)
    BY <1>4
  <2>2. /\ breaker' = Settled(breaker, pass, now)
        /\ con' = con /\ table' = table /\ lost' = lost /\ killed' = killed
        /\ faults' = faults /\ topic' = topic /\ now' = now
    BY <2>1 DEF Verdict, bounds, gone
  <2>3. BreakerKeeps
    BY <1>1, <2>2, SettledShape DEF BreakerKeeps
  <2> QED
    BY <1>1, <2>2, <2>3 DEF Rests
<1>5. CASE Tick
  BY <1>1, <1>2, <1>5 DEF Tick, Rests, gone
<1>6. CASE UNCHANGED vars
  BY <1>1, <1>2, <1>6 DEF vars, Rests
<1> QED
  BY <1>3, <1>4, <1>5, <1>6

(* Every step of the specification is of one of four shapes.                  *)
LEMMA IngestSteps ==
  ASSUME IngestTyped, [Next]_vars
  PROVE  \/ \E c \in Consumers : \E q : Passive(c, q) /\ BreakerKeeps
         \/ \E c \in Consumers : \E q : Examines(c, q)
         \/ \E c \in Consumers : \E q : Evaluates(c, q)
         \/ Rests
<1>1. Window \in Nat
  BY IngestConfig
<1>2. ASSUME breaker' = breaker PROVE BreakerKeeps
  BY <1>2 DEF IngestTyped, BreakerKeeps, ClosedByRecovery, BreakerFits
<1>3. ASSUME NEW c \in Consumers,
             Step(c) \/ Stop(c) \/ Kill(c) \/ Snapshot(c)
      PROVE  \/ \E q : Passive(c, q) /\ BreakerKeeps
             \/ \E q : Examines(c, q)
             \/ \E q : Evaluates(c, q)
  <2>1. CASE \E q : Passive(c, q) /\ breaker' = breaker
    BY <1>2, <2>1
  <2>2. CASE Poll(c)
    BY <2>1, <2>2, PollMoves
  <2>3. CASE Answer(c)
    BY <1>1, <2>3, AnswerMoves
  <2>4. CASE Route(c) \/ HandleMalformedPayload(c)
    BY <2>1, <2>4, RoutingMoves
  <2>5. CASE Examine(c)
    BY <1>1, <2>5, ExamineMoves
  <2>6. CASE Evaluate(c)
    BY <2>6, EvaluateMoves
  <2>7. CASE AutoClose(c) \/ RaiseIncident(c)
    BY <2>7, ThroughSteps
  <2>8. CASE PeriodicFlush(c) \/ Close(c)
    BY <2>1, <2>8, DrainingMoves
  <2>9. CASE Reconnect(c)
    BY <2>1, <2>9, ReconnectMoves
  <2>10. CASE Stop(c)
    BY <2>1, <2>10, StopMoves
  <2>11. CASE Restart(c) \/ Kill(c)
    BY <2>1, <2>11, RestartMoves
  <2>12. CASE Snapshot(c)
    BY <1>1, <2>1, <2>12, SnapshotMoves
  <2> QED
    BY <1>3, <2>2, <2>3, <2>4, <2>5, <2>6, <2>7, <2>8, <2>9, <2>10, <2>11, <2>12
       DEF Step
<1>4. \/ \E c \in Consumers : \/ Step(c) \/ Stop(c) \/ Kill(c) \/ Snapshot(c)
      \/ Probe \/ (\E pass \in BOOLEAN : Verdict(pass)) \/ Tick \/ UNCHANGED vars
  BY DEF Next
<1> QED
  BY <1>3, <1>4, RestSteps

(* The steps of a consumer, whichever they are.                               *)
StepOf(c, q) ==
  /\ Moves(c, q) /\ BreakerKeeps
  /\ Passive(c, q) \/ Examines(c, q) \/ Evaluates(c, q)

(* Every step rests or is one of a consumer.                                  *)
LEMMA IngestStepOf ==
  ASSUME IngestTyped, [Next]_vars
  PROVE  Rests \/ \E c \in Consumers : \E q : StepOf(c, q)
BY IngestSteps DEF StepOf, Passive, Examines, Evaluates

(* Every step keeps the parts of consumers and breaker.                       *)
LEMMA IngestTypedKept ==
  ASSUME IngestTyped, [Next]_vars
  PROVE  IngestTyped'
<1>1. CASE Rests
  BY <1>1 DEF Rests, IngestTyped, BreakerKeeps
<1>2. ASSUME NEW c \in Consumers, NEW q, StepOf(c, q) PROVE IngestTyped'
  <2>1. /\ Becomes(c, q) /\ ConsumerFits(q) /\ now' = now /\ faults' \in Nat
        /\ BreakerFits(breaker')
    BY <1>2 DEF StepOf, Moves, KeepsExcuse, BreakerKeeps
  <2>2. \A d \in Consumers : ConsumerFits(con[d])
    BY DEF IngestTyped
  <2>3. ASSUME NEW d \in Consumers PROVE ConsumerFits(con'[d])
    <3>1. CASE d = c
      BY <2>1, <3>1 DEF Becomes
    <3>2. CASE d # c
      BY <2>1, <2>2, <3>2 DEF Becomes
    <3> QED
      BY <3>1, <3>2
  <2> QED
    BY <2>1, <2>3 DEF IngestTyped, Becomes
<1> QED
  BY <1>1, <1>2, IngestStepOf

(* The parts of consumers and breaker at the start.                           *)
LEMMA IngestTypedAtFirst ==
  ASSUME Init PROVE IngestTyped
<1>1. \A c \in Consumers : First[c] \in Nat
  BY IngestConfig
<1>2. con = [c \in Consumers |-> NewConsumer(First[c])] /\ now = 0 /\ faults = 0
  BY DEF Init
<1>3. ASSUME NEW c \in Consumers PROVE ConsumerFits(con[c])
  <2>1. con[c] = NewConsumer(First[c])
    BY <1>2
  <2> QED
    BY <1>1, <2>1, NewConsumerFields
<1>4. BreakerFits(breaker)
  BY DEF Init, NewBreaker, BreakerFits
<1> QED
  BY <1>2, <1>3, <1>4 DEF IngestTyped
-------------------------------------------------------------------------------

(* What Accounted says of one consumer that is at r.                          *)
HeldBy(c, r) ==
  \A i \in First[c]..(r.pos - 1) :
    IsInvalid(i) => \/ <<c, i>> \in table \cup lost \cup killed
                    \/ IsInHand(r, i) \/ InBuffer(r, i)

(* The invariant is this of every consumer.                                   *)
LEMMA AccountedByConsumer ==
  Accounted <=> \A c \in Consumers : HeldBy(c, con[c])
<1>1. ASSUME NEW c \in Consumers, NEW i
      PROVE  /\ <<c, i>> \in InHand(c) <=> IsInHand(con[c], i)
             /\ i \in ToSet(con[c].buffer) <=> InBuffer(con[c], i)
  BY DEF InHand, IsInHand, ToSet, InBuffer
<1> QED
  BY <1>1 DEF Accounted, HeldBy, IsInvalid

(* A message is taken in with the duty to route it, and the duty ends with a  *)
(* flush that leaves its record in the table or the buffer, or with the       *)
(* process or the writer.                                                     *)
LEMMA HeldAfterStep ==
  ASSUME NEW c \in Consumers, NEW r, NEW q, ConsumerFits(r), ConsumerFits(q), HeldBy(c, r),
         HandlesRecords(c, r, q)
  PROVE  \A i \in First[c]..(q.pos - 1) :
           IsInvalid(i) => \/ <<c, i>> \in table' \cup lost' \cup killed'
                           \/ IsInHand(q, i) \/ InBuffer(q, i)
<1> SUFFICES ASSUME NEW i \in First[c]..(q.pos - 1), IsInvalid(i)
             PROVE  \/ <<c, i>> \in table' \cup lost' \cup killed'
                    \/ IsInHand(q, i) \/ InBuffer(q, i)
  OBVIOUS
<1>1. r.pos \in Nat /\ q.pos \in Nat /\ First[c] \in Nat
  BY IngestConfig DEF ConsumerFits
<1>2. ASSUME i \in First[c]..(r.pos - 1)
      PROVE  \/ <<c, i>> \in table' \cup lost' \cup killed'
             \/ IsInHand(r, i) \/ InBuffer(r, i)
  BY <1>2 DEF HeldBy, HandlesRecords
<1>3. CASE KeepsRecords(r, q)
  <2>1. i \in First[c]..(r.pos - 1)
    BY <1>3 DEF KeepsRecords, SameRange
  <2>2. (IsInHand(r, i) => IsInHand(q, i)) /\ (InBuffer(r, i) => InBuffer(q, i))
    BY <1>3 DEF KeepsRecords, IsInHand, InBuffer
  <2> QED
    BY <1>2, <2>1, <2>2
<1>4. CASE TakesMessage(r, q)
  <2>1. ~IsInHand(r, i) /\ (InBuffer(r, i) => InBuffer(q, i))
    BY <1>4 DEF TakesMessage, IsInHand, InBuffer
  <2>2. CASE i = r.pos
    BY <1>4, <2>2 DEF TakesMessage
  <2>3. CASE i # r.pos
    <3>1. i \in First[c]..(r.pos - 1)
      BY <1>1, <1>4, <2>3 DEF TakesMessage
    <3> QED
      BY <1>2, <2>1, <3>1
  <2> QED
    BY <2>2, <2>3
<1>5. CASE FlushesRecords(c, r, q)
  <2>1. i \in First[c]..(r.pos - 1)
    BY <1>5 DEF FlushesRecords, SameRange
  <2>2. InBuffer(r, i) \/ IsInHand(r, i) => <<c, i>> \in table' \/ InBuffer(q, i)
    BY <1>5 DEF FlushesRecords
  <2> QED
    BY <1>2, <2>1, <2>2
<1>6. CASE StartsOver(c, r, q)
  <2>1. i \in First[c]..(r.pos - 1)
    BY <1>1, <1>6 DEF StartsOver
  <2>2. InBuffer(r, i) \/ IsInHand(r, i) => <<c, i>> \in table' \cup lost' \cup killed'
    BY <1>6 DEF StartsOver
  <2> QED
    BY <1>2, <2>1, <2>2
<1> QED
  BY <1>3, <1>4, <1>5, <1>6 DEF HandlesRecords

(* A buffer that is left behind at the end of its loop is there after two     *)
(* failures, unless one of its records is refused: that is why what is lost   *)
(* is lost for cause.                                                         *)
SlipInv ==
  /\ IngestTyped /\ NothingInvalidSlips
  /\ \A c \in Consumers : Excused(con[c], faults)

(* A step of a consumer keeps account of its messages and of what it loses.   *)
LEMMA SlipKept ==
  ASSUME SlipInv, NEW c \in Consumers, NEW q, StepOf(c, q)
  PROVE  /\ NothingInvalidSlips'
         /\ \A d \in Consumers : Excused(con[d], faults)'
<1>1. /\ Becomes(c, q) /\ ConsumerFits(q) /\ HandlesRecords(c, con[c], q)
      /\ KeepsExcuse(con[c], q) /\ topic' = topic
  BY DEF StepOf, Moves
<1>2. /\ ConsumerFits(con[c]) /\ \A d \in Consumers : HeldBy(d, con[d])
      /\ \A d \in Consumers : Excused(con[d], faults)
      /\ LostForCause /\ faults \in Nat
  BY AccountedByConsumer DEF SlipInv, IngestTyped, NothingInvalidSlips
<1>3. /\ table \subseteq table' /\ lost \subseteq lost' /\ killed \subseteq killed'
      /\ faults' \in Nat /\ faults' >= faults
      /\ Excused(q, faults') /\ \A p \in lost' \ lost : HasCause(p)
  BY <1>1, <1>2 DEF HandlesRecords, KeepsExcuse
<1>4. con'[c] = q /\ \A d \in Consumers \ {c} : con'[d] = con[d]
  BY <1>1 DEF Becomes
<1>5. \A i \in First[c]..(q.pos - 1) :
        IsInvalid(i) => \/ <<c, i>> \in table' \cup lost' \cup killed'
                        \/ IsInHand(q, i) \/ InBuffer(q, i)
  BY <1>1, <1>2, HeldAfterStep
<1>6. ASSUME NEW d \in Consumers PROVE HeldBy(d, con[d])'
  <2>1. CASE d = c
    BY <1>1, <1>4, <1>5, <2>1 DEF HeldBy, IsInvalid, IsInHand, InBuffer, Kind
  <2>2. CASE d # c
    <3>1. con'[d] = con[d] /\ HeldBy(d, con[d])
      BY <1>2, <1>4, <2>2
    <3> QED
      BY <1>1, <1>3, <3>1 DEF HeldBy, IsInvalid, IsInHand, InBuffer, Kind
  <2> QED
    BY <2>1, <2>2
<1>7. Accounted'
  <2>1. ASSUME NEW d \in Consumers, NEW i
        PROVE  /\ IsInHand(con'[d], i) => <<d, i>> \in InHand(d)'
               /\ InBuffer(con'[d], i) => i \in ToSet(con'[d].buffer)
    BY DEF InHand, IsInHand, ToSet, InBuffer
  <2> QED
    BY <1>1, <1>6, <2>1 DEF Accounted, HeldBy, IsInvalid, Kind, IsInHand, InBuffer
<1>8. LostForCause'
  <2>1. ASSUME NEW p \in lost'
        PROVE  HasCause(p)
    <3>1. CASE p \in lost
      <4>1. faults >= 2 \/ \E s \in lost : s[1] = p[1] /\ Kind(s[2]) = "poison"
        BY <1>2, <3>1 DEF LostForCause
      <4> QED
        BY <1>2, <1>3, <4>1 DEF HasCause
    <3>2. CASE p \notin lost
      BY <1>3, <2>1, <3>2
    <3> QED
      BY <3>1, <3>2
  <2> QED
    BY <1>1, <2>1 DEF LostForCause, HasCause, Kind
<1>9. ASSUME NEW d \in Consumers PROVE Excused(con[d], faults)'
  <2>1. CASE d = c
    BY <1>1, <1>3, <1>4, <2>1 DEF Excused, HasPoison, Kind
  <2>2. CASE d # c
    <3>1. con'[d] = con[d] /\ Excused(con[d], faults)
      BY <1>2, <1>4, <2>2
    <3> QED
      BY <1>1, <1>2, <1>3, <3>1 DEF Excused, HasPoison, Kind
  <2> QED
    BY <2>1, <2>2
<1> QED
  BY <1>7, <1>8, <1>9 DEF NothingInvalidSlips

(* Every invalid message a consumer group has gone past, across connections   *)
(* and processes, is in the table, in a buffer, in hand, or with a writer or  *)
(* a process that is gone; and a writer leaves one behind only after a second *)
(* failure or in the company of one that the schema refuses (consume_stream,  *)
(* route_invalid_event, flush, __del__): for any number of consumers and      *)
(* messages, batch sizes, failing writes, stops, new connections, restarts    *)
(* and kills.                                                                 *)
THEOREM IngestNothingInvalidSlips == Spec => []NothingInvalidSlips
<1>1. Init => SlipInv
  <2> SUFFICES ASSUME Init PROVE SlipInv
    OBVIOUS
  <2>1. IngestTyped
    BY IngestTypedAtFirst
  <2>2. ASSUME NEW c \in Consumers
        PROVE  HeldBy(c, con[c]) /\ Excused(con[c], faults)
    <3>1. First[c] \in Nat /\ con[c] = NewConsumer(First[c])
      BY IngestConfig DEF Init
    <3>2. con[c].pos = First[c] /\ con[c].buffer = << >>
      BY <3>1, NewConsumerFields
    <3> QED
      BY <3>1, <3>2 DEF HeldBy, Excused
  <2>3. Accounted /\ LostForCause
    BY <2>2, AccountedByConsumer DEF Init, LostForCause
  <2> QED
    BY <2>1, <2>2, <2>3 DEF SlipInv, NothingInvalidSlips
<1>2. SlipInv /\ [Next]_vars => SlipInv'
  <2> SUFFICES ASSUME SlipInv, [Next]_vars PROVE SlipInv'
    OBVIOUS
  <2>1. IngestTyped /\ IngestTyped'
    BY IngestTypedKept DEF SlipInv
  <2>2. CASE Rests
    <3>1. /\ con' = con /\ table' = table /\ lost' = lost /\ killed' = killed
          /\ faults' = faults /\ topic' = topic
      BY <2>2 DEF Rests
    <3>2. NothingInvalidSlips /\ \A c \in Consumers : Excused(con[c], faults)
      BY DEF SlipInv
    <3>3. NothingInvalidSlips'
      BY <3>1, <3>2 DEF NothingInvalidSlips, Accounted, LostForCause, InHand, Kind
    <3>4. (\A c \in Consumers : Excused(con[c], faults))'
      BY <3>1, <3>2 DEF Excused, HasPoison, Kind
    <3> QED
      BY <2>1, <3>3, <3>4 DEF SlipInv
  <2>3. CASE \E c \in Consumers : \E q : StepOf(c, q)
    BY <2>1, <2>3, SlipKept DEF SlipInv
  <2> QED
    BY <2>1, <2>2, <2>3, IngestStepOf
<1>3. SlipInv => NothingInvalidSlips
  BY DEF SlipInv
<1> QED
  BY <1>1, <1>2, <1>3, PTL DEF Spec
-------------------------------------------------------------------------------

(* A consumer between its read of the state and its evaluation that read it   *)
(* as open finds it closed only if a recovery has been counted since.         *)
ReadOpen(r, b) ==
  r.pc = "evaluate" =>
    /\ r.closings \in Nat /\ r.closings <= b.successful_recoveries
    /\ r.old = "OPEN" /\ r.closings = b.successful_recoveries => b.state # "CLOSED"

RaiseInv == IngestTyped /\ \A c \in Consumers : ReadOpen(con[c], breaker)

(* What others do to the breaker meanwhile keeps this.                        *)
LEMMA ReadOpenKept ==
  ASSUME NEW r, ReadOpen(r, breaker), BreakerFits(breaker), BreakerKeeps
  PROVE  ReadOpen(r, breaker')
BY DEF ReadOpen, BreakerKeeps, ClosedByRecovery, BreakerFits

(* Every step of a consumer keeps what it and the others have read            *)
(* (validate_event).                                                          *)
LEMMA RaiseKept ==
  ASSUME RaiseInv, [Next]_vars
  PROVE  RaiseInv'
<1>1. IngestTyped /\ IngestTyped' /\ BreakerFits(breaker)
  BY IngestTypedKept DEF RaiseInv, IngestTyped
<1>2. \A c \in Consumers : ReadOpen(con[c], breaker)
  BY DEF RaiseInv
<1>3. CASE Rests
  <2>1. con' = con /\ BreakerKeeps
    BY <1>3 DEF Rests
  <2>2. \A c \in Consumers : ReadOpen(con[c], breaker')
    BY <1>1, <1>2, <2>1, ReadOpenKept
  <2> QED
    BY <1>1, <2>1, <2>2 DEF RaiseInv
<1>4. ASSUME NEW c \in Consumers, NEW q, StepOf(c, q) PROVE RaiseInv'
  <2>1. /\ con'[c] = q /\ \A d \in Consumers \ {c} : con'[d] = con[d]
        /\ BreakerKeeps
    BY <1>4 DEF StepOf, Moves, Becomes
  <2>2. ReadOpen(q, breaker')
    <3>1. CASE Passive(c, q)
      <4>1. ReadOpen(con[c], breaker')
        BY <1>1, <1>2, <2>1, ReadOpenKept
      <4> QED
        BY <3>1, <4>1 DEF Passive, ReadOpen
    <3>2. CASE Examines(c, q)
      BY <2>1, <3>2 DEF Examines, ReadOpen, BreakerKeeps, BreakerFits
    <3>3. CASE Evaluates(c, q)
      BY <3>3 DEF Evaluates, ReadOpen
    <3> QED
      BY <1>4, <3>1, <3>2, <3>3 DEF StepOf
  <2>3. ASSUME NEW d \in Consumers PROVE ReadOpen(con'[d], breaker')
    <3>1. CASE d = c
      BY <2>1, <2>2, <3>1
    <3>2. CASE d # c
      BY <1>1, <1>2, <2>1, <3>2, ReadOpenKept
    <3> QED
      BY <3>1, <3>2
  <2> QED
    BY <1>1, <2>3 DEF RaiseInv
<1> QED
  BY <1>1, <1>3, <1>4, IngestStepOf

(* Whoever opens the breaker by evaluate goes on to open the incident and to  *)
(* start the remediation (validate_event), whatever remediation,              *)
(* timeout and other consumers do between its read of the state and its       *)
(* evaluation; but for a breaker that it read as open and that has been       *)
(* closed by a recovery since.                                                *)
THEOREM IngestEveryTripIsRaised == Spec => EveryTripIsRaised
<1>1. Init => RaiseInv
  <2> SUFFICES ASSUME Init PROVE RaiseInv
    OBVIOUS
  <2>1. IngestTyped
    BY IngestTypedAtFirst
  <2>2. ASSUME NEW c \in Consumers PROVE ReadOpen(con[c], breaker)
    <3>1. First[c] \in Nat /\ con[c] = NewConsumer(First[c])
      BY IngestConfig DEF Init
    <3>2. con[c].pc = "poll"
      BY <3>1, NewConsumerFields
    <3> QED
      BY <3>2 DEF ReadOpen
  <2> QED
    BY <2>1, <2>2 DEF RaiseInv
<1>2. RaiseInv /\ [Next]_vars => RaiseInv'
  BY RaiseKept
<1>3. ASSUME RaiseInv, NEW c \in Consumers, Evaluate(c), Opens
      PROVE  con'[c].pc = "raise" \/ ClosedSinceRead(c)
  <2>1. PICK q : Evaluates(c, q) /\ con'[c] = q
    BY <1>3, EvaluateMoves DEF RaiseInv
  <2>2. /\ con[c].pc = "evaluate" /\ breaker.state = "CLOSED"
        /\ con[c].old # "OPEN" => con'[c].pc = "raise"
    BY <1>3, <2>1 DEF Evaluates
  <2>3. ASSUME con[c].old = "OPEN" PROVE ClosedSinceRead(c)
    <3>1. /\ con[c].closings \in Nat /\ con[c].closings <= breaker.successful_recoveries
          /\ con[c].closings # breaker.successful_recoveries
      BY <1>3, <2>2, <2>3 DEF RaiseInv, ReadOpen
    <3>2. breaker.successful_recoveries \in Nat
      BY <1>3 DEF RaiseInv, IngestTyped, BreakerFits
    <3> QED
      BY <2>3, <3>1, <3>2 DEF ClosedSinceRead
  <2> QED
    BY <2>2, <2>3
<1>4. RaiseInv /\ [Next]_vars
        => [\A c \in Consumers :
              Evaluate(c) /\ breaker.state # "OPEN" /\ breaker'.state = "OPEN"
                => con'[c].pc = "raise" \/ ClosedSinceRead(c)]_vars
  BY <1>3 DEF Opens
<1> QED
  BY <1>1, <1>2, <1>4, PTL DEF Spec, EveryTripIsRaised
-------------------------------------------------------------------------------

(* The window w is what is left of the history h behind its first d outcomes, *)
(* which are too old at time t; and the history is in the order of time.      *)
IsRest(w, h, d) ==
  /\ d \in 0..Len(h) /\ Len(w) = Len(h) - d
  /\ \A k \in 1..Len(w) : w[k] = h[k + d]

Timely(h, t) ==
  /\ \A i, j \in 1..Len(h) : i <= j => h[i].at <= h[j].at
  /\ \A i \in 1..Len(h) : h[i].at <= t

Outdated(h, d, t) == \A k \in 1..d : h[k].at < t - Window

Tracks(w, h, t) == Timely(h, t) /\ \E d \in Nat : IsRest(w, h, d) /\ Outdated(h, d, t)

(* The times of outcomes are numbers.                                         *)
LEMMA AtIsNat ==
  ASSUME NEW h \in Seq(Outcomes) PROVE Len(h) \in Nat /\ \A k \in 1..Len(h) : h[k].at \in Nat
<1>1. \A o \in Outcomes : o.at \in Nat
  BY DEF Outcomes
<1> QED
  BY <1>1

(* Time makes no outcome young again.                                         *)
LEMMA TracksLater ==
  ASSUME NEW w, NEW h \in Seq(Outcomes), NEW t \in Nat, NEW u \in Nat, t <= u, Window \in Nat,
         Tracks(w, h, t)
  PROVE  Tracks(w, h, u)
<1>1. PICK d \in Nat : IsRest(w, h, d) /\ Outdated(h, d, t)
  BY DEF Tracks
<1>2. Len(h) \in Nat /\ \A k \in 1..Len(h) : h[k].at \in Nat
  BY AtIsNat
<1>3. Timely(h, u)
  BY <1>2 DEF Tracks, Timely
<1>4. d <= Len(h)
  BY <1>1, <1>2 DEF IsRest
<1>5. Outdated(h, d, u)
  BY <1>1, <1>2, <1>4 DEF Outdated
<1> QED
  BY <1>1, <1>3, <1>5 DEF Tracks

(* Popping from the front drops old outcomes only, and keeps a rest of the    *)
(* history: WindowAggregator may be asked as often and by whom it likes.      *)
LEMMA TracksEvicted ==
  ASSUME NEW w \in Seq(Outcomes), NEW h \in Seq(Outcomes), now \in Nat, Window \in Nat,
         NEW d \in Nat, IsRest(w, h, d), Outdated(h, d, now)
  PROVE  LET n == Expired(w)
             v == Evicted(w)
         IN  /\ n \in Nat /\ IsRest(v, h, d + n) /\ Outdated(h, d + n, now)
             /\ v # << >> => v[1].at >= now - Window
<1> DEFINE n == Expired(w)
           v == Evicted(w)
<1>1. /\ IsExpired(w, n) /\ v \in Seq(Outcomes) /\ Len(v) = Len(w) - n
      /\ \A k \in 1..Len(v) : v[k] = w[k + n]
  BY EvictedFacts
<1> HIDE DEF n, v
<1>2. /\ Len(w) \in Nat /\ Len(h) \in Nat /\ Len(v) \in Nat
      /\ \A k \in 1..Len(h) : h[k].at \in Nat
  BY <1>1, AtIsNat
<1>3. n \in 0..Len(w) /\ n \in Nat /\ Len(w) = Len(h) - d /\ d \in 0..Len(h)
  BY <1>1, <1>2 DEF IsExpired, IsRest
<1>4. IsRest(v, h, d + n)
  <2>1. d + n \in 0..Len(h) /\ Len(v) = Len(h) - (d + n)
    BY <1>1, <1>2, <1>3
  <2>2. ASSUME NEW k \in 1..Len(v) PROVE v[k] = h[k + (d + n)]
    <3>1. k + n \in 1..Len(w) /\ (k + n) + d = k + (d + n)
      BY <1>1, <1>2, <1>3
    <3>2. v[k] = w[k + n] /\ w[k + n] = h[(k + n) + d]
      BY <1>1, <3>1 DEF IsRest
    <3> QED
      BY <3>1, <3>2
  <2> QED
    BY <2>1, <2>2 DEF IsRest
<1>5. ASSUME NEW k \in 1..(d + n) PROVE h[k].at < now - Window
  <2>1. CASE k <= d
    BY <1>5, <2>1 DEF Outdated
  <2>2. CASE ~(k <= d)
    <3>1. k - d \in 1..n /\ k - d \in 1..Len(w) /\ (k - d) + d = k
      BY <1>2, <1>3, <1>5, <2>2
    <3>2. w[k - d] = h[k] /\ w[k - d].at < now - Window
      <4>1. w[k - d] = h[(k - d) + d]
        BY <3>1 DEF IsRest
      <4>2. w[k - d].at < now - Window
        BY <1>1, <3>1 DEF IsExpired
      <4> QED
        BY <3>1, <4>1, <4>2
    <3> QED
      BY <3>2
  <2> QED
    BY <2>1, <2>2
<1>6. ASSUME v # << >> PROVE v[1].at >= now - Window
  <2>1. 1 \in 1..Len(v)
    BY <1>1, <1>2, <1>6
  <2>2. v[1] = w[1 + n] /\ n < Len(w) /\ 1 + n = n + 1
    BY <1>1, <1>2, <1>3, <2>1
  <2> QED
    BY <1>1, <2>2 DEF IsExpired
<1> QED
  BY <1>3, <1>4, <1>5, <1>6 DEF n, v, Outdated

(* The window goes on tracking the history through record_event_outcome, the  *)
(* evictions of calculate and of the snapshots, and a restart.                *)
LEMMA TracksKept ==
  ASSUME NEW r, NEW q, ConsumerFits(r), now \in Nat, Window \in Nat,
         Tracks(r.window, r.seen, now), HandlesWindow(r, q)
  PROVE  Tracks(q.window, q.seen, now)
<1> DEFINE w == r.window
           h == r.seen
<1>1. w \in Seq(Outcomes) /\ h \in Seq(Outcomes)
  BY DEF ConsumerFits
<1>2. PICK d \in Nat : IsRest(w, h, d) /\ Outdated(h, d, now)
  BY DEF Tracks
<1>3. Timely(h, now)
  BY DEF Tracks
<1>4. CASE q.window = w /\ q.seen = h
  BY <1>4
<1>5. CASE q.window = Evicted(w) /\ q.seen = h
  <2> DEFINE n == Expired(w)
             v == Evicted(w)
  <2> HIDE DEF w, h
  <2>1. n \in Nat /\ IsRest(v, h, d + n) /\ Outdated(h, d + n, now)
    BY <1>1, <1>2, TracksEvicted
  <2> HIDE DEF n, v
  <2>2. d + n \in Nat
    BY <2>1
  <2>3. Tracks(v, h, now)
    BY <1>3, <2>1, <2>2 DEF Tracks
  <2> QED
    BY <1>5, <2>3 DEF v
<1>6. ASSUME NEW valid \in BOOLEAN, NEW o, o = [at |-> now, valid |-> valid],
             q.window = Append(w, o), q.seen = Append(h, o)
      PROVE  Tracks(q.window, q.seen, now)
  <2>1. o.at = now /\ o \in Outcomes
    BY <1>6 DEF Outcomes
  <2> DEFINE g == Append(h, o)
             v == Append(w, o)
  <2> HIDE DEF w, h
  <2>2. /\ Len(w) \in Nat /\ Len(h) \in Nat /\ Len(g) = Len(h) + 1 /\ Len(v) = Len(w) + 1
        /\ g[Len(h) + 1] = o /\ v[Len(w) + 1] = o
        /\ \A k \in 1..Len(h) : g[k] = h[k]
        /\ \A k \in 1..Len(w) : v[k] = w[k]
        /\ \A k \in 1..Len(h) : h[k].at \in Nat
    BY <1>1, <2>1, AtIsNat
  <2> HIDE DEF g, v
  <2>3. Timely(g, now)
    <3>1. \A i \in 1..Len(h) : g[i].at = h[i].at /\ h[i].at <= now
      BY <1>3, <2>2 DEF Timely
    <3>2. \A i \in 1..Len(g) : i \in 1..Len(h) \/ i = Len(h) + 1
      BY <2>2
    <3>3. g[Len(h) + 1].at = now
      BY <2>1, <2>2
    <3>4. \A i \in 1..Len(g) : g[i].at <= now
      <4>1. now <= now
        OBVIOUS
      <4> QED
        BY <3>1, <3>2, <3>3, <4>1
    <3>5. ASSUME NEW i \in 1..Len(g), NEW j \in 1..Len(g), i <= j
          PROVE  g[i].at <= g[j].at
      <4>1. CASE j = Len(h) + 1
        BY <3>3, <3>4, <4>1
      <4>2. CASE j \in 1..Len(h)
        <5>1. i \in 1..Len(h)
          BY <2>2, <3>5, <4>2
        <5>2. h[i].at <= h[j].at
          BY <1>3, <3>5, <4>2, <5>1 DEF Timely
        <5> QED
          BY <3>1, <4>2, <5>1, <5>2
      <4> QED
        BY <3>2, <4>1, <4>2
    <3> QED
      BY <3>4, <3>5 DEF Timely
  <2>4. IsRest(v, g, d)
    <3>1. d \in 0..Len(g) /\ Len(v) = Len(g) - d
      BY <1>2, <2>2 DEF IsRest
    <3>2. ASSUME NEW k \in 1..Len(v) PROVE v[k] = g[k + d]
      <4>1. CASE k \in 1..Len(w)
        <5>1. k + d \in 1..Len(h)
          BY <1>2, <2>2, <4>1 DEF IsRest
        <5> QED
          BY <1>2, <2>2, <4>1, <5>1 DEF IsRest
      <4>2. CASE k \notin 1..Len(w)
        <5>1. k = Len(w) + 1 /\ k + d = Len(h) + 1
          BY <1>2, <2>2, <3>2, <4>2 DEF IsRest
        <5> QED
          BY <2>2, <5>1
      <4> QED
        BY <4>1, <4>2
    <3> QED
      BY <3>1, <3>2 DEF IsRest
  <2>5. Outdated(g, d, now)
    <3>1. \A k \in 1..d : k \in 1..Len(h)
      BY <1>2, <2>2 DEF IsRest
    <3> QED
      BY <1>2, <2>2, <3>1 DEF Outdated
  <2> QED
    BY <1>6, <2>3, <2>4, <2>5 DEF Tracks, g, v
<1>7. CASE q.window = << >> /\ q.seen = << >>
  BY <1>7 DEF Tracks, IsRest, Timely, Outdated
<1> QED
  BY <1>4, <1>5, <1>6, <1>7 DEF HandlesWindow

(* Counting by position in the window or by position in the history.          *)
LEMMA ShiftedCount ==
  ASSUME NEW d \in Nat, NEW S, IsFiniteSet(S), S \subseteq Nat, NEW T, T \subseteq Nat,
         \A x \in S : x + d \in T, \A y \in T : y - d \in S
  PROVE  Cardinality(T) = Cardinality(S)
<1> DEFINE f == [x \in S |-> x + d]
<1>1. f \in [S -> T]
  OBVIOUS
<1>2. \A y \in T : \E x \in S : f[x] = y
  <2> TAKE y \in T
  <2>1. y - d \in S /\ (y - d) + d = y
    OBVIOUS
  <2> QED
    BY <2>1
<1>3. \A x, y \in S : f[x] = f[y] => x = y
  OBVIOUS
<1> HIDE DEF f
<1>4. f \in Surjection(S, T)
  BY <1>1, <1>2 DEF Surjection
<1>5. f \in Injection(S, T)
  <2>1. DOMAIN f = S
    BY <1>1
  <2> QED
    BY <1>1, <1>3, <2>1 DEF Injection, IsInjective
<1> QED
  BY <1>4, <1>5, FS_Surjection

(* The evidence of a consumer at r: its outcomes within the window.           *)
RecentOf(h, t) == {k \in 1..Len(h) : h[k].at \in (t - Window)..t}
FailedOf(h, t) == {k \in RecentOf(h, t) : ~h[k].valid}

(* After an eviction the window holds exactly the recent outcomes, and its    *)
(* counts are theirs.                                                         *)
LEMMA WindowIsRecent ==
  ASSUME NEW w \in Seq(Outcomes), NEW h \in Seq(Outcomes), now \in Nat, Window \in Nat,
         Tracks(w, h, now)
  PROVE  LET v == Evicted(w)
         IN  /\ Len(v) = Cardinality(RecentOf(h, now))
             /\ Failures(v) = Cardinality(FailedOf(h, now))
<1> DEFINE n == Expired(w)
           v == Evicted(w)
<1>1. PICK d \in Nat : IsRest(w, h, d) /\ Outdated(h, d, now)
  BY DEF Tracks
<1>2. /\ n \in Nat /\ IsRest(v, h, d + n) /\ Outdated(h, d + n, now)
      /\ v # << >> => v[1].at >= now - Window
  BY <1>1, TracksEvicted
<1>3. v \in Seq(Outcomes)
  BY EvictedFacts
<1> DEFINE e == d + n
<1>4. e \in Nat
  BY <1>2
<1> HIDE DEF n, v
<1>5. Timely(h, now)
  BY DEF Tracks
<1> HIDE DEF e
<1>6. IsRest(v, h, e) /\ Outdated(h, e, now)
  BY <1>2 DEF e
<1>7. /\ Len(v) \in Nat /\ Len(h) \in Nat /\ e <= Len(h) /\ Len(v) = Len(h) - e
      /\ \A k \in 1..Len(h) : h[k].at \in Nat
  BY <1>3, <1>6, AtIsNat DEF IsRest
<1>8. \A k \in 1..Len(v) : k + e \in 1..Len(h) /\ v[k] = h[k + e]
  BY <1>4, <1>6, <1>7 DEF IsRest
<1>9. \A k \in RecentOf(h, now) : k - e \in 1..Len(v) /\ (k - e) + e = k
  <2> TAKE k \in RecentOf(h, now)
  <2>1. k \in 1..Len(h) /\ h[k].at >= now - Window
    BY <1>7 DEF RecentOf
  <2>2. ~(k <= e)
    BY <1>4, <1>6, <1>7, <2>1 DEF Outdated
  <2> QED
    BY <1>4, <1>7, <2>1, <2>2
<1>10. \A k \in 1..Len(v) : k + e \in RecentOf(h, now)
  <2> TAKE k \in 1..Len(v)
  <2>1. k + e \in 1..Len(h) /\ 1 + e \in 1..Len(h) /\ 1 + e <= k + e
    BY <1>4, <1>7
  <2>2. v[1] = h[1 + e] /\ v # << >>
    BY <1>3, <1>7, <1>8
  <2>3. h[1 + e].at >= now - Window
    BY <1>2, <2>2
  <2>4. h[1 + e].at <= h[k + e].at /\ h[k + e].at <= now
    BY <1>5, <2>1 DEF Timely
  <2> QED
    BY <1>7, <2>1, <2>3, <2>4 DEF RecentOf
<1>11. IsFiniteSet(1..Len(v)) /\ Cardinality(1..Len(v)) = Len(v)
  BY <1>7, FS_Interval
<1>12. Len(v) = Cardinality(RecentOf(h, now))
  <2>1. RecentOf(h, now) \subseteq Nat /\ 1..Len(v) \subseteq Nat
    BY <1>7 DEF RecentOf
  <2> QED
    BY <1>4, <1>9, <1>10, <1>11, <2>1, ShiftedCount
<1>13. Failures(v) = Cardinality(FailedOf(h, now))
  <2> DEFINE S == {k \in 1..Len(v) : ~v[k].valid}
             T == FailedOf(h, now)
  <2>1. IsFiniteSet(S)
    <3>1. S \in SUBSET (1..Len(v))
      OBVIOUS
    <3> QED
      BY <1>11, <3>1, FS_Subset
  <2>2. S \subseteq Nat /\ T \subseteq Nat
    BY <1>7 DEF RecentOf, FailedOf
  <2>3. \A x \in S : x + e \in T
    BY <1>8, <1>10 DEF FailedOf
  <2>4. \A y \in T : y - e \in S
    <3> TAKE y \in T
    <3>1. y \in RecentOf(h, now) /\ ~h[y].valid
      BY DEF FailedOf
    <3>2. y - e \in 1..Len(v) /\ (y - e) + e = y
      BY <1>9, <3>1
    <3>3. v[y - e] = h[y]
      BY <1>8, <3>2
    <3> QED
      BY <3>1, <3>2, <3>3
  <2>5. Failures(v) = Cardinality(S)
    BY <1>3, FailuresCounted
  <2> HIDE DEF S, T
  <2>6. Cardinality(T) = Cardinality(S)
    BY <1>4, <2>1, <2>2, <2>3, <2>4, ShiftedCount
  <2> QED
    BY <2>5, <2>6 DEF T
<1> QED
  BY <1>12, <1>13 DEF v

(* Between the read and the evaluation the metrics in hand are the counts of  *)
(* the recent outcomes at the time they were taken.                           *)
Evidenced(r) ==
  /\ r.metrics.total = Cardinality(RecentOf(r.seen, r.metrics.at))
  /\ r.metrics.failed = Cardinality(FailedOf(r.seen, r.metrics.at))

EvidenceInv ==
  /\ IngestTyped
  /\ \A c \in Consumers : Tracks(con[c].window, con[c].seen, now)
  /\ \A c \in Consumers : con[c].pc = "evaluate" => Evidenced(con[c])

(* Examine takes its metrics from a window it has just evicted, so they are   *)
(* the counts of the recent outcomes.                                         *)
LEMMA EvidenceTaken ==
  ASSUME IngestTyped, Window \in Nat, NEW c \in Consumers, NEW q, Examines(c, q),
         Tracks(con[c].window, con[c].seen, now)
  PROVE  Evidenced(q)
<1> DEFINE w == con[c].window
           h == con[c].seen
<1>1. w \in Seq(Outcomes) /\ h \in Seq(Outcomes) /\ now \in Nat
  BY DEF IngestTyped, ConsumerFits
<1>2. Tracks(w, h, now)
  OBVIOUS
<1>3. /\ q.window = Evicted(w) /\ q.seen = h /\ q.metrics.at = now
      /\ q.metrics.total = Len(q.window) /\ q.metrics.failed = Failures(q.window)
  BY DEF Examines
<1> HIDE DEF w, h
<1>4. /\ Len(Evicted(w)) = Cardinality(RecentOf(h, now))
      /\ Failures(Evicted(w)) = Cardinality(FailedOf(h, now))
  BY <1>1, <1>2, WindowIsRecent
<1> QED
  BY <1>3, <1>4 DEF Evidenced

(* Every step keeps the evidence in hand: no other step touches the metrics   *)
(* or the history of a consumer about to evaluate.                            *)
LEMMA EvidenceKept ==
  ASSUME EvidenceInv, [Next]_vars
  PROVE  EvidenceInv'
<1>1. IngestTyped /\ IngestTyped'
  BY IngestTypedKept DEF EvidenceInv
<1>2. Window \in Nat /\ now \in Nat /\ now' \in Nat
  BY <1>1, IngestConfig DEF IngestTyped
<1>3. /\ \A c \in Consumers : Tracks(con[c].window, con[c].seen, now)
      /\ \A c \in Consumers : con[c].pc = "evaluate" => Evidenced(con[c])
  BY DEF EvidenceInv
<1>4. CASE Rests
  <2>1. con' = con /\ now <= now'
    BY <1>4 DEF Rests
  <2>2. ASSUME NEW c \in Consumers PROVE Tracks(con[c].window, con[c].seen, now')
    <3> DEFINE w == con[c].window
               h == con[c].seen
    <3>1. h \in Seq(Outcomes) /\ Tracks(w, h, now)
      BY <1>1, <1>3 DEF IngestTyped, ConsumerFits
    <3> HIDE DEF w, h
    <3>2. Tracks(w, h, now')
      BY <1>2, <2>1, <3>1, TracksLater
    <3> QED
      BY <3>2 DEF w, h
  <2>3. \A c \in Consumers : Tracks(con[c].window, con[c].seen, now)'
    BY <2>1, <2>2 DEF Tracks, Timely, Outdated, IsRest
  <2>4. \A c \in Consumers : (con[c].pc = "evaluate" => Evidenced(con[c]))'
    BY <1>3, <2>1 DEF Evidenced, RecentOf, FailedOf
  <2> QED
    BY <1>1, <2>3, <2>4 DEF EvidenceInv
<1>5. ASSUME NEW c \in Consumers, NEW q, StepOf(c, q) PROVE EvidenceInv'
  <2>1. /\ con'[c] = q /\ \A d \in Consumers \ {c} : con'[d] = con[d]
        /\ now' = now /\ HandlesWindow(con[c], q)
    BY <1>5 DEF StepOf, Moves, Becomes
  <2>2. Tracks(q.window, q.seen, now)
    <3> DEFINE r == con[c]
    <3>1. ConsumerFits(r) /\ Tracks(r.window, r.seen, now) /\ HandlesWindow(r, q)
      BY <1>1, <1>3, <2>1 DEF IngestTyped
    <3> HIDE DEF r
    <3> QED
      BY <1>2, <3>1, TracksKept
  <2>3. ASSUME q.pc = "evaluate" PROVE Evidenced(q)
    <3>1. CASE Passive(c, q)
      <4>1. q.metrics = con[c].metrics /\ q.seen = con[c].seen /\ Evidenced(con[c])
        BY <1>3, <2>3, <3>1 DEF Passive
      <4> QED
        BY <4>1 DEF Evidenced
    <3>2. CASE Examines(c, q)
      BY <1>1, <1>2, <1>3, <3>2, EvidenceTaken
    <3>3. CASE Evaluates(c, q)
      BY <2>3, <3>3 DEF Evaluates
    <3> QED
      BY <1>5, <3>1, <3>2, <3>3 DEF StepOf
  <2>4. ASSUME NEW d \in Consumers
        PROVE  /\ Tracks(con'[d].window, con'[d].seen, now)
               /\ con'[d].pc = "evaluate" => Evidenced(con'[d])
    <3>1. CASE d = c
      BY <2>1, <2>2, <2>3, <3>1
    <3>2. CASE d # c
      BY <1>3, <2>1, <3>2
    <3> QED
      BY <3>1, <3>2
  <2>5. \A d \in Consumers : Tracks(con[d].window, con[d].seen, now)'
    BY <2>1, <2>4 DEF Tracks, Timely, Outdated, IsRest
  <2>6. \A d \in Consumers : (con[d].pc = "evaluate" => Evidenced(con[d]))'
    BY <2>4 DEF Evidenced, RecentOf, FailedOf
  <2> QED
    BY <1>1, <2>5, <2>6 DEF EvidenceInv
<1> QED
  BY <1>1, <1>4, <1>5, IngestStepOf

(* Who opens the breaker has more failures among its recent outcomes than the *)
(* threshold allows (calculate and evaluate): the metrics it evaluates are    *)
(* those of the window, whoever else has evicted records from it, and the     *)
(* rounding of the rate never trips by itself.                                *)
THEOREM IngestTripsOnEvidence == Spec => TripsOnEvidence
<1>1. Init => EvidenceInv
  <2> SUFFICES ASSUME Init PROVE EvidenceInv
    OBVIOUS
  <2>1. IngestTyped
    BY IngestTypedAtFirst
  <2>2. ASSUME NEW c \in Consumers
        PROVE  con[c].window = << >> /\ con[c].seen = << >> /\ con[c].pc = "poll"
    <3>1. First[c] \in Nat /\ con[c] = NewConsumer(First[c])
      BY IngestConfig DEF Init
    <3> QED
      BY <3>1, NewConsumerFields
  <2>3. Tracks(<< >>, << >>, now)
    BY DEF Tracks, Timely, Outdated, IsRest
  <2> QED
    BY <2>1, <2>2, <2>3 DEF EvidenceInv
<1>2. EvidenceInv /\ [Next]_vars => EvidenceInv'
  BY EvidenceKept
<1>3. ASSUME EvidenceInv, NEW c \in Consumers, Evaluate(c), Opens
      PROVE  Scale * Cardinality({k \in Recent(c) : ~con[c].seen[k].valid})
               > ErrorThreshold * Cardinality(Recent(c))
  <2> DEFINE m == con[c].metrics
             h == con[c].seen
  <2>1. IngestTyped /\ Scale \in Nat /\ ErrorThreshold \in Nat
    BY <1>3, IngestConfig, BreakerConfig DEF EvidenceInv
  <2>2. m \in Metrics /\ h \in Seq(Outcomes)
    BY <1>3, <2>1 DEF IngestTyped, ConsumerFits
  <2>3. con[c].pc = "evaluate" /\ ErrorRate(m) > ErrorThreshold
    BY <1>3, <2>1, EvaluateMoves DEF Evaluates
  <2>4. m.total = Cardinality(RecentOf(h, m.at)) /\ m.failed = Cardinality(FailedOf(h, m.at))
    BY <1>3, <2>3 DEF EvidenceInv, Evidenced
  <2>5. Recent(c) = RecentOf(h, m.at)
    BY <2>2 DEF Recent, RecentOf
  <2>6. {k \in Recent(c) : ~con[c].seen[k].valid} = FailedOf(h, m.at)
    BY <2>5 DEF FailedOf
  <2> HIDE DEF m, h
  <2>7. Scale * m.failed > ErrorThreshold * m.total
    BY <2>1, <2>2, <2>3, RateFacts
  <2> QED
    BY <2>4, <2>5, <2>6, <2>7 DEF h
<1>4. EvidenceInv /\ [Next]_vars
        => [\A c \in Consumers :
              Evaluate(c) /\ breaker'.state = "OPEN" /\ breaker.state # "OPEN"
                => Scale * Cardinality({k \in Recent(c) : ~con[c].seen[k].valid})
                     > ErrorThreshold * Cardinality(Recent(c))]_vars
  BY <1>3 DEF Opens
<1> QED
  BY <1>1, <1>2, <1>4, PTL DEF Spec, TripsOnEvidence
===============================================================================
