-------------------------- MODULE IncidentStoreProofs --------------------------
(***************************************************************************)
(* Proofs about IncidentStore, for any threads, processes, limits and      *)
(* bounds. The table is written by whole rows from copies read earlier:    *)
(* the inductive invariant says what the copy of each thread is worth, and *)
(* that the copy is the row as long as nobody wrote behind its back.       *)
(***************************************************************************)
EXTENDS IncidentStore, FiniteSetTheorems, TLAPS

IncidentRow == [status : Statuses, attempt : Nat, resolved : BOOLEAN]

Pcs == {"idle", "find", "generate", "create", "check", "merge", "write",
        "load", "start", "finish", "recover", "log"}

Call == [op : Ops \cup {"none", "alert", "alert_error"}, pc : Pcs,
         id : Nat, row : IncidentRow \cup {NoRow}]

TypeOK ==
  /\ rows \in [Ids -> IncidentRow \cup {NoRow}]
  /\ call \in [Threads -> Call]
  /\ calls \in Nat /\ faults \in Nat
  /\ runs \in [Ids -> Nat]
  /\ split \in BOOLEAN

(* Where a thread holds a copy of a row that it is going to write.            *)
Copying == {"write", "start", "finish", "recover"}

Recorded(id, number) ==
  [incident |-> id, number |-> number, stage |-> "RE_INGESTING"] \in attempts

(* What a call is worth, at each of its statements: the incident is there or  *)
(* yet to be created, the copy counts no run too many, is still the row       *)
(* unless somebody wrote behind the back of a writer, and claims a recovery   *)
(* only with its record.                                                      *)
CallInv(t) ==
  LET r == call[t]
  IN  /\ r.pc \in {"find", "generate", "create"} => r.op \in {"raise", "report"}
      /\ r.op = "alert" => r.pc \in {"merge", "write"}
      /\ r.pc \in {"find", "generate", "create", "check"} => r.row = NoRow
      /\ r.pc = "create" => r.id \in Ids /\ (r.id \in Known => r.id \in raced)
      /\ r.pc \in {"check", "merge", "load", "log"} \cup Copying => r.id \in Known
      /\ r.pc \in Copying => /\ r.row # NoRow
                             /\ r.row.attempt <= runs[r.id]
                             /\ r.id \notin raced => r.row = rows[r.id]
      /\ r.row.status = "RECOVERED" => Recorded(r.id, r.row.attempt)
      /\ r.pc = "recover" => Recorded(r.id, r.row.attempt)

(* _INCIDENT_LOCK: one creation of the service at a time in a process.        *)
LockHeld ==
  \A t, u \in Threads :
    HoldsLock(call[t]) /\ HoldsLock(call[u]) /\ Home[t] = Home[u] => t = u

(* While nothing is split, a thread creates an incident only when none is     *)
(* active, and two are never active.                                          *)
ActiveOnce ==
  ~split => /\ \A i, j \in ActiveIds : i = j
            /\ \A t \in Threads : Creating(call[t]) => ActiveIds = {}

IInv ==
  /\ TypeOK
  /\ \A t \in Threads : CallInv(t)
  /\ LockHeld
  /\ ActiveOnce
  /\ \A id \in Ids : rows[id] = NoRow => runs[id] = 0
  /\ AttemptsCounted
  /\ RemediatingMeansRunning
  /\ RecoveredIsRecorded
-------------------------------------------------------------------------------

(* The greatest of the incident numbers is one of them and none exceeds it:   *)
(* the number after it (generate_incident_id) is not taken.                   *)
LEMMA GreatestNumber ==
  ASSUME NEW S \in SUBSET (0..MaxIncidents), S # {}
  PROVE  Max(S) \in S /\ \A n \in S : n <= Max(S)
<1> DEFINE T == {n \in Nat : MaxIncidents - n \in S}
           R == OpToRel(<, Nat)
<1>1. MaxIncidents \in Nat
  BY StoreConfig
<1>2. PICK m \in S : m \in 0..MaxIncidents
  OBVIOUS
<1>3. MaxIncidents - m \in T
  BY <1>1, <1>2
<1>4. IsWellFoundedOn(R, Nat) /\ T \subseteq Nat /\ T # {}
  BY <1>3, NatLessThanWellFounded
<1>5. PICK x \in T : \A y \in T : ~ (<<y, x>> \in R)
  <2> HIDE DEF T, R
  <2> QED
    BY <1>4, WFMin
<1>6. \A y \in T : ~(y < x)
  BY <1>5 DEF OpToRel
<1>7. \A n \in S : n <= MaxIncidents - x
  <2>1. ASSUME NEW n \in S PROVE n <= MaxIncidents - x
    <3>1. n \in Nat /\ MaxIncidents - n \in Nat /\ MaxIncidents - (MaxIncidents - n) = n
      BY <1>1
    <3>2. ~(MaxIncidents - n < x)
      BY <1>6, <3>1
    <3>3. x \in Nat
      BY <1>5
    <3> HIDE DEF T, R
    <3> QED
      BY <1>1, <3>1, <3>2, <3>3
  <2> QED
    BY <2>1
<1>8. \E g \in S : \A n \in S : g >= n
  BY <1>1, <1>5, <1>7
<1>9. Max(S) \in S /\ \A n \in S : Max(S) >= n
  <2> HIDE DEF T, R
  <2> QED
    BY <1>8 DEF Max
<1> QED
  BY <1>1, <1>9
-------------------------------------------------------------------------------

(* What one write of a row does: the row is the new one, the others stay, and *)
(* whoever else was going to write the same incident now has an old copy.     *)
LEMMA RowWritten ==
  ASSUME TypeOK, NEW t \in Threads, NEW id \in Ids, NEW new \in IncidentRow,
         CreateIncident(t, id, new)
  PROVE  /\ rows' \in [Ids -> IncidentRow \cup {NoRow}]
         /\ rows'[id] = new
         /\ \A i \in Ids \ {id} : rows'[i] = rows[i]
         /\ new # NoRow /\ new.status \in Statuses
         /\ raced \subseteq raced' /\ raced' \subseteq raced \cup {id}
         /\ \A u \in Threads \ {t} : call[u].id = id /\ Pending(call[u]) => id \in raced'
<1>1. new # NoRow /\ new.status \in Statuses
  BY DEF IncidentRow, NoRow, Statuses
<1>2. rows' = [rows EXCEPT ![id] = new]
  BY DEF CreateIncident, Upsert
<1>3. /\ rows' \in [Ids -> IncidentRow \cup {NoRow}]
      /\ rows'[id] = new
      /\ \A i \in Ids \ {id} : rows'[i] = rows[i]
  BY <1>2 DEF TypeOK
<1>4. /\ raced \subseteq raced' /\ raced' \subseteq raced \cup {id}
      /\ \A u \in Threads \ {t} : call[u].id = id /\ Pending(call[u]) => id \in raced'
  BY DEF CreateIncident
<1> QED
  BY <1>1, <1>3, <1>4

(* A goto moves one thread.                                                   *)
LEMMA GotoFields ==
  ASSUME TypeOK, NEW t \in Threads, NEW r \in Call, Goto(t, r)
  PROVE  /\ call' \in [Threads -> Call]
         /\ call'[t] = r
         /\ \A u \in Threads \ {t} : call'[u] = call[u]
BY DEF TypeOK, Goto

(* An idle thread claims nothing.                                             *)
LEMMA IdleFits ==
  /\ Idle \in Call
  /\ ~HoldsLock(Idle) /\ ~Creating(Idle)
  /\ \A t \in Threads : call[t] = Idle => CallInv(t)
<1>1. Idle \in Call
  BY DEF Idle, Call, Pcs
<1>2. ~HoldsLock(Idle) /\ ~Creating(Idle)
  BY DEF Idle, HoldsLock, Creating
<1>3. \A t \in Threads : call[t] = Idle => CallInv(t)
  BY DEF Idle, CallInv, Copying, NoRow
<1> QED
  BY <1>1, <1>2, <1>3

(* A statement of another thread leaves a call worth what it was: it only     *)
(* adds attempts and runs, and a row it writes races with the copy of it.     *)
LEMMA OthersKeep ==
  ASSUME IInv, NEW t \in Threads, NEW u \in Threads, u # t, call'[u] = call[u],
         attempts \subseteq attempts',
         runs' \in [Ids -> Nat], \A i \in Ids : runs[i] <= runs'[i],
         \/ UNCHANGED <<rows, raced>>
         \/ \E id \in Ids, new \in IncidentRow : CreateIncident(t, id, new)
  PROVE  CallInv(u)'
<1> DEFINE r == call[u]
<1>1. r \in Call /\ TypeOK /\ CallInv(u)
  BY DEF IInv, TypeOK
<1>2. /\ Known \subseteq Known' /\ raced \subseteq raced'
      /\ r.pc = "create" /\ r.id \in Known' => r.id \in raced'
      /\ r.pc \in Copying /\ r.id \notin raced' => r.row = rows'[r.id]
  <2>1. CASE UNCHANGED <<rows, raced>>
    BY <1>1, <2>1 DEF Known, CallInv
  <2>2. ASSUME NEW id \in Ids, NEW new \in IncidentRow, CreateIncident(t, id, new)
        PROVE  <1>2
    <3>1. /\ rows'[id] = new /\ new # NoRow
          /\ \A i \in Ids \ {id} : rows'[i] = rows[i]
          /\ raced \subseteq raced'
          /\ r.id = id /\ Pending(r) => id \in raced'
      BY <1>1, <2>2, RowWritten
    <3>2. r.pc = "create" \/ r.pc \in Copying => Pending(r)
      BY DEF Copying, Pending
    <3>3. Known' = Known \cup {id}
      BY <3>1 DEF Known
    <3>4. r.pc \in Copying => r.id \in Ids
      BY <1>1 DEF CallInv, Known
    <3> QED
      BY <1>1, <3>1, <3>2, <3>3, <3>4 DEF CallInv
  <2> QED
    BY <2>1, <2>2
<1>3. r.pc \in Copying => r.id \in Ids /\ r.row.attempt \in Nat
  BY <1>1 DEF CallInv, Known, Call, IncidentRow, NoRow
<1>4. r.pc \in Copying => r.row.attempt <= runs'[r.id]
  <2>1. \A a, b, c \in Nat : a <= b /\ b <= c => a <= c
    OBVIOUS
  <2>2. r.pc \in Copying => runs[r.id] \in Nat /\ runs'[r.id] \in Nat
    BY <1>1, <1>3 DEF TypeOK
  <2> QED
    BY <1>1, <1>3, <2>1, <2>2 DEF CallInv
<1>5. \A i, n : Recorded(i, n) => Recorded(i, n)'
  BY DEF Recorded
<1> QED
  BY <1>1, <1>2, <1>4, <1>5 DEF CallInv
-------------------------------------------------------------------------------

(* A statement that writes no row: what moves is the thread. It keeps to the  *)
(* lock, goes on to create only when no incident is active, and does not      *)
(* leave a remediation under way.                                             *)
LEMMA ReadKeeps ==
  ASSUME IInv, NEW t \in Threads, NEW r \in Call, Goto(t, r),
         attempts \subseteq attempts', calls' \in Nat, faults' \in Nat,
         UNCHANGED <<rows, history>>,
         CallInv(t)',
         HoldsLock(r) => HoldsLock(call[t]) \/ (\A u \in Siblings(t) : ~HoldsLock(call[u])),
         Creating(r) => Creating(call[t]) \/ ActiveIds = {},
         call[t].pc \in {"finish", "recover"} =>
           r.pc \in {"finish", "recover"} /\ r.id = call[t].id
  PROVE  IInv'
<1>1. TypeOK /\ call' \in [Threads -> Call] /\ call'[t] = r
      /\ \A u \in Threads \ {t} : call'[u] = call[u]
  BY GotoFields DEF IInv
<1>2. TypeOK'
  BY <1>1 DEF TypeOK, history
<1>3. \A u \in Threads : CallInv(u)'
  <2>1. runs' \in [Ids -> Nat] /\ \A i \in Ids : runs[i] <= runs'[i]
    BY <1>1 DEF TypeOK, history
  <2>2. ASSUME NEW u \in Threads, u # t PROVE CallInv(u)'
    BY <1>1, <2>1, <2>2, OthersKeep DEF history
  <2> QED
    BY <2>2
<1>4. LockHeld'
  BY <1>1 DEF IInv, LockHeld, Siblings
<1>5. ActiveOnce'
  BY <1>1 DEF IInv, ActiveOnce, ActiveIds, history
<1>6. AttemptsCounted' /\ \A id \in Ids : rows'[id] = NoRow => runs'[id] = 0
  BY DEF IInv, AttemptsCounted, history
<1>7. RemediatingMeansRunning'
  <2> SUFFICES ASSUME NEW id \in Ids \ (raced \cup stranded), rows[id].status = "REMEDIATING"
               PROVE  \E u \in Threads : /\ call'[u].id = id
                                         /\ call'[u].pc \in {"finish", "recover"}
    BY DEF RemediatingMeansRunning, history
  <2>1. PICK u \in Threads : call[u].id = id /\ call[u].pc \in {"finish", "recover"}
    BY DEF IInv, RemediatingMeansRunning
  <2> QED
    BY <1>1, <2>1
<1>8. RecoveredIsRecorded'
  BY DEF IInv, RecoveredIsRecorded, history
<1> QED
  BY <1>2, <1>3, <1>4, <1>5, <1>6, <1>7, <1>8 DEF IInv

(* A statement that writes a row. The row counts no run too many, and all of  *)
(* them where the writer was not overtaken; a row that becomes active marks   *)
(* the history unless none was; a row in remediation has its run, and one     *)
(* that claims a recovery has its record.                                     *)
LEMMA WriteKeeps ==
  ASSUME IInv, NEW t \in Threads, NEW r \in Call, Goto(t, r),
         NEW id \in Ids, NEW new \in IncidentRow, CreateIncident(t, id, new),
         UNCHANGED <<attempts, calls, faults>>,
         runs' \in [Ids -> Nat], \A i \in Ids : runs[i] <= runs'[i],
         \A i \in Ids \ {id} : runs'[i] = runs[i],
         stranded \ {id} \subseteq stranded',
         split' \in BOOLEAN, split => split',
         CallInv(t)',
         HoldsLock(r) => HoldsLock(call[t]), ~Creating(r),
         new.attempt <= runs'[id],
         id \notin raced' => new.attempt = runs'[id],
         ~split' /\ new.status \in Active =>
           \/ id \in ActiveIds
           \/ ActiveIds = {} /\ \A u \in Threads \ {t} : ~Creating(call[u]),
         call[t].pc \in {"finish", "recover"} => call[t].id = id,
         new.status = "REMEDIATING" /\ id \notin raced' \cup stranded' =>
           \E u \in Threads : call'[u].id = id /\ call'[u].pc \in {"finish", "recover"},
         new.status = "RECOVERED" => Recorded(id, new.attempt)
  PROVE  IInv'
<1>1. TypeOK /\ call' \in [Threads -> Call] /\ call'[t] = r
      /\ \A u \in Threads \ {t} : call'[u] = call[u]
  BY GotoFields DEF IInv
<1>2. /\ rows' \in [Ids -> IncidentRow \cup {NoRow}]
      /\ rows'[id] = new
      /\ \A i \in Ids \ {id} : rows'[i] = rows[i]
      /\ new # NoRow
      /\ raced \subseteq raced'
  BY <1>1, RowWritten
<1>3. TypeOK'
  BY <1>1, <1>2 DEF TypeOK
<1>4. \A u \in Threads : CallInv(u)'
  <2>1. ASSUME NEW u \in Threads, u # t PROVE CallInv(u)'
    BY <1>1, <2>1, OthersKeep
  <2> QED
    BY <2>1
<1>5. LockHeld'
  BY <1>1 DEF IInv, LockHeld
<1>6. ActiveOnce'
  <2>1. ActiveIds' \subseteq ActiveIds \cup {id} /\ (id \in ActiveIds' <=> new.status \in Active)
    BY <1>2 DEF ActiveIds
  <2>2. ~split' => ActiveOnce /\ ~split
    BY DEF IInv
  <2> QED
    BY <1>1, <2>1, <2>2 DEF ActiveOnce
<1>7. AttemptsCounted' /\ \A i \in Ids : rows'[i] = NoRow => runs'[i] = 0
  BY <1>2 DEF IInv, AttemptsCounted
<1>8. RemediatingMeansRunning'
  <2> SUFFICES ASSUME NEW i \in Ids \ (raced' \cup stranded'), rows'[i].status = "REMEDIATING"
               PROVE  \E u \in Threads : /\ call'[u].id = i
                                         /\ call'[u].pc \in {"finish", "recover"}
    BY DEF RemediatingMeansRunning
  <2>1. CASE i = id
    BY <1>2, <2>1
  <2>2. CASE i # id
    <3>1. PICK u \in Threads : call[u].id = i /\ call[u].pc \in {"finish", "recover"}
      BY <1>2, <2>2 DEF IInv, RemediatingMeansRunning
    <3> QED
      BY <1>1, <2>2, <3>1
  <2> QED
    BY <2>1, <2>2
<1>9. RecoveredIsRecorded'
  BY <1>2 DEF IInv, RecoveredIsRecorded, Recorded
<1> QED
  BY <1>3, <1>4, <1>5, <1>6, <1>7, <1>8, <1>9 DEF IInv
-------------------------------------------------------------------------------

(* The invariant at the start: no incident, every thread idle.                *)
LEMMA InitInv == Init => IInv
<1> SUFFICES ASSUME Init PROVE IInv
  OBVIOUS
<1>1. TypeOK
  <2>1. rows \in [Ids -> IncidentRow \cup {NoRow}] /\ runs \in [Ids -> Nat]
    BY DEF Init
  <2>2. call \in [Threads -> Call]
    BY IdleFits DEF Init
  <2> QED
    BY <2>1, <2>2 DEF Init, TypeOK
<1>2. /\ \A t \in Threads : call[t] = Idle
      /\ \A id \in Ids : rows[id] = NoRow /\ runs[id] = 0 /\ rows[id].attempt = 0
      /\ \A id \in Ids : rows[id].status = "none"
  BY DEF Init, NoRow
<1>3. \A t \in Threads : CallInv(t)
  BY <1>2, IdleFits
<1>4. LockHeld
  BY <1>2, IdleFits DEF LockHeld
<1>5. ActiveOnce
  BY <1>2 DEF ActiveOnce, ActiveIds, Active
<1>6. AttemptsCounted /\ RemediatingMeansRunning /\ RecoveredIsRecorded
  BY <1>2 DEF AttemptsCounted, RemediatingMeansRunning, RecoveredIsRecorded
<1> QED
  BY <1>1, <1>2, <1>3, <1>4, <1>5, <1>6 DEF IInv

(* A call begins with no copy: a raise under the lock, the rest without it.   *)
LEMMA BeginKeeps ==
  ASSUME IInv, NEW t \in Threads,
         BeginRaise(t) \/ BeginReport(t) \/ BeginAction(t) \/ BeginRemediation(t)
  PROVE  IInv'
<1>1. /\ call[t].pc = "idle" /\ calls \in Nat /\ calls' = calls + 1
      /\ faults \in Nat /\ UNCHANGED <<rows, attempts, faults, history>>
  BY DEF IInv, TypeOK, BeginRaise, BeginReport, BeginAction, BeginRemediation, Begin
<1>2. calls' \in Nat /\ faults' \in Nat
  BY <1>1
<1>3. ASSUME NEW r \in Call, Goto(t, r), r.row = NoRow,
             \/ r.pc = "find" /\ r.op \in {"raise", "report"}
             \/ r.pc \in {"check", "load"} /\ r.op \in Ops \ {"raise"} /\ r.id \in Known,
             r.op = "raise" => \A u \in Siblings(t) : ~HoldsLock(call[u])
      PROVE  IInv'
  <2>1. call'[t] = r
    BY <1>3, GotoFields DEF IInv
  <2>2. CallInv(t)'
    BY <1>1, <1>3, <2>1 DEF CallInv, Known, Copying, NoRow, Ops
  <2>3. ~Creating(r) /\ (HoldsLock(r) <=> r.op = "raise")
    BY <1>3 DEF Creating, HoldsLock
  <2> QED
    BY <1>1, <1>2, <1>3, <2>2, <2>3, ReadKeeps
<1>4. CASE BeginRaise(t)
  <2> DEFINE r == [Idle EXCEPT !.op = "raise", !.pc = "find"]
  <2>1. r \in Call /\ r.op = "raise" /\ r.pc = "find" /\ r.row = NoRow
    BY DEF Idle, Call, Ops, Pcs
  <2>2. Goto(t, r) /\ \A u \in Siblings(t) : ~HoldsLock(call[u])
    BY <1>4 DEF BeginRaise
  <2> HIDE DEF r
  <2> QED
    BY <1>3, <2>1, <2>2
<1>5. CASE BeginReport(t)
  <2> DEFINE r == [Idle EXCEPT !.op = "report", !.pc = "find"]
  <2>1. r \in Call /\ r.op = "report" /\ r.pc = "find" /\ r.row = NoRow
    BY DEF Idle, Call, Ops, Pcs
  <2>2. Goto(t, r)
    BY <1>5 DEF BeginReport
  <2> HIDE DEF r
  <2> QED
    BY <1>3, <2>1, <2>2
<1>6. CASE BeginAction(t)
  <2>1. PICK op \in {"acknowledge", "resolve"}, id \in Known :
          Goto(t, [Idle EXCEPT !.op = op, !.pc = "check", !.id = id])
    BY <1>6 DEF BeginAction
  <2> DEFINE r == [Idle EXCEPT !.op = op, !.pc = "check", !.id = id]
  <2>2. id \in Nat /\ op \in Ops \ {"raise"}
    BY DEF Known, Ids, Ops
  <2>3. r \in Call /\ r.op = op /\ r.pc = "check" /\ r.id = id /\ r.row = NoRow
    BY <2>2 DEF Idle, Call, Pcs
  <2>4. Goto(t, r)
    BY <2>1
  <2> HIDE DEF r
  <2> QED
    BY <1>3, <2>2, <2>3, <2>4
<1>7. CASE BeginRemediation(t)
  <2>1. PICK id \in Known : Goto(t, [Idle EXCEPT !.op = "remediate", !.pc = "load", !.id = id])
    BY <1>7 DEF BeginRemediation
  <2> DEFINE r == [Idle EXCEPT !.op = "remediate", !.pc = "load", !.id = id]
  <2>2. id \in Nat /\ "remediate" \in Ops \ {"raise"}
    BY DEF Known, Ids, Ops
  <2>3. r \in Call /\ r.op = "remediate" /\ r.pc = "load" /\ r.id = id /\ r.row = NoRow
    BY <2>2 DEF Idle, Call, Pcs
  <2>4. Goto(t, r)
    BY <2>1
  <2> HIDE DEF r
  <2> QED
    BY <1>3, <2>2, <2>3, <2>4
<1> QED
  BY <1>4, <1>5, <1>6, <1>7
-------------------------------------------------------------------------------

(* A call that ends without a word: it was not at work on a remediation.      *)
LEMMA DoneKeeps ==
  ASSUME IInv, NEW t \in Threads, Done(t), attempts \subseteq attempts',
         UNCHANGED <<rows, calls, faults, history>>,
         call[t].pc \notin {"finish", "recover"}
  PROVE  IInv'
<1>1. Goto(t, Idle) /\ Idle \in Call /\ ~HoldsLock(Idle) /\ ~Creating(Idle)
  BY IdleFits DEF Done
<1>2. call'[t] = Idle
  BY <1>1, GotoFields DEF IInv
<1>3. CallInv(t)'
  BY <1>2 DEF Idle, CallInv, Copying, NoRow
<1>4. calls' \in Nat /\ faults' \in Nat
  BY DEF IInv, TypeOK
<1> QED
  BY <1>1, <1>3, <1>4, ReadKeeps

(* find_active_incident and generate_incident_id: a thread goes on to create  *)
(* only where none was active, and the number it takes is not taken.          *)
LEMMA FindKeeps == ASSUME IInv, NEW t \in Threads, Find(t) PROVE IInv'
<1>1. /\ call[t] \in Call /\ CallInv(t) /\ call[t].pc = "find"
      /\ calls' \in Nat /\ faults' \in Nat
      /\ UNCHANGED <<rows, attempts, calls, faults, history>>
  BY DEF IInv, TypeOK, Find, At
<1>2. CASE ActiveIds = {} /\ Goto(t, [call[t] EXCEPT !.pc = "generate"])
  <2> DEFINE r == [call[t] EXCEPT !.pc = "generate"]
  <2>1. r \in Call /\ r.pc = "generate" /\ r.op = call[t].op /\ r.row = call[t].row
    BY <1>1 DEF Call, Pcs
  <2>2. Goto(t, r)
    BY <1>2
  <2> HIDE DEF r
  <2>3. call'[t] = r
    BY <2>1, <2>2, GotoFields DEF IInv
  <2>4. CallInv(t)'
    BY <1>1, <2>1, <2>3 DEF CallInv, Copying, NoRow
  <2>5. HoldsLock(r) <=> HoldsLock(call[t])
    BY <2>1 DEF HoldsLock
  <2> QED
    BY <1>1, <1>2, <2>1, <2>2, <2>4, <2>5, ReadKeeps
<1>3. ASSUME NEW id \in ActiveIds, call[t].op = "raise",
             Goto(t, [call[t] EXCEPT !.pc = "merge", !.id = id])
      PROVE  IInv'
  <2> DEFINE r == [call[t] EXCEPT !.pc = "merge", !.id = id]
  <2>1. id \in Nat /\ id \in Known
    BY DEF ActiveIds, Known, Ids, NoRow, Active
  <2>2. r \in Call /\ r.pc = "merge" /\ r.op = call[t].op /\ r.row = call[t].row /\ r.id = id
    BY <1>1, <2>1 DEF Call, Pcs
  <2>3. Goto(t, r)
    BY <1>3
  <2> HIDE DEF r
  <2>4. call'[t] = r
    BY <2>2, <2>3, GotoFields DEF IInv
  <2>5. CallInv(t)'
    BY <1>1, <2>1, <2>2, <2>4 DEF CallInv, Copying, NoRow, Known
  <2>6. (HoldsLock(r) <=> HoldsLock(call[t])) /\ ~Creating(r)
    BY <2>2 DEF HoldsLock, Creating
  <2> QED
    BY <1>1, <2>2, <2>3, <2>5, <2>6, ReadKeeps
<1>4. CASE Done(t)
  BY <1>1, <1>4, DoneKeeps
<1> QED
  BY <1>2, <1>3, <1>4 DEF Find

(* generate_incident_id keeps the invariant: it reads the table and takes the *)
(* next number, and writes nothing.                                           *)
LEMMA GenerateKeeps == ASSUME IInv, NEW t \in Threads, Generate(t) PROVE IInv'
<1> DEFINE top == Max({0} \cup Known)
           r == [call[t] EXCEPT !.pc = "create", !.id = top + 1]
<1>1. /\ call[t] \in Call /\ CallInv(t) /\ call[t].pc = "generate"
      /\ calls' \in Nat /\ faults' \in Nat
      /\ UNCHANGED <<rows, attempts, calls, faults, history>>
      /\ top < MaxIncidents
      /\ Goto(t, r)
  BY DEF IInv, TypeOK, Generate, At
<1>2. top \in {0} \cup Known /\ \A n \in {0} \cup Known : n <= top
  <2>1. {0} \cup Known \in SUBSET (0..MaxIncidents) /\ {0} \cup Known # {}
    BY StoreConfig DEF Known, Ids
  <2> QED
    BY <2>1, GreatestNumber
<1>3. top \in Nat
  BY <1>2 DEF Known, Ids
<1> HIDE DEF top
<1>4. top + 1 \in Ids \ Known
  BY <1>1, <1>2, <1>3, StoreConfig DEF Ids
<1>5. r \in Call /\ r.pc = "create" /\ r.op = call[t].op /\ r.row = call[t].row /\ r.id = top + 1
  <2>1. \A id \in Nat : LET c == [call[t] EXCEPT !.pc = "create", !.id = id]
                        IN  /\ c \in Call /\ c.pc = "create" /\ c.op = call[t].op
                            /\ c.row = call[t].row /\ c.id = id
    BY <1>1 DEF Call, Pcs
  <2>2. top + 1 \in Nat
    BY <1>3
  <2> QED
    BY <2>1, <2>2
<1> HIDE DEF r
<1>6. call'[t] = r
  BY <1>1, <1>5, GotoFields DEF IInv
<1>7. CallInv(t)'
  BY <1>1, <1>4, <1>5, <1>6 DEF CallInv, Copying, NoRow, Known
<1>8. (HoldsLock(r) <=> HoldsLock(call[t])) /\ Creating(call[t])
  BY <1>1, <1>5 DEF HoldsLock, Creating, CallInv
<1> QED
  BY <1>1, <1>5, <1>7, <1>8, ReadKeeps

(* acknowledge_incident and resolve_incident look at the row; update_incident *)
(* reads it once more: the copy is the row.                                   *)
LEMMA CheckKeeps == ASSUME IInv, NEW t \in Threads, Check(t) PROVE IInv'
<1>1. /\ call[t] \in Call /\ CallInv(t) /\ call[t].pc = "check"
      /\ calls' \in Nat /\ faults' \in Nat
      /\ UNCHANGED <<rows, attempts, calls, faults, history>>
  BY DEF IInv, TypeOK, Check, At
<1>2. CASE Done(t)
  BY <1>1, <1>2, DoneKeeps
<1>3. CASE Goto(t, [call[t] EXCEPT !.pc = "merge"])
  <2> DEFINE r == [call[t] EXCEPT !.pc = "merge"]
  <2>1. /\ r \in Call /\ r.pc = "merge" /\ r.op = call[t].op /\ r.row = call[t].row
        /\ r.id = call[t].id
    BY <1>1 DEF Call, Pcs
  <2>2. Goto(t, r)
    BY <1>3
  <2> HIDE DEF r
  <2>3. call'[t] = r
    BY <2>1, <2>2, GotoFields DEF IInv
  <2>4. CallInv(t)'
    BY <1>1, <2>1, <2>3 DEF CallInv, Copying, NoRow, Known
  <2>5. (HoldsLock(r) <=> HoldsLock(call[t])) /\ ~Creating(r)
    BY <2>1 DEF HoldsLock, Creating
  <2> QED
    BY <1>1, <2>1, <2>2, <2>4, <2>5, ReadKeeps
<1> QED
  BY <1>2, <1>3 DEF Check

(* A copy that was just read is the row: it counts no run too many and claims *)
(* a recovery only with its record.                                           *)
LEMMA CopyIsRow ==
  ASSUME IInv, NEW id \in Known
  PROVE  /\ id \in Ids /\ rows[id] \in IncidentRow /\ rows[id].attempt <= runs[id]
         /\ rows[id].status = "RECOVERED" => Recorded(id, rows[id].attempt)
BY DEF IInv, TypeOK, Known, AttemptsCounted, RecoveredIsRecorded, Recorded

(* The read of the row by update_incident keeps the invariant: it changes no  *)
(* table.                                                                     *)
LEMMA MergeKeeps == ASSUME IInv, NEW t \in Threads, Merge(t) PROVE IInv'
<1> DEFINE id == call[t].id
           r == [call[t] EXCEPT !.pc = "write", !.row = rows[id]]
<1>1. /\ call[t] \in Call /\ CallInv(t) /\ call[t].pc = "merge"
      /\ calls' \in Nat /\ faults' \in Nat
      /\ UNCHANGED <<rows, attempts, calls, faults, history>>
      /\ Goto(t, r)
  BY DEF IInv, TypeOK, Merge, At
<1>2. id \in Known
  BY <1>1 DEF CallInv
<1>3. /\ id \in Ids /\ rows[id] \in IncidentRow /\ rows[id].attempt <= runs[id]
      /\ rows[id].status = "RECOVERED" => Recorded(id, rows[id].attempt)
  BY <1>2, CopyIsRow
<1>4. /\ r \in Call /\ r.pc = "write" /\ r.op = call[t].op /\ r.row = rows[id]
      /\ r.id = id
  BY <1>1, <1>3 DEF Call, Pcs
<1> HIDE DEF r
<1>5. call'[t] = r
  BY <1>1, <1>4, GotoFields DEF IInv
<1>6. CallInv(t)'
  BY <1>1, <1>2, <1>3, <1>4, <1>5 DEF CallInv, Copying, Known, Recorded, history
<1>7. (HoldsLock(r) <=> HoldsLock(call[t])) /\ ~Creating(r)
  BY <1>4 DEF HoldsLock, Creating
<1> QED
  BY <1>1, <1>4, <1>6, <1>7, ReadKeeps

(* execute_remediation loads the incident and goes on where the limit lets it.*)
LEMMA LoadKeeps == ASSUME IInv, NEW t \in Threads, Load(t) PROVE IInv'
<1> DEFINE id == call[t].id
           loaded == [call[t] EXCEPT !.row = rows[id]]
           r == [loaded EXCEPT !.pc = "start"]
<1>1. /\ call[t] \in Call /\ CallInv(t) /\ call[t].pc = "load"
      /\ calls' \in Nat /\ faults' \in Nat
      /\ UNCHANGED <<rows, attempts, calls, faults, history>>
      /\ Goto(t, AfterLoad(loaded))
  BY DEF IInv, TypeOK, Load, At
<1>2. id \in Known
  BY <1>1 DEF CallInv
<1>3. /\ id \in Ids /\ rows[id] \in IncidentRow /\ rows[id].attempt <= runs[id]
      /\ rows[id].status = "RECOVERED" => Recorded(id, rows[id].attempt)
  BY <1>2, CopyIsRow
<1>4. CASE Goto(t, Idle)
  BY <1>1, <1>4, DoneKeeps DEF Done
<1>5. CASE Goto(t, r)
  <2>1. loaded \in Call /\ loaded.op = call[t].op /\ loaded.row = rows[id] /\ loaded.id = id
    BY <1>1, <1>3 DEF Call
  <2> HIDE DEF loaded
  <2>2. /\ r \in Call /\ r.pc = "start" /\ r.op = call[t].op /\ r.row = rows[id]
        /\ r.id = id
    BY <2>1 DEF Call, Pcs
  <2> HIDE DEF r
  <2>3. call'[t] = r
    BY <1>5, <2>2, GotoFields DEF IInv
  <2>4. CallInv(t)'
    BY <1>1, <1>2, <1>3, <2>2, <2>3 DEF CallInv, Copying, Known, Recorded, history
  <2>5. (HoldsLock(r) <=> HoldsLock(call[t])) /\ ~Creating(r)
    BY <2>2 DEF HoldsLock, Creating
  <2> QED
    BY <1>1, <1>5, <2>2, <2>4, <2>5, ReadKeeps
<1> QED
  BY <1>1, <1>4, <1>5 DEF AfterLoad
-------------------------------------------------------------------------------

(* The attempt is recorded as re-ingested before the run claims anything.     *)
LEMMA ReingestKeeps == ASSUME IInv, NEW t \in Threads, Reingest(t) PROVE IInv'
<1> DEFINE r == [call[t] EXCEPT !.pc = "recover"]
<1>1. /\ call[t] \in Call /\ CallInv(t) /\ call[t].pc = "finish"
      /\ calls' \in Nat /\ faults' \in Nat
      /\ UNCHANGED <<rows, calls, faults, history>>
      /\ Record(t, "RE_INGESTING")
      /\ Goto(t, r)
  BY DEF IInv, TypeOK, Reingest, At
<1>2. /\ r \in Call /\ r.pc = "recover" /\ r.op = call[t].op /\ r.row = call[t].row
      /\ r.id = call[t].id
  BY <1>1 DEF Call, Pcs
<1> HIDE DEF r
<1>3. call'[t] = r
  BY <1>1, <1>2, GotoFields DEF IInv
<1>4. /\ attempts \subseteq attempts'
      /\ [incident |-> r.id, number |-> r.row.attempt, stage |-> "RE_INGESTING"] \in attempts'
  BY <1>1, <1>2 DEF Record
<1>5. CallInv(t)'
  <2>1. /\ r.id \in Known' /\ r.row # NoRow /\ r.row.attempt <= runs'[r.id]
        /\ r.id \notin raced' => r.row = rows'[r.id]
        /\ r.op # "alert"
    BY <1>1, <1>2 DEF CallInv, Copying, Known, history
  <2> QED
    BY <1>2, <1>3, <1>4, <2>1 DEF CallInv, Copying, Recorded
<1>6. (HoldsLock(r) <=> HoldsLock(call[t])) /\ ~Creating(r)
  BY <1>2 DEF HoldsLock, Creating
<1> QED
  BY <1>1, <1>2, <1>4, <1>5, <1>6, ReadKeeps

(* The record of the attempt, after the last write of the incident, keeps the *)
(* invariant.                                                                 *)
LEMMA LogKeeps == ASSUME IInv, NEW t \in Threads, Log(t) PROVE IInv'
<1>1. /\ call[t].pc = "log" /\ attempts \subseteq attempts' /\ Done(t)
      /\ UNCHANGED <<rows, calls, faults, history>>
  BY DEF Log, At, Record
<1> QED
  BY <1>1, DoneKeeps

(* Threads that lose their call, to an exception or with their process: what  *)
(* they were remediating is stranded, and nothing else is disturbed.          *)
LEMMA LossKeeps ==
  ASSUME IInv, NEW D \in SUBSET Threads,
         call' \in [Threads -> Call],
         \A u \in Threads \ D : call'[u] = call[u],
         \A t \in D : CallInv(t)' /\ ~HoldsLock(call'[t]) /\ ~Creating(call'[t]),
         \A t \in D : Strands(call[t]) \subseteq stranded',
         stranded \subseteq stranded',
         faults' \in Nat,
         UNCHANGED <<rows, attempts, calls, runs, raced, split>>
  PROVE  IInv'
<1>1. TypeOK'
  BY DEF IInv, TypeOK
<1>2. ASSUME NEW u \in Threads PROVE CallInv(u)'
  BY <1>2 DEF IInv, CallInv, Known, Recorded
<1>3. LockHeld'
  BY DEF IInv, LockHeld
<1>4. ActiveOnce'
  BY DEF IInv, ActiveOnce, ActiveIds
<1>5. AttemptsCounted' /\ \A id \in Ids : rows'[id] = NoRow => runs'[id] = 0
  BY DEF IInv, AttemptsCounted
<1>6. RemediatingMeansRunning'
  <2> SUFFICES ASSUME NEW id \in Ids \ (raced \cup stranded'), rows[id].status = "REMEDIATING"
               PROVE  \E u \in Threads : /\ call'[u].id = id
                                         /\ call'[u].pc \in {"finish", "recover"}
    BY DEF RemediatingMeansRunning
  <2>1. PICK u \in Threads : call[u].id = id /\ call[u].pc \in {"finish", "recover"}
    BY DEF IInv, RemediatingMeansRunning
  <2>2. u \notin D
    BY <2>1 DEF Strands
  <2> QED
    BY <2>1, <2>2
<1>7. RecoveredIsRecorded'
  BY DEF IInv, RecoveredIsRecorded
<1> QED
  BY <1>1, <1>2, <1>3, <1>4, <1>5, <1>6, <1>7 DEF IInv

(* A failing statement, which ends the call, or the alert's first try, keeps  *)
(* the invariant.                                                             *)
LEMMA FailKeeps == ASSUME IInv, NEW t \in Threads, Fail(t) PROVE IInv'
<1> DEFINE retry == [call[t] EXCEPT !.op = "alert_error", !.pc = "merge"]
<1>1. /\ TypeOK /\ call[t] \in Call /\ CallInv(t) /\ faults' \in Nat
      /\ stranded \subseteq stranded' /\ Strands(call[t]) \subseteq stranded'
      /\ UNCHANGED <<rows, attempts, calls, runs, raced, split>>
  BY DEF IInv, TypeOK, Fail
<1>2. CASE Done(t)
  <2>1. /\ call' \in [Threads -> Call] /\ call'[t] = Idle
        /\ \A u \in Threads \ {t} : call'[u] = call[u]
    BY <1>1, <1>2, IdleFits, GotoFields DEF Done
  <2>2. CallInv(t)' /\ ~HoldsLock(call'[t]) /\ ~Creating(call'[t])
    BY <2>1, IdleFits DEF Idle, CallInv, Copying, NoRow
  <2>3. /\ {t} \in SUBSET Threads
        /\ \A u \in {t} : CallInv(u)' /\ ~HoldsLock(call'[u]) /\ ~Creating(call'[u])
        /\ \A u \in {t} : Strands(call[u]) \subseteq stranded'
    BY <1>1, <2>2
  <2> QED
    BY <1>1, <2>1, <2>3, LossKeeps
<1>3. CASE call[t].op = "alert" /\ Goto(t, retry)
  <2>1. /\ retry \in Call /\ retry.pc = "merge" /\ retry.op = "alert_error"
        /\ retry.id = call[t].id /\ retry.row = call[t].row
    BY <1>1 DEF Call, Pcs
  <2> HIDE DEF retry
  <2>2. /\ call' \in [Threads -> Call] /\ call'[t] = retry
        /\ \A u \in Threads \ {t} : call'[u] = call[u]
    BY <1>1, <1>3, <2>1, GotoFields
  <2>3. call[t].id \in Known
    BY <1>1, <1>3 DEF CallInv, Copying
  <2>4. CallInv(t)'
    BY <1>1, <2>1, <2>2, <2>3 DEF CallInv, Copying, Known, Recorded
  <2>5. ~HoldsLock(retry) /\ ~Creating(retry)
    BY <2>1 DEF HoldsLock, Creating
  <2>6. /\ {t} \in SUBSET Threads
        /\ \A u \in {t} : CallInv(u)' /\ ~HoldsLock(call'[u]) /\ ~Creating(call'[u])
        /\ \A u \in {t} : Strands(call[u]) \subseteq stranded'
    BY <1>1, <2>2, <2>4, <2>5
  <2> QED
    BY <1>1, <2>2, <2>6, LossKeeps
<1> QED
  BY <1>2, <1>3 DEF Fail

(* The end of a process, which loses what its threads were at, keeps the      *)
(* invariant.                                                                 *)
LEMMA CrashKeeps == ASSUME IInv, NEW p, Crash(p) PROVE IInv'
<1> DEFINE dead == {t \in Threads : Home[t] = p}
<1>1. /\ call' = [t \in Threads |-> IF t \in dead THEN Idle ELSE call[t]]
      /\ stranded' = stranded \cup UNION {Strands(call[t]) : t \in dead}
      /\ faults' \in Nat
      /\ UNCHANGED <<rows, attempts, calls, runs, raced, split>>
  BY DEF IInv, TypeOK, Crash
<1>2. dead \in SUBSET Threads
  OBVIOUS
<1> HIDE DEF dead
<1>3. call' \in [Threads -> Call]
  BY <1>1, IdleFits DEF IInv, TypeOK
<1>4. \A u \in Threads \ dead : call'[u] = call[u]
  BY <1>1
<1>5. \A t \in dead : call'[t] = Idle
  BY <1>1, <1>2
<1>6. \A t \in dead : CallInv(t)' /\ ~HoldsLock(call'[t]) /\ ~Creating(call'[t])
  BY <1>2, <1>5, IdleFits DEF Idle, CallInv, Copying, NoRow
<1>7. stranded \subseteq stranded' /\ \A t \in dead : Strands(call[t]) \subseteq stranded'
  BY <1>1
<1> QED
  BY <1>1, <1>2, <1>3, <1>4, <1>6, <1>7, LossKeeps
-------------------------------------------------------------------------------

(* create_incident of a raise or a report: the number was not taken when it   *)
(* was chosen, and a creation that overlaps with no other finds no incident   *)
(* active.                                                                    *)
LEMMA CreateKeeps == ASSUME IInv, NEW t \in Threads, Create(t) PROVE IInv'
<1> DEFINE id == call[t].id
           next == [call[t] EXCEPT !.op = "alert", !.pc = "merge"]
<1>1. /\ TypeOK /\ call[t] \in Call /\ CallInv(t) /\ call[t].pc = "create"
      /\ CreateIncident(t, id, Opened)
      /\ UNCHANGED <<attempts, calls, faults, runs, stranded>>
  BY DEF IInv, TypeOK, Create, At
<1>2. /\ id \in Ids /\ (id \in Known => id \in raced) /\ call[t].row = NoRow
      /\ call[t].op \in {"raise", "report"}
  BY <1>1 DEF CallInv
<1>3. Opened \in IncidentRow /\ Opened.attempt = 0 /\ Opened.status = "OPEN"
  BY DEF Opened, IncidentRow, Statuses
<1>4. /\ rows'[id] = Opened /\ Opened # NoRow /\ raced \subseteq raced'
      /\ id \in Known'
  <2>1. rows'[id] = Opened /\ Opened # NoRow /\ raced \subseteq raced'
    BY <1>1, <1>2, <1>3, RowWritten
  <2> QED
    BY <1>2, <2>1 DEF Known
<1>5. /\ runs' \in [Ids -> Nat] /\ \A i \in Ids : runs[i] <= runs'[i]
      /\ \A i \in Ids \ {id} : runs'[i] = runs[i]
      /\ Opened.attempt <= runs'[id]
  BY <1>1, <1>2, <1>3 DEF TypeOK
<1>6. id \notin raced' => Opened.attempt = runs'[id]
  <2>1. id \notin raced' => rows[id] = NoRow
    BY <1>2, <1>4 DEF Known
  <2> QED
    BY <1>1, <1>2, <1>3, <2>1 DEF IInv
<1>7. split' \in BOOLEAN /\ (split => split')
  BY <1>1 DEF TypeOK, Create
<1>8. ~split' => ActiveIds = {} /\ \A u \in Threads \ {t} : ~Creating(call[u])
  <2> SUFFICES ASSUME ~split'
               PROVE  ActiveIds = {} /\ \A u \in Threads \ {t} : ~Creating(call[u])
    OBVIOUS
  <2>1. ActiveIds = {}
    BY <1>1, <1>2, <1>7 DEF IInv, ActiveOnce, Creating
  <2>2. ASSUME NEW u \in Threads \ {t}, Creating(call[u]) PROVE FALSE
    <3>1. call[t].op = "raise" /\ call[u].op = "raise" /\ Home[t] = Home[u]
      BY <2>2 DEF Create
    <3> QED
      BY <2>2, <3>1 DEF IInv, LockHeld, HoldsLock
  <2> QED
    BY <2>1, <2>2
<1>9. ASSUME NEW r \in Call, Goto(t, r), CallInv(t)', ~HoldsLock(r), ~Creating(r) PROVE IInv'
  BY <1>1, <1>2, <1>3, <1>5, <1>6, <1>7, <1>8, <1>9, WriteKeeps
<1>10. CASE Goto(t, next)
  <2>1. /\ next \in Call /\ next.op = "alert" /\ next.pc = "merge" /\ next.id = id
        /\ next.row = NoRow
    BY <1>1, <1>2 DEF Call, Pcs
  <2> HIDE DEF next
  <2>2. call'[t] = next
    BY <1>1, <1>10, <2>1, GotoFields
  <2>3. CallInv(t)'
    BY <1>4, <2>1, <2>2 DEF CallInv, Copying, NoRow
  <2>4. ~HoldsLock(next) /\ ~Creating(next)
    BY <2>1 DEF HoldsLock, Creating
  <2> QED
    BY <1>9, <1>10, <2>1, <2>3, <2>4
<1>11. CASE Done(t)
  <2>1. call'[t] = Idle
    BY <1>1, <1>11, IdleFits, GotoFields DEF Done
  <2>2. CallInv(t)'
    BY <2>1 DEF Idle, CallInv, Copying, NoRow
  <2> QED
    BY <1>9, <1>11, <2>2, IdleFits DEF Done
<1> QED
  BY <1>10, <1>11 DEF Create

(* A row that does not become active again: only then is nothing split.       *)
LEMMA StaysActive ==
  ASSUME TypeOK, NEW id \in Known, NEW new \in IncidentRow, ~Reopens(id, new),
         new.status \in Active
  PROVE  id \in ActiveIds
BY DEF TypeOK, Known, IncidentRow, Reopens, ActiveIds

(* update_incident merges its columns into the copy: the number of attempts   *)
(* stays the copy's, and of the claims about a remediation it makes none.     *)
LEMMA UpdatedFields ==
  ASSUME NEW op, NEW row \in IncidentRow
  PROVE  /\ Updated(op, row) \in IncidentRow
         /\ Updated(op, row).attempt = row.attempt
         /\ Updated(op, row).status \in {row.status, "ACKNOWLEDGED", "RESOLVED"}
<1>1. CASE op = "acknowledge"
  BY <1>1 DEF Updated, IncidentRow, Statuses
<1>2. CASE op = "resolve"
  BY <1>2 DEF Updated, IncidentRow, Statuses
<1>3. CASE op \notin {"acknowledge", "resolve"}
  BY <1>3 DEF Updated, IncidentRow, Statuses
<1> QED
  BY <1>1, <1>2, <1>3

(* What every write from a copy rests on.                                     *)
LEMMA CopyFacts ==
  ASSUME IInv, NEW t \in Threads, call[t].pc \in Copying
  PROVE  /\ TypeOK /\ call[t] \in Call
         /\ call[t].id \in Known /\ call[t].id \in Ids
         /\ call[t].row \in IncidentRow
         /\ call[t].row.attempt \in Nat /\ runs[call[t].id] \in Nat
         /\ call[t].row.attempt <= runs[call[t].id]
         /\ call[t].id \notin raced => /\ call[t].row = rows[call[t].id]
                                       /\ call[t].row.attempt = runs[call[t].id]
         /\ call[t].row.status = "RECOVERED" => Recorded(call[t].id, call[t].row.attempt)
         /\ Pending(call[t])
<1>1. TypeOK /\ call[t] \in Call /\ CallInv(t)
  BY DEF IInv, TypeOK
<1>2. call[t].id \in Known /\ call[t].id \in Ids /\ call[t].row \in IncidentRow
  BY <1>1 DEF CallInv, Known, Call
<1>3. call[t].row.attempt \in Nat /\ runs[call[t].id] \in Nat
  BY <1>1, <1>2 DEF TypeOK, IncidentRow
<1>4. Pending(call[t])
  BY DEF Pending, Copying
<1> QED
  BY <1>1, <1>2, <1>3, <1>4 DEF IInv, CallInv, AttemptsCounted

(* The second half of update_incident writes the whole row back. A run that   *)
(* is at work on the incident is overtaken by it, so the row is in            *)
(* remediation without a run only where the history says so.                  *)
LEMMA WriteStepKeeps == ASSUME IInv, NEW t \in Threads, Write(t) PROVE IInv'
<1> DEFINE id == call[t].id
           row == call[t].row
           new == Updated(call[t].op, row)
<1>1. /\ call[t].pc = "write" /\ CreateIncident(t, id, new)
      /\ split' = (split \/ Reopens(id, new))
      /\ Goto(t, Idle)
      /\ UNCHANGED <<attempts, calls, faults, runs, stranded>>
  BY DEF Write, At, Done
<1>2. call[t].pc \in Copying
  BY <1>1 DEF Copying
<1>3. /\ TypeOK /\ id \in Known /\ id \in Ids /\ row \in IncidentRow
      /\ row.attempt <= runs[id]
      /\ id \notin raced => row = rows[id] /\ row.attempt = runs[id]
      /\ row.status = "RECOVERED" => Recorded(id, row.attempt)
  BY <1>2, CopyFacts
<1>4. /\ new \in IncidentRow /\ new.attempt = row.attempt
      /\ new.status \in {row.status, "ACKNOWLEDGED", "RESOLVED"}
  BY <1>3, UpdatedFields
<1>5. raced \subseteq raced' /\ \A u \in Threads \ {t} :
                                  call[u].id = id /\ Pending(call[u]) => id \in raced'
  BY <1>1, <1>3, <1>4, RowWritten
<1>6. ~(new.status = "REMEDIATING" /\ id \notin raced' \cup stranded')
  <2> SUFFICES ASSUME new.status = "REMEDIATING", id \notin raced', id \notin stranded
               PROVE  FALSE
    BY <1>1
  <2>1. rows[id].status = "REMEDIATING" /\ id \notin raced
    BY <1>3, <1>4, <1>5
  <2>2. PICK u \in Threads : call[u].id = id /\ call[u].pc \in {"finish", "recover"}
    BY <1>3, <2>1 DEF IInv, RemediatingMeansRunning
  <2> QED
    BY <1>1, <1>5, <2>2 DEF Pending
<1>7. split' \in BOOLEAN /\ (split => split')
  BY <1>1, <1>3 DEF TypeOK, Reopens
<1>8. ~split' /\ new.status \in Active => id \in ActiveIds
  BY <1>1, <1>3, <1>4, StaysActive
<1>9. call'[t] = Idle
  BY <1>1, <1>3, IdleFits, GotoFields
<1>10. CallInv(t)'
  BY <1>9 DEF Idle, CallInv, Copying, NoRow
<1>11. runs' \in [Ids -> Nat] /\ (\A i \in Ids : runs[i] <= runs'[i])
       /\ \A i \in Ids \ {id} : runs'[i] = runs[i]
  BY <1>1, <1>3 DEF TypeOK
<1>12. /\ new.attempt <= runs'[id]
       /\ id \notin raced' => new.attempt = runs'[id]
       /\ new.status = "RECOVERED" => Recorded(id, new.attempt)
  BY <1>1, <1>3, <1>4, <1>5
<1> HIDE DEF new
<1> QED
  BY <1>1, <1>3, <1>4, <1>6, <1>7, <1>8, <1>10, <1>11, <1>12, IdleFits, WriteKeeps

(* start_remediation counts the run in the copy and in the history at once;   *)
(* the run is now at work on the incident.                                    *)
LEMMA StartKeeps == ASSUME IInv, NEW t \in Threads, Start(t) PROVE IInv'
<1> DEFINE id == call[t].id
           row == call[t].row
           new == [row EXCEPT !.status = "REMEDIATING", !.attempt = @ + 1]
           r == [call[t] EXCEPT !.pc = "finish", !.row = new]
<1>1. /\ call[t].pc = "start" /\ CreateIncident(t, id, new)
      /\ split' = (split \/ Reopens(id, new))
      /\ runs' = [runs EXCEPT ![id] = @ + 1]
      /\ stranded' = stranded \ {id}
      /\ Goto(t, r)
      /\ UNCHANGED <<attempts, calls, faults>>
  BY DEF Start, At
<1>2. call[t].pc \in Copying
  BY <1>1 DEF Copying
<1>3. /\ TypeOK /\ call[t] \in Call /\ id \in Known /\ id \in Ids /\ row \in IncidentRow
      /\ row.attempt \in Nat /\ runs[id] \in Nat
      /\ row.attempt <= runs[id]
      /\ id \notin raced => row.attempt = runs[id]
  BY <1>2, CopyFacts
<1>4. new \in IncidentRow /\ new.attempt = row.attempt + 1 /\ new.status = "REMEDIATING"
  <2>1. \A n \in Nat : [row EXCEPT !.status = "REMEDIATING", !.attempt = n] \in IncidentRow
    BY <1>3 DEF IncidentRow, Statuses
  <2>2. row.attempt + 1 \in Nat
    BY <1>3
  <2>3. new = [row EXCEPT !.status = "REMEDIATING", !.attempt = row.attempt + 1]
    BY <1>3 DEF IncidentRow
  <2>4. new.attempt = row.attempt + 1 /\ new.status = "REMEDIATING"
    BY <1>3 DEF IncidentRow
  <2> QED
    BY <2>1, <2>2, <2>3, <2>4
<1>5. /\ raced \subseteq raced' /\ rows'[id] = new /\ new # NoRow
  BY <1>1, <1>3, <1>4, RowWritten
<1>6. /\ runs'[id] = runs[id] + 1 /\ runs' \in [Ids -> Nat]
      /\ \A i \in Ids \ {id} : runs'[i] = runs[i]
  BY <1>1, <1>3 DEF TypeOK
<1>7. \A i \in Ids : runs[i] <= runs'[i]
  <2>1. runs[id] <= runs'[id]
    BY <1>3, <1>6
  <2>2. \A i \in Ids \ {id} : runs[i] <= runs'[i]
    BY <1>3, <1>6 DEF TypeOK
  <2> QED
    BY <2>1, <2>2
<1>8. new.attempt <= runs'[id] /\ (id \notin raced' => new.attempt = runs'[id])
  <2>1. \A a, n \in Nat : a <= n => a + 1 <= n + 1
    OBVIOUS
  <2> QED
    BY <1>3, <1>4, <1>5, <1>6, <2>1
<1>9. split' \in BOOLEAN /\ (split => split')
  BY <1>1, <1>3 DEF TypeOK, Reopens
<1>10. ~split' /\ new.status \in Active => id \in ActiveIds
  BY <1>1, <1>3, <1>4, StaysActive
<1> HIDE DEF new
<1>11. /\ r \in Call /\ r.pc = "finish" /\ r.op = call[t].op /\ r.id = id /\ r.row = new
  BY <1>3, <1>4 DEF Call, Pcs
<1> HIDE DEF r
<1>12. call'[t] = r
  BY <1>1, <1>3, <1>11, GotoFields
<1>13. CallInv(t)'
  <2>1. call[t].op # "alert" /\ id \in Known'
    BY <1>1, <1>3, <1>5 DEF IInv, CallInv, Known
  <2> QED
    BY <1>4, <1>5, <1>8, <1>11, <1>12, <2>1 DEF CallInv, Copying
<1>14. (HoldsLock(r) => HoldsLock(call[t])) /\ ~Creating(r)
  BY <1>11 DEF HoldsLock, Creating
<1>15. \E u \in Threads : call'[u].id = id /\ call'[u].pc \in {"finish", "recover"}
  BY <1>11, <1>12
<1>16. stranded \ {id} \subseteq stranded' /\ new.status # "RECOVERED"
  BY <1>1, <1>4
<1> QED
  BY <1>1, <1>3, <1>4, <1>6, <1>7, <1>8, <1>9, <1>10, <1>11, <1>13, <1>14, <1>15, <1>16,
     WriteKeeps

(* The last write of a run says what came of it: a failure, or a recovery     *)
(* whose attempt is recorded to have re-ingested.                             *)
LEMMA FinishKeeps == ASSUME IInv, NEW t \in Threads, Finish(t) PROVE IInv'
<1> DEFINE id == call[t].id
           row == call[t].row
           new == Outcomes(call[t])
           logging == [call[t] EXCEPT !.pc = "log", !.row = new]
<1>1. /\ call[t].pc \in {"finish", "recover"} /\ CreateIncident(t, id, new)
      /\ split' = (split \/ Reopens(id, new))
      /\ UNCHANGED <<attempts, calls, faults, runs, stranded>>
      /\ Goto(t, logging) \/ Done(t)
  BY DEF Finish
<1>2. call[t].pc \in Copying
  BY <1>1 DEF Copying
<1>3. /\ TypeOK /\ call[t] \in Call /\ id \in Known /\ id \in Ids /\ row \in IncidentRow
      /\ row.attempt <= runs[id]
      /\ id \notin raced => row.attempt = runs[id]
  BY <1>2, CopyFacts
<1>4. /\ new \in IncidentRow /\ new.attempt = row.attempt
      /\ new.status \in {"RECOVERED", "RECOVERY_FAILED"}
      /\ new.status = "RECOVERED" => call[t].pc = "recover"
  BY <1>3 DEF Outcomes, IncidentRow, Statuses
<1>5. raced \subseteq raced' /\ rows'[id] = new /\ new # NoRow
  BY <1>1, <1>3, <1>4, RowWritten
<1>6. new.status = "RECOVERED" => Recorded(id, new.attempt)
  BY <1>4 DEF IInv, CallInv
<1>7. /\ runs' \in [Ids -> Nat] /\ (\A i \in Ids : runs[i] <= runs'[i])
      /\ \A i \in Ids \ {id} : runs'[i] = runs[i]
      /\ new.attempt <= runs'[id]
      /\ id \notin raced' => new.attempt = runs'[id]
  BY <1>1, <1>3, <1>4, <1>5 DEF TypeOK
<1>8. split' \in BOOLEAN /\ (split => split')
  BY <1>1, <1>3 DEF TypeOK, Reopens
<1>9. ~split' /\ new.status \in Active => id \in ActiveIds
  BY <1>1, <1>3, <1>4, StaysActive
<1> HIDE DEF new
<1>10. ASSUME NEW r \in Call, Goto(t, r), CallInv(t)',
              HoldsLock(r) => HoldsLock(call[t]), ~Creating(r)
       PROVE  IInv'
  BY <1>1, <1>3, <1>4, <1>6, <1>7, <1>8, <1>9, <1>10, WriteKeeps
<1>11. CASE Goto(t, logging)
  <2>1. /\ logging \in Call /\ logging.op = call[t].op /\ logging.pc = "log"
        /\ logging.id = id /\ logging.row = new
    BY <1>3, <1>4 DEF Call, Pcs
  <2> HIDE DEF logging
  <2>2. call'[t] = logging
    BY <1>3, <1>11, <2>1, GotoFields
  <2>3. /\ call[t].op # "alert" /\ id \in Known'
        /\ new.status = "RECOVERED" =>
             [incident |-> id, number |-> new.attempt, stage |-> "RE_INGESTING"] \in attempts'
    BY <1>1, <1>3, <1>5, <1>6 DEF IInv, CallInv, Known, Recorded
  <2>4. CallInv(t)'
    BY <2>1, <2>2, <2>3 DEF CallInv, Copying, Recorded
  <2>5. (HoldsLock(logging) => HoldsLock(call[t])) /\ ~Creating(logging)
    BY <2>1 DEF HoldsLock, Creating
  <2> QED
    BY <1>10, <1>11, <2>1, <2>4, <2>5
<1>12. CASE Done(t)
  <2>1. call'[t] = Idle
    BY <1>3, <1>12, IdleFits, GotoFields DEF Done
  <2>2. CallInv(t)'
    BY <2>1 DEF Idle, CallInv, Copying, NoRow
  <2> QED
    BY <1>10, <1>12, <2>2, IdleFits DEF Done
<1> QED
  BY <1>1, <1>11, <1>12
-------------------------------------------------------------------------------

(* The invariant is inductive: every step of the incident service and of the  *)
(* store keeps it.                                                            *)
LEMMA StepInv == IInv /\ [Next]_vars => IInv'
<1> SUFFICES ASSUME IInv, [Next]_vars PROVE IInv'
  OBVIOUS
<1>1. ASSUME NEW t \in Threads,
             BeginRaise(t) \/ BeginReport(t) \/ BeginAction(t) \/ BeginRemediation(t)
      PROVE  IInv'
  BY <1>1, BeginKeeps
<1>2. ASSUME NEW t \in Threads, Find(t) \/ Generate(t) \/ Check(t) \/ Merge(t) \/ Load(t)
      PROVE  IInv'
  BY <1>2, FindKeeps, GenerateKeeps, CheckKeeps, MergeKeeps, LoadKeeps
<1>3. ASSUME NEW t \in Threads, Create(t) \/ Write(t) \/ Start(t) \/ Finish(t) PROVE IInv'
  BY <1>3, CreateKeeps, WriteStepKeeps, StartKeeps, FinishKeeps
<1>4. ASSUME NEW t \in Threads, Reingest(t) \/ Log(t) \/ Fail(t) PROVE IInv'
  BY <1>4, ReingestKeeps, LogKeeps, FailKeeps
<1>5. ASSUME NEW t \in Threads, Crash(Home[t]) PROVE IInv'
  BY <1>5, CrashKeeps
<1>6. CASE UNCHANGED vars
  <2>1. UNCHANGED <<rows, attempts, call, calls, faults, runs, raced, stranded, split>>
    BY <1>6 DEF vars
  <2>2. TypeOK' /\ LockHeld' /\ ActiveOnce'
    BY <2>1 DEF IInv, TypeOK, LockHeld, ActiveOnce, ActiveIds
  <2>3. \A t \in Threads : CallInv(t)'
    BY <2>1 DEF IInv, CallInv, Known, Recorded
  <2>4. AttemptsCounted' /\ RemediatingMeansRunning' /\ RecoveredIsRecorded'
    BY <2>1 DEF IInv, AttemptsCounted, RemediatingMeansRunning, RecoveredIsRecorded
  <2> QED
    BY <2>1, <2>2, <2>3, <2>4 DEF IInv
<1> QED
  BY <1>1, <1>2, <1>3, <1>4, <1>5, <1>6 DEF Next

(* Whatever the threads, their homes and the limits: every copy of a row is   *)
(* worth what CallInv says, at each statement of the service, the alert, the  *)
(* API and the controller.                                                    *)
THEOREM IncidentInvariant == Spec => []IInv
<1>1. Init => IInv
  BY InitInv
<1>2. IInv /\ [Next]_vars => IInv'
  BY StepInv
<1> QED
  BY <1>1, <1>2, PTL DEF Spec

(* recovery_attempt counts no run that was not started, and all of them       *)
(* where nobody wrote behind another's back: the limit on attempts            *)
(* (controller.py:231) rests on it.                                           *)
THEOREM IncidentAttemptsCounted == Spec => []AttemptsCounted
<1>1. IInv => AttemptsCounted
  BY DEF IInv
<1> QED
  BY <1>1, IncidentInvariant, PTL

(* _INCIDENT_LOCK does what it is for: one active incident, unless two        *)
(* creations overlapped without a common lock or a closed one came back.      *)
THEOREM IncidentOneActive == Spec => []OneActiveIncident
<1>1. IInv => OneActiveIncident
  <2> SUFFICES ASSUME IInv, ~split PROVE Cardinality(ActiveIds) <= 1
    BY DEF OneActiveIncident
  <2>1. \A i, j \in ActiveIds : i = j
    BY DEF IInv, ActiveOnce
  <2>2. CASE ActiveIds = {}
    BY <2>2, FS_EmptySet
  <2>3. CASE ActiveIds # {}
    <3>1. PICK id : ActiveIds = {id}
      BY <2>1, <2>3
    <3> QED
      BY <3>1, FS_Singleton
  <2> QED
    BY <2>2, <2>3
<1> QED
  BY <1>1, IncidentInvariant, PTL

(* An incident says REMEDIATING while a run works on it, unless the run was   *)
(* taken away or somebody wrote an old copy back.                             *)
THEOREM IncidentRemediatingMeansRunning == Spec => []RemediatingMeansRunning
<1>1. IInv => RemediatingMeansRunning
  BY DEF IInv
<1> QED
  BY <1>1, IncidentInvariant, PTL

(* RECOVERED comes with the record of its attempt, and every whole-row write  *)
(* of the others carries the two along together.                              *)
THEOREM IncidentRecoveredIsRecorded == Spec => []RecoveredIsRecorded
<1>1. IInv => RecoveredIsRecorded
  BY DEF IInv
<1> QED
  BY <1>1, IncidentInvariant, PTL
===============================================================================
