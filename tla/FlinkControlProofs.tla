--------------------------- MODULE FlinkControlProofs ---------------------------
(***************************************************************************)
(* Proofs about FlinkControl, for any processes, threads, polls and bounds,*)
(* whatever Flink and the submission script do. A thread that polls for a  *)
(* savepoint has asked for it itself, so the one it sees completed was     *)
(* completed after anything its controller has confirmed: that, and that   *)
(* two threads inside one controller are noted, makes the invariant        *)
(* inductive.                                                              *)
(***************************************************************************)
EXTENDS FlinkControl, SequenceTheorems, TLAPS

Job == [state : ActiveStates \cup Terminal \cup {"CANCELLING"}, stop : Progress, copy : Progress]

Places == {"none", "stop", "poll", "cancel", "cli", "confirm", "trust", "submit", "await",
           "request", "watch"}

Call == [op : {"none", "pause", "resume", "stop", "copy"}, at : Places, job : Nat, left : Nat]

Kinds == {"stop", "copy"}

Typed ==
  /\ TypeOK
  /\ jobs \in Seq(Job)
  /\ call \in [Threads -> Call]
  /\ stale \in [Controllers -> SUBSET DOMAIN jobs]

(* Where a thread has a job of the cluster in hand.                           *)
WithJob == {"stop", "poll", "cancel", "cli", "confirm", "trust", "request", "watch"}

(* What a pause may report.                                                   *)
Stops == (DOMAIN jobs) \X {"confirm", "trust"}

CallFits(t) ==
  /\ call[t].at \in WithJob => call[t].job \in DOMAIN jobs
  /\ call[t].at \in {"request", "watch"} => call[t].op \in Kinds

(* Two threads inside one controller are noted.                               *)
OverlapNoted ==
  \A t, u \in Threads :
    t # u /\ Home[t] = Home[u] /\ call[t] # NoCall /\ call[u] # NoCall
      => Home[t] \in overlapped

(* What a thread polls for: the savepoint that stops the job, or the kind     *)
(* that trigger_savepoint was asked for.                                      *)
Awaited(r) == IF r.at = "poll" THEN "stop" ELSE r.op

(* A savepoint that a thread polls for and that is completed was completed    *)
(* after every job its controller has confirmed.                              *)
Fresh(t) ==
  LET r == call[t]
  IN  Home[t] \notin overlapped /\ r.at \in {"poll", "watch"} =>
        (jobs[r.job][Awaited(r)] = "done" => r.job \notin stale[Home[t]])

IInv ==
  /\ Typed
  /\ \A t \in Threads : CallFits(t)
  /\ OverlapNoted
  /\ \A t \in Threads : Fresh(t)
  /\ PointerIsCurrent
-------------------------------------------------------------------------------

(* What the invariant says of a job in hand.                                  *)
LEMMA JobFacts ==
  ASSUME IInv, NEW t \in Threads
  PROVE  /\ Home[t] \in Controllers /\ call[t] \in Call /\ last \in [Controllers -> Nat]
         /\ call[t].at \in WithJob => call[t].job \in DOMAIN jobs
         /\ call[t].at \in {"poll", "watch"} => Awaited(call[t]) \in Kinds
         /\ \A j \in DOMAIN jobs : j # None /\ j \in Nat /\ jobs[j] \in Job
<1>1. /\ Home[t] \in Controllers /\ call[t] \in Call
      /\ call[t].at \in WithJob => call[t].job \in DOMAIN jobs
  BY FlinkConfig DEF IInv, Typed, CallFits
<1>2. call[t].at \in {"poll", "watch"} => Awaited(call[t]) \in Kinds
  BY DEF IInv, CallFits, Awaited, Kinds
<1>3. \A j \in DOMAIN jobs : j # None /\ j \in Nat /\ jobs[j] \in Job
  BY DEF IInv, Typed, None
<1>4. last \in [Controllers -> Nat]
  BY <1>3 DEF IInv, Typed, TypeOK, None
<1> QED
  BY <1>1, <1>2, <1>3, <1>4

(* What Flink does of itself: jobs come and change state, and a savepoint     *)
(* that completes is no longer older than anything confirmed.                 *)
LEMMA FlinkKeeps ==
  ASSUME IInv, jobs' \in Seq(Job), DOMAIN jobs \subseteq DOMAIN jobs',
         stale' \in [Controllers -> SUBSET DOMAIN jobs],
         \A c \in Controllers : stale'[c] \subseteq stale[c],
         \A j \in DOMAIN jobs, k \in Kinds :
           jobs'[j][k] = "done" =>
             jobs[j][k] = "done" \/ \A c \in Controllers : j \notin stale'[c],
         UNCHANGED <<last, call, paused, overlapped>>
  PROVE  IInv'
<1>1. Typed'
  <2>1. \A j \in DOMAIN jobs' : /\ jobs'[j].state \in ActiveStates \cup Terminal \cup {"CANCELLING"}
                                /\ {jobs'[j].stop, jobs'[j].copy} \subseteq Progress
    <3>1. \A j \in DOMAIN jobs' : jobs'[j] \in Job
      OBVIOUS
    <3> QED
      BY <3>1 DEF Job
  <2>2. TypeOK'
    BY <2>1 DEF IInv, Typed, TypeOK, Stops
  <2>3. stale' \in [Controllers -> SUBSET DOMAIN jobs']
    OBVIOUS
  <2> QED
    BY <2>2, <2>3 DEF IInv, Typed
<1>2. ASSUME NEW t \in Threads PROVE CallFits(t)'
  BY DEF IInv, CallFits
<1>3. OverlapNoted'
  BY DEF IInv, OverlapNoted
<1>4. ASSUME NEW t \in Threads PROVE Fresh(t)'
  <2> SUFFICES ASSUME Home[t] \notin overlapped, call[t].at \in {"poll", "watch"},
                      jobs'[call[t].job][Awaited(call[t])] = "done"
               PROVE  call[t].job \notin stale'[Home[t]]
    BY DEF Fresh, Awaited
  <2>1. call[t].job \in DOMAIN jobs /\ Awaited(call[t]) \in Kinds /\ Home[t] \in Controllers
    BY JobFacts DEF WithJob
  <2>2. CASE jobs[call[t].job][Awaited(call[t])] = "done"
    BY <2>1, <2>2 DEF IInv, Fresh
  <2>3. CASE \A c \in Controllers : call[t].job \notin stale'[c]
    BY <2>1, <2>3
  <2> QED
    BY <2>1, <2>2, <2>3
<1>5. PointerIsCurrent'
  BY DEF IInv, PointerIsCurrent
<1> QED
  BY <1>1, <1>2, <1>3, <1>4, <1>5 DEF IInv

(* A step of a call: no savepoint is completed by it, and one that it         *)
(* remembers is newer than what the controller has confirmed.                 *)
LEMMA ThreadKeeps ==
  ASSUME IInv, NEW t \in Threads, NEW r \in Call,
         call' = [call EXCEPT ![t] = r],
         jobs' \in Seq(Job), DOMAIN jobs' = DOMAIN jobs,
         \A j \in DOMAIN jobs, k \in Kinds : jobs'[j][k] = "done" => jobs[j][k] = "done",
         r.job \in {None} \cup DOMAIN jobs,
         r.at \in WithJob => r.job \in DOMAIN jobs,
         r.at \in {"request", "watch"} => r.op \in Kinds,
         overlapped \subseteq overlapped',
         r # NoCall => \/ call[t] # NoCall
                       \/ \A u \in Threads \ {t} :
                            Home[u] = Home[t] /\ call[u] # NoCall => Home[t] \in overlapped',
         UNCHANGED stale, paused' \subseteq Stops,
         last' \in [Controllers -> {None} \cup DOMAIN jobs],
         \A c \in Controllers \ overlapped : last'[c] = last[c] \/ last'[c] \notin stale[c],
         Home[t] \notin overlapped' /\ r.at \in {"poll", "watch"} =>
           (jobs'[r.job][Awaited(r)] = "done" => r.job \notin stale[Home[t]])
  PROVE  IInv'
<1>1. /\ call' \in [Threads -> Call] /\ call'[t] = r
      /\ \A u \in Threads \ {t} : call'[u] = call[u]
  BY DEF IInv, Typed
<1>2. Typed'
  <2>1. \A j \in DOMAIN jobs' : /\ jobs'[j].state \in ActiveStates \cup Terminal \cup {"CANCELLING"}
                                /\ {jobs'[j].stop, jobs'[j].copy} \subseteq Progress
    <3>1. \A j \in DOMAIN jobs' : jobs'[j] \in Job
      OBVIOUS
    <3> QED
      BY <3>1 DEF Job
  <2>2. TypeOK'
    BY <1>1, <2>1 DEF IInv, Typed, TypeOK, Stops
  <2> QED
    BY <1>1, <2>2 DEF IInv, Typed
<1>3. ASSUME NEW u \in Threads PROVE CallFits(u)'
  BY <1>1 DEF IInv, CallFits
<1>4. OverlapNoted'
  BY <1>1 DEF IInv, OverlapNoted
<1>5. ASSUME NEW u \in Threads PROVE Fresh(u)'
  <2>1. CASE u = t
    BY <1>1, <2>1 DEF Fresh, Awaited
  <2>2. CASE u # t
    <3>1. call'[u] = call[u]
      BY <1>1, <2>2
    <3>2. call[u].at \in {"poll", "watch"} =>
            call[u].job \in DOMAIN jobs /\ Awaited(call[u]) \in Kinds
      BY JobFacts DEF WithJob
    <3>3. Fresh(u)
      BY DEF IInv
    <3> QED
      BY <3>1, <3>2, <3>3 DEF Fresh, Awaited
  <2> QED
    BY <2>1, <2>2
<1>6. PointerIsCurrent'
  BY DEF IInv, PointerIsCurrent
<1> QED
  BY <1>2, <1>3, <1>4, <1>5, <1>6 DEF IInv
-------------------------------------------------------------------------------

(* A step of one job: the sequence of jobs keeps its length and the others.   *)
LEMMA JobChanged ==
  ASSUME IInv, NEW j \in DOMAIN jobs, NEW new \in Job, jobs' = [jobs EXCEPT ![j] = new]
  PROVE  /\ jobs' \in Seq(Job) /\ DOMAIN jobs' = DOMAIN jobs
         /\ jobs'[j] = new /\ \A i \in DOMAIN jobs \ {j} : jobs'[i] = jobs[i]
<1>1. jobs \in Seq(Job)
  BY DEF IInv, Typed
<1>2. jobs' \in Seq(Job) /\ DOMAIN jobs' = DOMAIN jobs
  BY <1>1, ExceptSeq
<1>3. jobs'[j] = new /\ \A i \in DOMAIN jobs \ {j} : jobs'[i] = jobs[i]
  BY <1>1
<1> QED
  BY <1>2, <1>3

(* A job that ends completes no savepoint.                                    *)
LEMMA EndedFits ==
  ASSUME NEW job \in Job, NEW state \in ActiveStates \cup Terminal \cup {"CANCELLING"}
  PROVE  /\ Ended(job, state) \in Job
         /\ \A k \in Kinds : Ended(job, state)[k] = "done" => job[k] = "done"
BY DEF Ended, Job, Progress, Kinds

(* One job moves, and completes nothing.                                      *)
LEMMA QuietJobKeeps ==
  ASSUME IInv, NEW j \in DOMAIN jobs, NEW new \in Job, jobs' = [jobs EXCEPT ![j] = new],
         \A k \in Kinds : new[k] = "done" => jobs[j][k] = "done",
         UNCHANGED control
  PROVE  IInv'
<1>1. /\ jobs' \in Seq(Job) /\ DOMAIN jobs' = DOMAIN jobs
      /\ jobs'[j] = new /\ \A i \in DOMAIN jobs \ {j} : jobs'[i] = jobs[i]
  BY JobChanged
<1>2. stale' \in [Controllers -> SUBSET DOMAIN jobs] /\ stale' = stale
  BY DEF IInv, Typed, control
<1> QED
  BY <1>1, <1>2, FlinkKeeps DEF control

(* Flink's own steps, by which a savepoint completes or fails and a job ends, *)
(* keep the invariant: they touch no pointer and start no job.                *)
LEMMA FlinkStepKeeps == ASSUME IInv, Flink PROVE IInv'
<1>1. jobs \in Seq(Job) /\ stale \in [Controllers -> SUBSET DOMAIN jobs]
  BY DEF IInv, Typed
<1>2. ASSUME NEW q, JobAppears(q) PROVE IInv'
  <2>1. NewJob \in Job /\ NewJob["stop"] = "none" /\ NewJob["copy"] = "none"
    BY DEF NewJob, Job, ActiveStates, Progress
  <2>2. jobs' = Append(jobs, NewJob) /\ UNCHANGED control
    BY <1>2 DEF JobAppears
  <2>3. /\ jobs' \in Seq(Job) /\ DOMAIN jobs \subseteq DOMAIN jobs'
        /\ \A j \in DOMAIN jobs : jobs'[j] = jobs[j]
    BY <1>1, <2>1, <2>2
  <2> QED
    BY <1>1, <2>2, <2>3, FlinkKeeps DEF control
<1>3. ASSUME NEW q, JobRefused(q) PROVE IInv'
  <2>1. UNCHANGED <<jobs, control>>
    BY <1>3 DEF JobRefused
  <2> QED
    BY <1>1, <2>1, FlinkKeeps DEF control
<1>4. ASSUME NEW j \in DOMAIN jobs PROVE jobs[j] \in Job
  BY <1>1
<1>5. ASSUME NEW j \in DOMAIN jobs, JobMoves(j) PROVE IInv'
  <2> DEFINE new == CASE jobs[j].state \in {"CREATED", "RESTARTING"} ->
                           [jobs[j] EXCEPT !.state = "RUNNING"]
                      [] jobs[j].state = "RUNNING" -> Ended(jobs[j], "RESTARTING")
                      [] OTHER -> jobs[j]
  <2>1. jobs' = [jobs EXCEPT ![j] = new] /\ UNCHANGED control
    BY <1>5 DEF JobMoves
  <2>2. "RESTARTING" \in ActiveStates /\ "RUNNING" \in ActiveStates
    BY DEF ActiveStates
  <2>3. /\ Ended(jobs[j], "RESTARTING") \in Job
        /\ \A k \in Kinds : Ended(jobs[j], "RESTARTING")[k] = "done" => jobs[j][k] = "done"
    BY <1>4, <2>2, EndedFits
  <2>4. /\ [jobs[j] EXCEPT !.state = "RUNNING"] \in Job
        /\ \A k \in Kinds : [jobs[j] EXCEPT !.state = "RUNNING"][k] = jobs[j][k]
    BY <1>4, <2>2 DEF Job, Kinds
  <2>5. new \in Job /\ \A k \in Kinds : new[k] = "done" => jobs[j][k] = "done"
    BY <1>4, <2>3, <2>4
  <2> HIDE DEF new
  <2> QED
    BY <2>1, <2>5, QuietJobKeeps
<1>6. ASSUME NEW j \in DOMAIN jobs, NEW state \in {"FAILED", "CANCELED"},
             jobs' = [jobs EXCEPT ![j] = Ended(@, state)], UNCHANGED control
      PROVE  IInv'
  <2> DEFINE new == Ended(jobs[j], state)
  <2>1. new \in Job /\ \A k \in Kinds : new[k] = "done" => jobs[j][k] = "done"
    BY <1>4, EndedFits DEF Terminal
  <2>2. jobs' = [jobs EXCEPT ![j] = new] /\ UNCHANGED control
    BY <1>6
  <2> HIDE DEF new
  <2> QED
    BY <2>1, <2>2, QuietJobKeeps
<1>7. ASSUME NEW j \in DOMAIN jobs, JobFails(j) \/ JobCancelled(j) PROVE IInv'
  BY <1>6, <1>7 DEF JobFails, JobCancelled
<1>8. ASSUME NEW j \in DOMAIN jobs, NEW k \in Kinds, NEW new \in Job, new[k] = "done",
             \A i \in Kinds : new[i] = "done" => i = k \/ jobs[j][i] = "done",
             jobs' = [jobs EXCEPT ![j] = new], Refreshed(j),
             UNCHANGED <<last, call, paused, overlapped>>
      PROVE  IInv'
  <2>1. /\ jobs' \in Seq(Job) /\ DOMAIN jobs' = DOMAIN jobs
        /\ jobs'[j] = new /\ \A i \in DOMAIN jobs \ {j} : jobs'[i] = jobs[i]
    BY <1>8, JobChanged
  <2>2. /\ stale' \in [Controllers -> SUBSET DOMAIN jobs]
        /\ \A c \in Controllers : stale'[c] \subseteq stale[c] /\ j \notin stale'[c]
    BY <1>1, <1>8 DEF Refreshed
  <2> QED
    BY <1>8, <2>1, <2>2, FlinkKeeps
<1>9. ASSUME NEW j \in DOMAIN jobs, StopCompletes(j) PROVE IInv'
  <2> DEFINE done == [jobs[j] EXCEPT !.stop = "done"]
             new == Ended(done, "FINISHED")
  <2>1. jobs' = [jobs EXCEPT ![j] = new] /\ Refreshed(j)
        /\ UNCHANGED <<last, call, paused, overlapped>>
    BY <1>9 DEF StopCompletes
  <2>2. done \in Job /\ done.stop = "done" /\ done.copy = jobs[j].copy
    BY <1>4 DEF Job, Progress
  <2>3. /\ new \in Job /\ new["stop"] = "done"
        /\ \A i \in Kinds : new[i] = "done" => i = "stop" \/ jobs[j][i] = "done"
    <3> HIDE DEF done
    <3> QED
      BY <2>2, EndedFits DEF Ended, Terminal, Kinds
  <2> HIDE DEF new
  <2> QED
    BY <1>8, <2>1, <2>3 DEF Kinds
<1>10. ASSUME NEW j \in DOMAIN jobs, CopyCompletes(j) PROVE IInv'
  <2> DEFINE new == [jobs[j] EXCEPT !.copy = "done"]
  <2>1. jobs' = [jobs EXCEPT ![j] = new] /\ Refreshed(j)
        /\ UNCHANGED <<last, call, paused, overlapped>>
    BY <1>10 DEF CopyCompletes
  <2>2. /\ new \in Job /\ new["copy"] = "done"
        /\ \A i \in Kinds : new[i] = "done" => i = "copy" \/ jobs[j][i] = "done"
    BY <1>4 DEF Job, Progress, Kinds
  <2> HIDE DEF new
  <2> QED
    BY <1>8, <2>1, <2>2 DEF Kinds
<1>11. ASSUME NEW j \in DOMAIN jobs, NEW k \in Kinds, SavepointFails(j, k) PROVE IInv'
  <2> DEFINE new == [jobs[j] EXCEPT ![k] = "failed"]
  <2>1. jobs' = [jobs EXCEPT ![j] = new] /\ UNCHANGED control
    BY <1>11 DEF SavepointFails
  <2>2. new \in Job /\ \A i \in Kinds : new[i] = "done" => jobs[j][i] = "done"
    BY <1>4 DEF Job, Progress, Kinds
  <2> HIDE DEF new
  <2> QED
    BY <2>1, <2>2, QuietJobKeeps
<1> QED
  BY <1>2, <1>3, <1>5, <1>7, <1>9, <1>10, <1>11 DEF Flink, Kinds
-------------------------------------------------------------------------------

(* What the requests look at.                                                 *)
LEMMA ActiveFacts == ActiveJobIds \subseteq {None} \cup DOMAIN jobs
BY DEF ActiveJobIds

(* A call begins: it is the only one inside its controller, or noted.         *)
LEMMA BeginKeeps ==
  ASSUME IInv, NEW t \in Threads, NEW op \in {"pause", "resume", "stop", "copy"},
         NEW at \in {"stop", "submit", "request"}, NEW j \in {None} \cup DOMAIN jobs,
         Begin(t, op, at, j),
         at # "submit" => j \in DOMAIN jobs, at = "request" => op \in Kinds,
         UNCHANGED <<jobs, last, paused, stale>>
  PROVE  IInv'
<1> DEFINE r == [op |-> op, at |-> at, job |-> j, left |-> MaxPolls]
<1>1. j \in Nat /\ MaxPolls \in Nat
  BY JobFacts, FlinkConfig DEF None, IInv, Typed
<1>2. r \in Call /\ r.op = op /\ r.at = at /\ r.job = j
  BY <1>1 DEF Call, Places
<1>3. /\ call' = [call EXCEPT ![t] = r]
      /\ overlapped' = overlapped \cup
           {Home[u] : u \in {v \in Threads \ {t} : Home[v] = Home[t] /\ call[v] # NoCall}}
  BY DEF Begin
<1> HIDE DEF r
<1>4. /\ overlapped \subseteq overlapped'
      /\ \A u \in Threads \ {t} :
           Home[u] = Home[t] /\ call[u] # NoCall => Home[t] \in overlapped'
  BY <1>3
<1>5. /\ jobs' \in Seq(Job) /\ paused' \subseteq Stops
      /\ last' \in [Controllers -> {None} \cup DOMAIN jobs]
  BY DEF IInv, Typed, TypeOK, Stops
<1> QED
  BY <1>2, <1>3, <1>4, <1>5, ThreadKeeps DEF WithJob

(* The handlers of FlinkController that begin a thread's work (pause_job,     *)
(* resume_job, trigger_savepoint) keep the invariant.                         *)
LEMMA BeginningsKeep ==
  ASSUME IInv, NEW t \in Threads,
         PauseJob(t) \/ ResumeJob(t) \/ \E kind \in Kinds : TriggerSavepoint(t, kind)
  PROVE  IInv'
<1>1. CASE PauseJob(t)
  <2>1. PICK j \in ActiveJobIds \ {None} : Begin(t, "pause", "stop", j)
    BY <1>1 DEF PauseJob
  <2> QED
    BY <1>1, <2>1, ActiveFacts, BeginKeeps DEF PauseJob
<1>2. CASE ResumeJob(t)
  <2>1. last[Home[t]] \in {None} \cup DOMAIN jobs
    BY JobFacts DEF IInv, Typed, TypeOK, Stops
  <2> QED
    BY <1>2, <2>1, BeginKeeps DEF ResumeJob
<1>3. ASSUME NEW kind \in Kinds, TriggerSavepoint(t, kind) PROVE IInv'
  <2>1. PICK j \in ActiveJobIds \ {None} : Begin(t, kind, "request", j)
    BY <1>3 DEF TriggerSavepoint
  <2>2. kind \in {"pause", "resume", "stop", "copy"}
    BY DEF Kinds
  <2> QED
    BY <1>3, <2>1, <2>2, ActiveFacts, BeginKeeps DEF TriggerSavepoint
<1> QED
  BY <1>1, <1>2, <1>3
-------------------------------------------------------------------------------

(* A call goes on with its job to a place where it waits for no savepoint, or *)
(* for one that was not completed yet; or polls once more.                    *)
LEMMA MovesOn ==
  ASSUME IInv, NEW t \in Threads,
         jobs' \in Seq(Job), DOMAIN jobs' = DOMAIN jobs,
         \A j \in DOMAIN jobs, k \in Kinds : jobs'[j][k] = "done" => jobs[j][k] = "done",
         \/ Return(t)
         \/ PollAgain(t)
         \/ /\ call[t].at \in WithJob
            /\ \E at \in {"cancel", "cli", "confirm", "trust"} : Goto(t, at)
         \/ call[t].at = "submit" /\ Goto(t, "await")
         \/ call[t].at = "stop" /\ Goto(t, "poll") /\ jobs'[call[t].job].stop = "pending"
         \/ /\ call[t].at = "request" /\ Goto(t, "watch")
            /\ jobs'[call[t].job][call[t].op] = "pending",
         UNCHANGED <<stale, overlapped>>, paused' \subseteq Stops,
         last' \in [Controllers -> {None} \cup DOMAIN jobs],
         \A c \in Controllers \ overlapped : last'[c] = last[c] \/ last'[c] \notin stale[c]
  PROVE  IInv'
<1>1. /\ Home[t] \in Controllers /\ call[t] \in Call
      /\ call[t].at \in WithJob => call[t].job \in DOMAIN jobs
      /\ call[t].job \in {None} \cup DOMAIN jobs
      /\ CallFits(t) /\ Fresh(t)
  BY JobFacts DEF IInv, Typed, TypeOK, Stops
<1>2. NoCall \in Call /\ NoCall.at = "none" /\ NoCall.job = None
  BY DEF NoCall, Call, Places, None
<1>3. CASE Return(t)
  BY <1>2, <1>3, ThreadKeeps DEF Return, WithJob
<1>4. CASE PollAgain(t)
  <2> DEFINE r == [call[t] EXCEPT !.left = @ - 1]
  <2>1. call' = [call EXCEPT ![t] = r] /\ call[t].left > 1
    BY <1>4 DEF PollAgain
  <2>2. r \in Call /\ r.op = call[t].op /\ r.at = call[t].at /\ r.job = call[t].job
    <3>1. call[t].left \in Nat /\ \A n \in Nat : n > 1 => n - 1 \in Nat
      BY <1>1 DEF Call
    <3>2. \A n \in Nat : [call[t] EXCEPT !.left = n] \in Call
      BY <1>1 DEF Call
    <3>3. r = [call[t] EXCEPT !.left = call[t].left - 1]
      BY <1>1 DEF Call
    <3>4. r.op = call[t].op /\ r.at = call[t].at /\ r.job = call[t].job
      BY <1>1 DEF Call
    <3> QED
      BY <2>1, <3>1, <3>2, <3>3, <3>4
  <2> HIDE DEF r
  <2>3. call[t] # NoCall
    BY <2>1 DEF NoCall
  <2>4. Home[t] \notin overlapped' /\ r.at \in {"poll", "watch"} =>
          (jobs'[r.job][Awaited(r)] = "done" => r.job \notin stale[Home[t]])
    <3>1. Awaited(r) = Awaited(call[t])
      BY <2>2 DEF Awaited
    <3>2. r.at \in {"poll", "watch"} => Awaited(r) \in Kinds /\ r.job \in DOMAIN jobs
      BY <1>1, <2>2, <3>1, JobFacts DEF WithJob
    <3> QED
      BY <1>1, <2>2, <3>1, <3>2 DEF Fresh
  <2>5. r.at \in {"request", "watch"} => r.op \in Kinds
    BY <1>1, <2>2 DEF CallFits
  <2> QED
    BY <1>1, <2>1, <2>2, <2>3, <2>4, <2>5, ThreadKeeps
<1>5. ASSUME NEW at \in Places \ {"none", "request"}, Goto(t, at), call[t].at # "none",
             at \in WithJob => call[t].job \in DOMAIN jobs,
             at = "watch" => /\ call[t].at = "request"
                             /\ jobs'[call[t].job][call[t].op] = "pending",
             at = "poll" => jobs'[call[t].job].stop = "pending"
      PROVE  IInv'
  <2> DEFINE r == [call[t] EXCEPT !.at = at, !.left = MaxPolls]
  <2>1. call' = [call EXCEPT ![t] = r]
    BY <1>1, <1>5 DEF Goto, IInv, Typed
  <2>2. r \in Call /\ r.op = call[t].op /\ r.at = at /\ r.job = call[t].job
    BY <1>1, FlinkConfig DEF Call
  <2> HIDE DEF r
  <2>3. call[t] # NoCall
    BY <1>5 DEF NoCall
  <2>4. at = "watch" => r.op \in Kinds
    BY <1>1, <1>5, <2>2 DEF CallFits
  <2>5. at \in {"poll", "watch"} => jobs'[r.job][Awaited(r)] # "done"
    BY <1>5, <2>2 DEF Awaited
  <2> QED
    BY <1>1, <1>5, <2>1, <2>2, <2>3, <2>4, <2>5, ThreadKeeps
<1> QED
  BY <1>1, <1>3, <1>4, <1>5 DEF Places, WithJob
-------------------------------------------------------------------------------

(* A request for a savepoint starts it anew: it is pending, not done.         *)
LEMMA RequestFacts ==
  ASSUME IInv, NEW j \in DOMAIN jobs, NEW kind \in Kinds, NEW accepted \in BOOLEAN,
         Requested(j, kind, accepted)
  PROVE  /\ jobs' \in Seq(Job) /\ DOMAIN jobs' = DOMAIN jobs
         /\ \A i \in DOMAIN jobs, k \in Kinds : jobs'[i][k] = "done" => jobs[i][k] = "done"
         /\ accepted => jobs'[j][kind] = "pending"
<1>1. jobs \in Seq(Job) /\ jobs[j] \in Job
  BY DEF IInv, Typed
<1>2. CASE accepted
  <2> DEFINE new == [jobs[j] EXCEPT ![kind] = "pending"]
  <2>1. /\ new \in Job /\ new[kind] = "pending"
        /\ \A k \in Kinds : new[k] = "done" => jobs[j][k] = "done"
    BY <1>1 DEF Job, Progress, Kinds
  <2>2. jobs' = [jobs EXCEPT ![j] = new]
    BY <1>2 DEF Requested
  <2> HIDE DEF new
  <2> QED
    BY <2>1, <2>2, JobChanged
<1>3. CASE ~accepted
  BY <1>1, <1>3 DEF Requested
<1> QED
  BY <1>2, <1>3

(* A cancellation touches no savepoint.                                       *)
LEMMA CancelFacts ==
  ASSUME IInv, NEW j \in DOMAIN jobs, Cancels(j) \/ UNCHANGED jobs
  PROVE  /\ jobs' \in Seq(Job) /\ DOMAIN jobs' = DOMAIN jobs
         /\ \A i \in DOMAIN jobs, k \in Kinds : jobs'[i][k] = "done" => jobs[i][k] = "done"
<1>1. jobs \in Seq(Job) /\ jobs[j] \in Job
  BY DEF IInv, Typed
<1>2. CASE Cancels(j)
  <2> DEFINE new == [jobs[j] EXCEPT !.state = IF @ = "CANCELED" THEN @ ELSE "CANCELLING"]
  <2>1. new \in Job /\ \A k \in Kinds : new[k] = jobs[j][k]
    BY <1>1 DEF Job, Kinds
  <2>2. jobs' = [jobs EXCEPT ![j] = new]
    BY <1>2 DEF Cancels
  <2> HIDE DEF new
  <2> QED
    BY <2>1, <2>2, JobChanged
<1>3. CASE UNCHANGED jobs
  BY <1>1, <1>3
<1> QED
  BY <1>2, <1>3

(* A controller remembers a savepoint it has seen completed; or forgets all.  *)
LEMMA RememberFacts ==
  ASSUME IInv, NEW t \in Threads, NEW sp \in {None} \cup DOMAIN jobs,
         last' = [last EXCEPT ![Home[t]] = sp],
         Home[t] \notin overlapped => sp \notin stale[Home[t]]
  PROVE  /\ last' \in [Controllers -> {None} \cup DOMAIN jobs]
         /\ \A c \in Controllers \ overlapped : last'[c] = last[c] \/ last'[c] \notin stale[c]
BY FlinkConfig DEF IInv, Typed, TypeOK

(* A step that does not move last_savepoint leaves every pointer what it was. *)
LEMMA LastKept ==
  ASSUME IInv, UNCHANGED last
  PROVE  /\ last' \in [Controllers -> {None} \cup DOMAIN jobs]
         /\ \A c \in Controllers \ overlapped : last'[c] = last[c] \/ last'[c] \notin stale[c]
BY DEF IInv, Typed, TypeOK

(* None is the number of no job.                                              *)
LEMMA NoneIsFresh == ASSUME IInv, NEW c \in Controllers PROVE None \notin stale[c]
BY JobFacts DEF IInv, Typed, None

(* What a controller remembers of a savepoint it has waited for.              *)
LEMMA LocationFacts ==
  ASSUME IInv, NEW t \in Threads, call[t].at \in {"poll", "watch"},
         NEW sp \in Location(call[t].job, Awaited(call[t]))
  PROVE  sp \in {None} \cup DOMAIN jobs /\ (Home[t] \notin overlapped => sp \notin stale[Home[t]])
<1>1. /\ call[t].job \in DOMAIN jobs /\ Home[t] \in Controllers /\ Fresh(t)
  BY JobFacts DEF IInv, WithJob
<1>2. \/ sp = None
      \/ sp = call[t].job /\ jobs[call[t].job][Awaited(call[t])] = "done"
  BY DEF Location
<1>3. CASE sp = None
  BY <1>1, <1>3, NoneIsFresh
<1>4. CASE sp = call[t].job /\ jobs[call[t].job][Awaited(call[t])] = "done"
  BY <1>1, <1>4 DEF Fresh
<1> QED
  BY <1>2, <1>3, <1>4

(* A step that leaves the jobs alone finishes no savepoint.                   *)
LEMMA JobsKept ==
  ASSUME IInv, UNCHANGED jobs
  PROVE  /\ jobs' \in Seq(Job) /\ DOMAIN jobs' = DOMAIN jobs
         /\ \A j \in DOMAIN jobs, k \in Kinds : jobs'[j][k] = "done" => jobs[j][k] = "done"
BY DEF IInv, Typed

(* pause_job, step by step.                                                   *)
LEMMA PauseKeeps ==
  ASSUME IInv, NEW t \in Threads,
         StopRequest(t) \/ PollStop(t) \/ CancelRequest(t) \/ Confirm(t)
  PROVE  IInv'
<1>1. /\ call[t].at \in WithJob => call[t].job \in DOMAIN jobs
      /\ Home[t] \in Controllers /\ paused \subseteq Stops /\ Fresh(t)
  BY JobFacts DEF IInv, Typed, TypeOK, Stops
<1>2. CASE StopRequest(t)
  <2>1. PICK accepted, answered \in BOOLEAN :
          /\ Requested(call[t].job, "stop", accepted)
          /\ Goto(t, IF accepted /\ answered THEN "poll" ELSE "cancel")
    BY <1>2 DEF StopRequest
  <2>2. /\ call[t].at = "stop" /\ call[t].job \in DOMAIN jobs
        /\ UNCHANGED <<last, paused, stale, overlapped>>
    BY <1>1, <1>2 DEF StopRequest, WithJob
  <2>3. /\ jobs' \in Seq(Job) /\ DOMAIN jobs' = DOMAIN jobs
        /\ \A i \in DOMAIN jobs, k \in Kinds : jobs'[i][k] = "done" => jobs[i][k] = "done"
        /\ accepted => jobs'[call[t].job].stop = "pending"
    BY <2>1, <2>2, RequestFacts DEF Kinds
  <2> QED
    BY <1>1, <2>1, <2>2, <2>3, LastKept, MovesOn DEF WithJob
<1>3. CASE PollStop(t)
  <2>1. /\ call[t].at = "poll" /\ call[t].job \in DOMAIN jobs
        /\ UNCHANGED <<jobs, paused, stale, overlapped>>
    BY <1>1, <1>3 DEF PollStop, WithJob
  <2>2. ASSUME NEW sp \in Location(call[t].job, "stop"),
               last' = [last EXCEPT ![Home[t]] = sp],
               Goto(t, IF sp = None THEN "trust" ELSE "confirm")
        PROVE  IInv'
    <3>1. /\ sp \in {None} \cup DOMAIN jobs
          /\ Home[t] \notin overlapped => sp \notin stale[Home[t]]
      BY <2>1, LocationFacts DEF Awaited
    <3>2. \E at \in {"confirm", "trust"} : Goto(t, at)
      BY <2>2
    <3> QED
      BY <1>1, <2>1, <2>2, <3>1, <3>2, JobsKept, RememberFacts, MovesOn DEF WithJob
  <2>3. CASE (Goto(t, "cancel") \/ PollAgain(t)) /\ UNCHANGED last
    BY <1>1, <2>1, <2>3, JobsKept, LastKept, MovesOn DEF WithJob
  <2> QED
    BY <1>3, <2>2, <2>3 DEF PollStop
<1>4. CASE CancelRequest(t)
  <2>1. /\ call[t].at \in {"cancel", "cli"} /\ call[t].job \in DOMAIN jobs
        /\ UNCHANGED <<paused, stale, overlapped>>
        /\ Cancels(call[t].job) \/ UNCHANGED jobs
    BY <1>1, <1>4 DEF CancelRequest, Cancelled, WithJob
  <2>2. /\ jobs' \in Seq(Job) /\ DOMAIN jobs' = DOMAIN jobs
        /\ \A i \in DOMAIN jobs, k \in Kinds : jobs'[i][k] = "done" => jobs[i][k] = "done"
    BY <2>1, CancelFacts
  <2>3. CASE Cancelled(t)
    BY <1>1, <2>1, <2>2, <2>3, NoneIsFresh, RememberFacts, MovesOn DEF Cancelled, WithJob
  <2>4. CASE (Goto(t, "cli") \/ Return(t)) /\ UNCHANGED last
    BY <1>1, <2>1, <2>2, <2>4, LastKept, MovesOn DEF WithJob
  <2> QED
    BY <1>4, <2>3, <2>4 DEF CancelRequest
<1>5. CASE Confirm(t)
  <2>1. /\ call[t].at \in {"confirm", "trust"} /\ call[t].job \in DOMAIN jobs
        /\ UNCHANGED <<jobs, last, stale, overlapped>>
        /\ Return(t) \/ PollAgain(t)
        /\ paused' \subseteq Stops
    BY <1>1, <1>5 DEF Confirm, WithJob, Stops
  <2> QED
    BY <2>1, JobsKept, LastKept, MovesOn
<1> QED
  BY <1>2, <1>3, <1>4, <1>5

(* resume_job: what it confirms makes every savepoint old that is completed   *)
(* by then, and the controller forgets the one it had.                        *)
LEMMA ResumeKeeps == ASSUME IInv, NEW t \in Threads, Submit(t) \/ AwaitJob(t) PROVE IInv'
<1>0. paused \subseteq Stops
  BY DEF IInv, Typed, TypeOK, Stops
<1>1. CASE Submit(t)
  BY <1>0, <1>1, JobsKept, LastKept, MovesOn DEF Submit
<1>2. CASE AwaitJob(t) /\ UNCHANGED <<last, stale>>
  BY <1>0, <1>2, JobsKept, LastKept, MovesOn DEF AwaitJob, Return
<1>3. CASE AwaitJob(t) /\ Confirmed(t) /\ Return(t)
  <2> DEFINE old == {j \in DOMAIN jobs : "done" \in {jobs[j].stop, jobs[j].copy}}
  <2>1. /\ call[t].at = "await" /\ UNCHANGED <<jobs, paused, overlapped>>
        /\ call' = [call EXCEPT ![t] = NoCall]
        /\ last' = [last EXCEPT ![Home[t]] = None]
        /\ stale' = [stale EXCEPT ![Home[t]] = old]
    BY <1>3 DEF AwaitJob, Confirmed, Return
  <2>2. Typed /\ Home[t] \in Controllers /\ NoCall \in Call /\ NoCall.at = "none"
        /\ NoCall.job = None /\ call[t] # NoCall
    BY <2>1, JobFacts DEF IInv, NoCall, Call, Places, None
  <2>3. /\ call' \in [Threads -> Call] /\ call'[t] = NoCall
        /\ \A u \in Threads \ {t} : call'[u] = call[u]
        /\ stale' \in [Controllers -> SUBSET DOMAIN jobs] /\ stale'[Home[t]] = old
        /\ \A c \in Controllers \ {Home[t]} : stale'[c] = stale[c] /\ last'[c] = last[c]
        /\ last' \in [Controllers -> {None} \cup DOMAIN jobs] /\ last'[Home[t]] = None
    BY <2>1, <2>2 DEF Typed, TypeOK
  <2>4. Typed'
    BY <2>1, <2>2, <2>3 DEF Typed, TypeOK
  <2>5. ASSUME NEW u \in Threads PROVE CallFits(u)'
    BY <2>1, <2>2, <2>3 DEF IInv, CallFits, WithJob
  <2>6. OverlapNoted'
    BY <2>1, <2>3 DEF IInv, OverlapNoted
  <2>7. ASSUME NEW u \in Threads PROVE Fresh(u)'
    <3>1. CASE u = t
      BY <2>2, <2>3, <3>1 DEF Fresh
    <3>2. CASE u # t /\ Home[u] = Home[t]
      BY <2>1, <2>2, <2>3, <3>2 DEF IInv, OverlapNoted, Fresh, NoCall
    <3>3. CASE u # t /\ Home[u] # Home[t]
      <4>1. Home[u] \in Controllers /\ Fresh(u)
        BY JobFacts DEF IInv
      <4> QED
        BY <2>1, <2>3, <3>3, <4>1 DEF Fresh, Awaited
    <3> QED
      BY <3>1, <3>2, <3>3
  <2>8. PointerIsCurrent'
    <3>1. None \notin old
      BY JobFacts DEF None
    <3> QED
      BY <2>1, <2>3, <3>1 DEF IInv, PointerIsCurrent
  <2> QED
    BY <2>4, <2>5, <2>6, <2>7, <2>8 DEF IInv
<1> QED
  BY <1>1, <1>2, <1>3 DEF AwaitJob

(* trigger_savepoint, step by step.                                           *)
LEMMA TriggerKeeps ==
  ASSUME IInv, NEW t \in Threads, SavepointRequest(t) \/ WatchSavepoint(t)
  PROVE  IInv'
<1>1. /\ call[t].at \in WithJob => call[t].job \in DOMAIN jobs
      /\ call[t].at \in {"request", "watch"} => call[t].op \in Kinds
      /\ Home[t] \in Controllers /\ paused \subseteq Stops /\ Fresh(t)
  BY JobFacts DEF IInv, CallFits, Typed, TypeOK, Stops
<1>2. CASE SavepointRequest(t)
  <2>1. PICK accepted, answered \in BOOLEAN :
          /\ Requested(call[t].job, call[t].op, accepted)
          /\ IF accepted /\ answered THEN Goto(t, "watch") ELSE Return(t)
    BY <1>2 DEF SavepointRequest
  <2>2. /\ call[t].at = "request" /\ call[t].job \in DOMAIN jobs /\ call[t].op \in Kinds
        /\ UNCHANGED <<last, paused, stale, overlapped>>
    BY <1>1, <1>2 DEF SavepointRequest, WithJob
  <2>3. /\ jobs' \in Seq(Job) /\ DOMAIN jobs' = DOMAIN jobs
        /\ \A i \in DOMAIN jobs, k \in Kinds : jobs'[i][k] = "done" => jobs[i][k] = "done"
        /\ accepted => jobs'[call[t].job][call[t].op] = "pending"
    BY <2>1, <2>2, RequestFacts
  <2> QED
    BY <1>1, <2>1, <2>2, <2>3, LastKept, MovesOn
<1>3. CASE WatchSavepoint(t)
  <2>1. /\ call[t].at = "watch" /\ call[t].job \in DOMAIN jobs
        /\ UNCHANGED <<jobs, paused, stale, overlapped>>
        /\ Return(t) \/ PollAgain(t)
    BY <1>1, <1>3 DEF WatchSavepoint, WithJob
  <2>2. ASSUME NEW sp \in Location(call[t].job, call[t].op),
               last' = [last EXCEPT ![Home[t]] = sp]
        PROVE  IInv'
    <3>1. /\ sp \in {None} \cup DOMAIN jobs
          /\ Home[t] \notin overlapped => sp \notin stale[Home[t]]
      BY <2>1, LocationFacts DEF Awaited
    <3> QED
      BY <1>1, <2>1, <2>2, <3>1, JobsKept, RememberFacts, MovesOn
  <2>3. CASE UNCHANGED last
    BY <1>1, <2>1, <2>3, JobsKept, LastKept, MovesOn
  <2> QED
    BY <1>3, <2>2, <2>3 DEF WatchSavepoint
<1> QED
  BY <1>2, <1>3
-------------------------------------------------------------------------------

(* The invariant at the start: one job running, no savepoint taken, no        *)
(* pointer set.                                                               *)
LEMMA InitInv == Init => IInv
<1> SUFFICES ASSUME Init PROVE IInv
  OBVIOUS
<1> DEFINE first == [NewJob EXCEPT !.state = "RUNNING"]
<1>1. /\ NoCall \in Call /\ NoCall.at = "none" /\ NoCall.job = None
      /\ first \in Job
  BY DEF NoCall, Call, Places, None, NewJob, Job, ActiveStates, Progress
<1>2. jobs = <<first>> /\ jobs \in Seq(Job) /\ \A j \in DOMAIN jobs : jobs[j] \in Job
  BY <1>1 DEF Init
<1> HIDE DEF first
<1>3. /\ \A t \in Threads : call[t] = NoCall
      /\ call \in [Threads -> Call]
      /\ last \in [Controllers -> {None} \cup DOMAIN jobs]
      /\ stale \in [Controllers -> SUBSET DOMAIN jobs] /\ paused = {}
      /\ \A c \in Controllers : stale[c] = {}
  BY <1>1 DEF Init
<1>4. Typed
  BY <1>1, <1>2, <1>3 DEF Typed, TypeOK, Job
<1>5. \A t \in Threads : CallFits(t) /\ Fresh(t)
  BY <1>1, <1>3 DEF CallFits, Fresh, WithJob
<1>6. OverlapNoted /\ PointerIsCurrent
  BY <1>3 DEF OverlapNoted, PointerIsCurrent
<1> QED
  BY <1>4, <1>5, <1>6 DEF IInv

(* The invariant is inductive: every step of Flink, of the threads and of the *)
(* processes keeps it.                                                        *)
LEMMA StepInv == IInv /\ [Next]_vars => IInv'
<1> SUFFICES ASSUME IInv, [Next]_vars PROVE IInv'
  OBVIOUS
<1>1. CASE Flink
  BY <1>1, FlinkStepKeeps
<1>2. ASSUME NEW t \in Threads,
             PauseJob(t) \/ ResumeJob(t) \/ \E kind \in {"stop", "copy"} : TriggerSavepoint(t, kind)
      PROVE  IInv'
  BY <1>2, BeginningsKeep DEF Kinds
<1>3. ASSUME NEW t \in Threads, Continue(t) PROVE IInv'
  BY <1>3, PauseKeeps, ResumeKeeps, TriggerKeeps DEF Continue
<1>4. CASE UNCHANGED <<jobs, last, call, paused, stale, overlapped>>
  BY <1>4, JobsKept, FlinkKeeps DEF IInv, Typed
<1>5. CASE ScriptChecks \/ ScriptSubmits \/ ScriptPolls \/ UNCHANGED vars
  BY <1>4, <1>5 DEF ScriptChecks, ScriptSubmits, ScriptPolls, vars
<1> QED
  BY <1>1, <1>2, <1>3, <1>5 DEF Next

(* A savepoint that a thread of a controller sees completed is newer than     *)
(* every job this controller has confirmed, whatever Flink, the other         *)
(* processes and submit_flink_job.py do meanwhile.                            *)
THEOREM FlinkInvariant == Spec => []IInv
<1>1. Init => IInv
  BY InitInv
<1>2. IInv /\ [Next]_vars => IInv'
  BY StepInv
<1> QED
  BY <1>1, <1>2, PTL DEF Spec

(* resume_job never starts from a savepoint older than what the last job it   *)
(* confirmed has ingested, for a controller called by one thread at a time:   *)
(* _last_savepoint_path is current.                                           *)
THEOREM FlinkPointerIsCurrent == Spec => []PointerIsCurrent
<1>1. IInv => PointerIsCurrent
  BY DEF IInv
<1> QED
  BY <1>1, FlinkInvariant, PTL
===============================================================================
