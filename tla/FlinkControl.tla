------------------------------ MODULE FlinkControl ------------------------------
(***************************************************************************)
(* The control of the Bronze streaming job: every process has one          *)
(* FlinkController, which its threads share (the remediation run and the   *)
(* pause and resume of the API), and scripts/submit_flink_job.py submits   *)
(* the same job beside them. A call is a sequence of requests to Flink,    *)
(* and a step of this module is one request; each may fail, or reach Flink *)
(* and lose its answer.                                                    *)
(*                                                                         *)
(* Jobs are numbered in the order in which they appear. A savepoint is     *)
(* named by the job it was taken of.                                       *)
(***************************************************************************)
EXTENDS Naturals, Sequences, FiniteSets

CONSTANTS Controllers,   \* processes, each with one FlinkController
          Threads,       \* threads that call the controllers
          Home,          \* the controller of each thread
          MaxPolls,      \* polls of a loop: 15 and 20 for savepoints, 10 and 15 for jobs
          MaxJobs, MaxCalls  \* bounds

ASSUME FlinkConfig ==
  /\ Home \in [Threads -> Controllers]
  /\ MaxPolls \in Nat \ {0}

VARIABLES jobs,          \* the jobs of the cluster: state, and how far the savepoint is
                         \* that stops the job (stop), or leaves it running (copy)
          queued,        \* submissions the sql-client has not brought to the cluster
          last,          \* _last_savepoint_path of each controller, None if unset
          call,          \* the call each thread is in
          script,        \* where submit_flink_job.py is
          calls,         \* calls so far
          paused,        \* history: jobs a pause has reported stopped, and where it was
          stale,         \* history, per controller: savepoints completed before a job it confirmed
          overlapped     \* history: controllers that two threads called at once

vars == <<jobs, queued, last, call, script, calls, paused, stale, overlapped>>
control == <<last, call, script, calls, paused, stale, overlapped>>

None == 0
Terminal == {"CANCELED", "FINISHED", "FAILED"}
Progress == {"none", "pending", "done", "failed"}
NoCall == [op |-> "none", at |-> "none", job |-> None, left |-> 0]
NewJob == [state |-> "CREATED", stop |-> "none", copy |-> "none"]

Init ==
  /\ jobs = <<[NewJob EXCEPT !.state = "RUNNING"]>>
  /\ queued = {}
  /\ last = [c \in Controllers |-> None]
  /\ call = [t \in Threads |-> NoCall]
  /\ script = "idle"
  /\ calls = 0
  /\ paused = {}
  /\ stale = [c \in Controllers |-> {}]
  /\ overlapped = {}

-------------------------------------------------------------------------------
(* Flink, as the controller uses it.                                         *)

JobAppears(q) ==
  /\ q \in queued /\ queued' = queued \ {q}
  /\ Len(jobs) < MaxJobs
  /\ jobs' = Append(jobs, NewJob)
  /\ UNCHANGED control

JobRefused(q) ==
  /\ q \in queued /\ queued' = queued \ {q}
  /\ UNCHANGED <<jobs, control>>

(* A savepoint under way comes to nothing when its job ends.                  *)
Ended(job, state) ==
  [state |-> state,
   stop |-> IF job.stop = "pending" THEN "failed" ELSE job.stop,
   copy |-> IF job.copy = "pending" THEN "failed" ELSE job.copy]

JobMoves(j) ==
  /\ jobs' = [jobs EXCEPT ![j] =
       CASE @.state \in {"CREATED", "RESTARTING"} -> [@ EXCEPT !.state = "RUNNING"]
         [] @.state = "RUNNING"                   -> Ended(@, "RESTARTING")
         [] OTHER                                 -> @]
  /\ jobs' # jobs
  /\ UNCHANGED <<queued, control>>

JobFails(j) ==
  /\ jobs[j].state \in {"CREATED", "RESTARTING"}
  /\ jobs' = [jobs EXCEPT ![j] = Ended(@, "FAILED")]
  /\ UNCHANGED <<queued, control>>

JobCancelled(j) ==
  /\ jobs[j].state = "CANCELLING"
  /\ jobs' = [jobs EXCEPT ![j] = Ended(@, "CANCELED")]
  /\ UNCHANGED <<queued, control>>

Refreshed(j) == stale' = [c \in Controllers |-> stale[c] \ {j}]

StopCompletes(j) ==
  /\ jobs[j].state = "RUNNING" /\ jobs[j].stop = "pending"
  /\ jobs' = [jobs EXCEPT ![j] = Ended([@ EXCEPT !.stop = "done"], "FINISHED")]
  /\ Refreshed(j)
  /\ UNCHANGED <<queued, last, call, script, calls, paused, overlapped>>

CopyCompletes(j) ==
  /\ jobs[j].state = "RUNNING" /\ jobs[j].copy = "pending"
  /\ jobs' = [jobs EXCEPT ![j].copy = "done"]
  /\ Refreshed(j)
  /\ UNCHANGED <<queued, last, call, script, calls, paused, overlapped>>

SavepointFails(j, kind) ==
  /\ jobs[j][kind] = "pending"
  /\ jobs' = [jobs EXCEPT ![j][kind] = "failed"]
  /\ UNCHANGED <<queued, control>>

-------------------------------------------------------------------------------
(* CREATED stands for INITIALIZING, too.                                     *)
ActiveStates == {"RUNNING", "CREATED", "RESTARTING"}

(* get_active_job_id: the first active job of an overview in no stated order, *)
(* None if there is none or if the request fails.                            *)
ActiveJobIds == {None} \cup {j \in DOMAIN jobs : jobs[j].state \in ActiveStates}

(* get_job_status: None if the request fails.                                *)
Statuses(j) == {"none", jobs[j].state}

Begin(t, op, at, j) ==
  /\ call[t] = NoCall
  /\ calls < MaxCalls /\ calls' = calls + 1
  /\ call' = [call EXCEPT ![t] = [op |-> op, at |-> at, job |-> j, left |-> MaxPolls]]
  /\ overlapped' = overlapped \cup
       {Home[u] : u \in {v \in Threads \ {t} : Home[v] = Home[t] /\ call[v] # NoCall}}

Goto(t, at) == call' = [call EXCEPT ![t].at = at, ![t].left = MaxPolls]
Return(t) == call' = [call EXCEPT ![t] = NoCall]
PollAgain(t) == call[t].left > 1 /\ call' = [call EXCEPT ![t].left = @ - 1]

(* A request for a savepoint of a running job: accepted or not.              *)
Requested(j, kind, accepted) ==
  /\ accepted => jobs[j].state = "RUNNING"
  /\ jobs' = IF accepted THEN [jobs EXCEPT ![j][kind] = "pending"] ELSE jobs

-------------------------------------------------------------------------------
(* pause_job: answers SKIPPED, and does nothing, when it sees no active job.  *)

PauseJob(t) ==
  /\ \E j \in ActiveJobIds \ {None} : Begin(t, "pause", "stop", j)
  /\ UNCHANGED <<jobs, queued, last, script, paused, stale>>

(* POST /jobs/:id/stop; whatever goes wrong leads to the cancellation.       *)
StopRequest(t) ==
  /\ call[t].at = "stop"
  /\ \E accepted, answered \in BOOLEAN :
       /\ Requested(call[t].job, "stop", accepted)
       /\ Goto(t, IF accepted /\ answered THEN "poll" ELSE "cancel")
  /\ UNCHANGED <<queued, last, script, calls, paused, stale, overlapped>>

(* What a COMPLETED status leaves in _last_savepoint_path. Flink says so of a *)
(* savepoint that has failed, too, which has a failure-cause and no location. *)
Location(j, kind) ==
  CASE jobs[j][kind] = "done"   -> {j}
    [] jobs[j][kind] = "failed" -> {None}
    [] OTHER                    -> {}

(* A completed operation counts as a stop and spares the cancellation: with   *)
(* no location, the pause trusts in the stop of a job that runs on.          *)
PollStop(t) ==
  /\ call[t].at = "poll"
  /\ \/ \E sp \in Location(call[t].job, "stop") :
           /\ last' = [last EXCEPT ![Home[t]] = sp]
           /\ Goto(t, IF sp = None THEN "trust" ELSE "confirm")
     \/ /\ jobs[call[t].job].stop = "failed" \/ call[t].left = 1
        /\ Goto(t, "cancel")
        /\ UNCHANGED last
     \/ /\ PollAgain(t)
        /\ UNCHANGED last
  /\ UNCHANGED <<jobs, queued, script, calls, paused, stale, overlapped>>

(* Flink cancels a job that has not ended, and accepts to cancel one it has. *)
Cancels(j) ==
  /\ jobs[j].state \notin {"FINISHED", "FAILED"}
  /\ jobs' = [jobs EXCEPT ![j].state = IF @ = "CANCELED" THEN @ ELSE "CANCELLING"]

(* A deviation: a cancellation that was refused counts as made.              *)
CancelledAnyway(t) ==
  /\ Cancels(call[t].job) \/ UNCHANGED jobs
  /\ last' = [last EXCEPT ![Home[t]] = None]
  /\ Goto(t, "confirm")

(* A cancellation that was answered forgets every savepoint.                 *)
Cancelled(t) ==
  /\ Cancels(call[t].job)
  /\ last' = [last EXCEPT ![Home[t]] = None]
  /\ Goto(t, "confirm")

(* PATCH /jobs/:id, then the command line; FAILED when neither answers,      *)
(* which leaves the savepoint of an earlier pause as it was.                 *)
CancelRequest(t) ==
  /\ call[t].at \in {"cancel", "cli"}
  /\ \/ Cancelled(t)
     \/ /\ Cancels(call[t].job) \/ UNCHANGED jobs
        /\ IF call[t].at = "cancel" THEN Goto(t, "cli") ELSE Return(t)
        /\ UNCHANGED last
  /\ UNCHANGED <<queued, script, calls, paused, stale, overlapped>>

(* SUCCESS if the job is seen ended or not seen to be the active one: a      *)
(* request that fails is taken for an answer, too.                           *)
Confirm(t) ==
  /\ call[t].at \in {"confirm", "trust"}
  /\ LET j == call[t].job IN
     \E status \in Statuses(j), active \in ActiveJobIds :
       IF status \in Terminal \/ active # j
       THEN Return(t) /\ paused' = paused \cup {<<j, call[t].at>>}
       ELSE (PollAgain(t) \/ (call[t].left = 1 /\ Return(t))) /\ UNCHANGED paused
  /\ UNCHANGED <<jobs, queued, last, script, calls, stale, overlapped>>

-------------------------------------------------------------------------------
(* resume_job: SKIPPED when it sees an active job.                           *)

ResumeJob(t) ==
  /\ None \in ActiveJobIds
  /\ Begin(t, "resume", "submit", last[Home[t]])
  /\ UNCHANGED <<jobs, queued, last, script, paused, stale>>

Submission(who, sp) == [savepoint |-> sp, id |-> <<who, calls>>]

(* docker exec sql-client.sh with the savepoint taken up before: the exit    *)
(* code is not looked at, and a client that is given up after 20 seconds is  *)
(* not stopped.                                                              *)
Submit(t) ==
  /\ call[t].at = "submit"
  /\ queued' \in {queued, queued \cup {Submission(t, call[t].job)}}
  /\ Goto(t, "await") \/ Return(t)
  /\ UNCHANGED <<jobs, last, script, calls, paused, stale, overlapped>>

(* A deviation: the savepoint a resume has used stays remembered.            *)
ConfirmedKeeping(t) ==
  /\ last' = last
  /\ stale' = [stale EXCEPT ![Home[t]] =
       {j \in DOMAIN jobs : "done" \in {jobs[j].stop, jobs[j].copy}}]

Confirmed(t) ==
  /\ last' = [last EXCEPT ![Home[t]] = None]
  /\ stale' = [stale EXCEPT ![Home[t]] =
       {j \in DOMAIN jobs : "done" \in {jobs[j].stop, jobs[j].copy}}]

(* SUCCESS with any active job that is seen, whoever submitted it.           *)
AwaitJob(t) ==
  /\ call[t].at = "await"
  /\ \/ ActiveJobIds # {None} /\ Confirmed(t) /\ Return(t)
     \/ /\ PollAgain(t) \/ (call[t].left = 1 /\ Return(t))
        /\ UNCHANGED <<last, stale>>
  /\ UNCHANGED <<jobs, queued, script, calls, paused, overlapped>>

-------------------------------------------------------------------------------
(* trigger_savepoint: kind is "stop" with cancel, else "copy".               *)

TriggerSavepoint(t, kind) ==
  /\ \E j \in ActiveJobIds \ {None} : Begin(t, kind, "request", j)
  /\ UNCHANGED <<jobs, queued, last, script, paused, stale>>

SavepointRequest(t) ==
  /\ call[t].at = "request"
  /\ \E accepted, answered \in BOOLEAN :
       /\ Requested(call[t].job, call[t].op, accepted)
       /\ IF accepted /\ answered THEN Goto(t, "watch") ELSE Return(t)
  /\ UNCHANGED <<queued, last, script, calls, paused, stale, overlapped>>

WatchSavepoint(t) ==
  /\ call[t].at = "watch"
  /\ \/ \E sp \in Location(call[t].job, call[t].op) :
           Return(t) /\ last' = [last EXCEPT ![Home[t]] = sp]
     \/ /\ jobs[call[t].job][call[t].op] = "failed" \/ call[t].left = 1
        /\ Return(t) /\ UNCHANGED last
     \/ /\ PollAgain(t) /\ UNCHANGED last
  /\ UNCHANGED <<jobs, queued, script, calls, paused, stale, overlapped>>

-------------------------------------------------------------------------------
(* submit_flink_job.py: it submits without a savepoint, unless it sees a job *)
(* RUNNING, which it does not when the request fails, nor a job that starts. *)

get_running_icestream_jobs == {{}, {j \in DOMAIN jobs : jobs[j].state = "RUNNING"}}

ScriptChecks ==
  /\ script = "idle" /\ script' = "submit"
  /\ {} \in get_running_icestream_jobs
  /\ calls < MaxCalls /\ calls' = calls + 1
  /\ UNCHANGED <<jobs, queued, last, call, paused, stale, overlapped>>

(* Whatever comes of the sql-client, the script goes on to look for a job.   *)
submit_sql(sp) == queued' \in {queued, queued \cup {Submission("script", sp)}}

ScriptSubmits ==
  /\ script = "submit" /\ script' = "poll"
  /\ submit_sql(None)
  /\ UNCHANGED <<jobs, last, call, calls, paused, stale, overlapped>>

(* poll_for_new_job and what follows only tell what to print.                *)
ScriptPolls ==
  /\ script = "poll" /\ script' = "idle"
  /\ UNCHANGED <<jobs, queued, last, call, calls, paused, stale, overlapped>>

-------------------------------------------------------------------------------

Flink ==
  \/ \E q \in queued : JobAppears(q) \/ JobRefused(q)
  \/ \E j \in DOMAIN jobs :
       \/ JobMoves(j) \/ JobFails(j) \/ JobCancelled(j)
       \/ StopCompletes(j) \/ CopyCompletes(j)
       \/ \E kind \in {"stop", "copy"} : SavepointFails(j, kind)

Continue(t) ==
  \/ StopRequest(t) \/ PollStop(t) \/ CancelRequest(t) \/ Confirm(t)
  \/ Submit(t) \/ AwaitJob(t) \/ SavepointRequest(t) \/ WatchSavepoint(t)

Next ==
  \/ Flink
  \/ \E t \in Threads :
       \/ PauseJob(t) \/ ResumeJob(t)
       \/ \E kind \in {"stop", "copy"} : TriggerSavepoint(t, kind)
       \/ Continue(t)
  \/ ScriptChecks \/ ScriptSubmits \/ ScriptPolls

(* Flink ends a job it has agreed to cancel.                                 *)
Fairness == \A j \in 1..MaxJobs : WF_vars(j \in DOMAIN jobs /\ JobCancelled(j))

Spec == Init /\ [][Next]_vars /\ Fairness

-------------------------------------------------------------------------------

TypeOK ==
  /\ \A j \in DOMAIN jobs :
       /\ jobs[j].state \in ActiveStates \cup Terminal \cup {"CANCELLING"}
       /\ {jobs[j].stop, jobs[j].copy} \subseteq Progress
  /\ \A t \in Threads : call[t].job \in {None} \cup DOMAIN jobs
  /\ last \in [Controllers -> {None} \cup DOMAIN jobs]
  /\ paused \subseteq (DOMAIN jobs) \X {"confirm", "trust"}

(* A pause that answers SUCCESS has stopped its job, or made sure that it    *)
(* will stop: although a failed request counts as a confirmation, the answer *)
(* is never given for cancellations that were refused, nor for a job that    *)
(* another thread or the script has started. It is given, against the        *)
(* comment on the confirmation, for a savepoint that failed and was reported *)
(* COMPLETED: the pause then only trusts that its job has stopped.           *)
PausedJobStops ==
  \A j \in 1..MaxJobs :
    <<j, "confirm">> \in paused ~> j \in DOMAIN jobs /\ jobs[j].state \in Terminal

(* A controller called by one thread at a time never holds a savepoint that  *)
(* was completed before a job it has confirmed: its next resume does not     *)
(* take the stream back behind what that job has ingested, however requests  *)
(* fail, submissions come late, and other processes stop and start jobs.     *)
PointerIsCurrent ==
  \A c \in Controllers \ overlapped : last[c] \notin stale[c]
===============================================================================
