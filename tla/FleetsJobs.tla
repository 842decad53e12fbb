----------------------------- MODULE FleetsJobs -----------------------------
(***************************************************************************)
(* The life of the Fleets (Code Engine) jobs: the single-threaded          *)
(* scheduler that submits them, polls them and stops the blocked ones      *)
(* (scheduler/schedule.py, schedule_fleets_jobs.py,                        *)
(* update_fleets_jobs_statuses.py, stop_blocked_fleets_jobs.py), the stop  *)
(* requests of the API and of the backoffice (api/use_cases/jobs/stop.py,  *)
(* api/admin.py), and Code Engine with its task store, which are external. *)
(*                                                                         *)
(* An actor works on a Job instance it loaded earlier, so everything it    *)
(* decides on outside a transaction may be stale.  Every call to Code      *)
(* Engine and every transaction is a step of its own; the scheduler may    *)
(* crash, and a request may die, between any two of them.                  *)
(***************************************************************************)
EXTENDS JobTransitions

CONSTANTS Requests,     \* stop requests, each served once
          Backoffice,   \* those made with the Stop button of the backoffice
          Scheduler,    \* the scheduler loop
          NoJob,
          MayBlock,     \* jobs whose account, plan or subscription may be blocked
          MayLoseProgram, \* jobs whose program may be deleted
          Region,       \* ce_region of each job
          LIMITS_MAX_FLEETS,
          MaxCrashes    \* bound on scheduler crashes

ASSUME ActorsAssumption ==
    /\ Backoffice \subseteq Requests
    /\ Scheduler \notin Requests
    /\ NoJob \notin Jobs
    /\ MayBlock \subseteq Jobs \ Filler
    /\ MayLoseProgram \subseteq Jobs
    /\ DOMAIN Region = Jobs
    /\ LIMITS_MAX_FLEETS \in Nat
    /\ MaxCrashes \in Nat

VARIABLES
    \* Code Engine, the task store and the clock
    fleet,      \* what the task store says of the job's fleet; "none": never created
    gone,       \* Code Engine no longer has the fleet
    cancelSent, \* Code Engine accepted a cancel of the fleet
    lost,       \* the fleet exists and its create never reached RecordFleet
    expired,    \* PROGRAM_TIMEOUT has passed since the first RUNNING event
    overdue,    \* _STOPPING_DEADLINE_SECONDS have passed since the STOPPING event
    \* the other rows of the database that the handlers read
    program,    \* Job.program is set
    blocked,    \* BlockedCloudResource matches the job
    \* the scheduler
    task,       \* the task of the tick that is running
    batch,      \* the instances its query loaded and it has not reached yet
    reading,    \* the last FleetsRunner.status(), or the status to end with
    owed,       \* jobs StopBlockedFleetsJobs stopped in this pass
    crashes,
    \* every actor
    pc,         \* the next step of the handler
    on,         \* the job the actor is working on
    mem,        \* its Job instance, as loaded
    tries,      \* the attempt of _try_stop_with_retries
    result      \* what a request answered

envVars == <<fleet, gone, cancelSent, lost, expired, overdue>>
schedVars == <<task, batch, reading, owed, crashes>>
actorVars == <<pc, on, mem, tries, result>>
vars == <<dbVars, envVars, program, blocked, schedVars, actorVars>>

Actors == Requests \cup {Scheduler}
FleetStates == {"none", "pending", "running", "succeeded", "failed", "canceled"}
Readings == Statuses \cup {"UNKNOWN"}
Tasks == {"ScheduleFleetsJobs", "UpdateFleetsJobsStatuses", "StopBlockedFleetsJobs"}
Instances == [status : Statuses, fleet : BOOLEAN, program : BOOLEAN, ran : BOOLEAN]
Blank == [status |-> "QUEUED", fleet |-> FALSE, program |-> TRUE, ran |-> FALSE]
NoBatch == [j \in {} |-> Blank]
Steps == {"idle", "fetch", "next", "submit", "fail", "record", "pending", "orphan", "read", "end",
          "torunning", "timeout", "block", "cancel", "stopping", "stopped", "tostopped", "lost", "done"}
Results == {"none", "stopping", "stopped", "already", "terminal", "left", "retry", "refused", "error"}

\* Type correctness: the columns of the row, what Code Engine holds, and the
\* locals of the scheduler and of every stop request.
TypeOK ==
    /\ DBTypeOK
    /\ fleet \in [Jobs -> FleetStates]
    /\ gone \in [Jobs -> BOOLEAN]
    /\ cancelSent \in [Jobs -> BOOLEAN]
    /\ lost \in [Jobs -> BOOLEAN]
    /\ expired \in [Jobs -> BOOLEAN]
    /\ overdue \in [Jobs -> BOOLEAN]
    /\ program \in [Jobs -> BOOLEAN]
    /\ blocked \in [Jobs -> BOOLEAN]
    /\ task \in Tasks
    /\ DOMAIN batch \subseteq Jobs
    /\ batch \in [DOMAIN batch -> Instances]
    /\ reading \in Readings
    /\ owed \subseteq Jobs
    /\ crashes \in 0..MaxCrashes
    /\ pc \in [Actors -> Steps]
    /\ on \in [Actors -> Jobs \cup {NoJob}]
    /\ mem \in [Actors -> Instances]
    /\ tries \in [Requests -> 1..2]
    /\ result \in [Requests -> Results]

Init ==
    /\ DBInit
    /\ fleet = [j \in Jobs |-> "none"]
    /\ gone = [j \in Jobs |-> FALSE]
    /\ cancelSent = [j \in Jobs |-> FALSE]
    /\ lost = [j \in Jobs |-> FALSE]
    /\ expired = [j \in Jobs |-> FALSE]
    /\ overdue = [j \in Jobs |-> FALSE]
    /\ program = [j \in Jobs |-> TRUE]
    /\ blocked = [j \in Jobs |-> FALSE]
    /\ task = "ScheduleFleetsJobs"
    /\ batch = NoBatch
    /\ reading = "UNKNOWN"
    /\ owed = {}
    /\ crashes = 0
    /\ pc = [a \in Actors |-> IF a = Scheduler THEN "fetch" ELSE "idle"]
    /\ on = [a \in Actors |-> NoJob]
    /\ mem = [a \in Actors |-> Blank]
    /\ tries = [a \in Requests |-> 1]
    /\ result = [a \in Requests |-> "none"]

\* The instance a query loads for the job, with_event_times() included.
Load(j) == [status |-> status[j], fleet |-> fleetId[j], program |-> program[j], ran |-> HasRun(j)]

-----------------------------------------------------------------------------
(* Handler bookkeeping. *)

GoTo(a, step) == pc' = [pc EXCEPT ![a] = step]

\* The handler of one job is over: the actor forgets its instance.
Forget(a) == mem' = [mem EXCEPT ![a] = Blank]

\* The loop of the current task moves on to its next job.
NextJob ==
    /\ GoTo(Scheduler, "next")
    /\ on' = [on EXCEPT ![Scheduler] = NoJob]
    /\ Forget(Scheduler)
    /\ reading' = "UNKNOWN"

\* An exception leaves the task's run(): main.py logs it and starts the next task.
TaskAfter(t) ==
    CASE t = "ScheduleFleetsJobs" -> "UpdateFleetsJobsStatuses"
      [] t = "UpdateFleetsJobsStatuses" -> "StopBlockedFleetsJobs"
      [] OTHER -> "ScheduleFleetsJobs"

LeaveTask(t) ==
    /\ task' = t
    /\ batch' = NoBatch
    /\ owed' = {}
    /\ GoTo(Scheduler, "fetch")
    /\ on' = [on EXCEPT ![Scheduler] = NoJob]
    /\ Forget(Scheduler)
    /\ reading' = "UNKNOWN"

\* A request answers its caller.
Answer(a, r) ==
    /\ GoTo(a, "done")
    /\ Forget(a)
    /\ result' = [result EXCEPT ![a] = r]

-----------------------------------------------------------------------------
(* The loop of each task: one query, then its jobs one by one. *)

\* Mutant: the status poll forgets the STOPPING jobs.
CandidatesWithoutStopping(t) ==
    CASE t = "ScheduleFleetsJobs" -> {j \in Jobs : status[j] = "QUEUED" /\ ~blocked[j]}
      [] t = "UpdateFleetsJobsStatuses" -> {j \in Jobs : status[j] \in {"PENDING", "RUNNING"}}
      [] OTHER -> {j \in Jobs : blocked[j] /\ status[j] \in {"PENDING", "RUNNING"}}

\* The jobs each query selects.  The order of the fair share, maintenance and
\* the per-user limits only narrow the queued batch, so any batch that fits
\* the free slots may come back.
Candidates(t) ==
    CASE t = "ScheduleFleetsJobs" -> {j \in Jobs : status[j] = "QUEUED" /\ ~blocked[j]}
      [] t = "UpdateFleetsJobsStatuses" -> {j \in Jobs : status[j] \in RUNNING_STATUSES}
      [] OTHER -> {j \in Jobs : blocked[j] /\ status[j] \in {"PENDING", "RUNNING"}}

Running == {j \in Jobs : status[j] \in RUNNING_STATUSES}

\* Mutant: the jobs that already hold a slot are not counted.
SelectionsIgnoringRunning(t) ==
    IF t = "ScheduleFleetsJobs"
    THEN {S \in SUBSET Candidates(t) : Cardinality(S) <= LIMITS_MAX_FLEETS}
    ELSE {Candidates(t)}

Selections(t) ==
    IF t = "ScheduleFleetsJobs"
    THEN {S \in SUBSET Candidates(t) : Cardinality(S) + Cardinality(Running) <= LIMITS_MAX_FLEETS \/ S = {}}
    ELSE {Candidates(t)}

FetchBatch ==
    /\ pc[Scheduler] = "fetch"
    /\ \E S \in Selections(task) : batch' = [j \in S |-> Load(j)]
    /\ GoTo(Scheduler, "next")
    /\ UNCHANGED <<dbVars, envVars, program, blocked, task, reading, owed, crashes, on, mem, tries, result>>

FirstStep(t) ==
    CASE t = "ScheduleFleetsJobs" -> "submit"
      [] t = "UpdateFleetsJobsStatuses" -> "read"
      [] OTHER -> "block"

TakeJob ==
    /\ pc[Scheduler] = "next"
    /\ \E j \in DOMAIN batch :
          /\ on' = [on EXCEPT ![Scheduler] = j]
          /\ mem' = [mem EXCEPT ![Scheduler] = batch[j]]
          /\ batch' = [k \in DOMAIN batch \ {j} |-> batch[k]]
    /\ GoTo(Scheduler, FirstStep(task))
    /\ UNCHANGED <<dbVars, envVars, program, blocked, task, reading, owed, crashes, tries, result>>

\* The batch is done.  StopBlockedFleetsJobs writes its error events now.
EndTask ==
    /\ pc[Scheduler] = "next"
    /\ DOMAIN batch = {}
    /\ errors' = [j \in Jobs |-> IF j \in owed THEN errors[j] \cup {"BLOCKED_RESOURCE"} ELSE errors[j]]
    /\ LeaveTask(TaskAfter(task))
    /\ UNCHANGED <<status, fleetId, envKept, events, outbox, mirror, envVars, program, blocked, crashes, tries, result>>

\* Between two steps the pod restarts, or the database fails and main.py goes
\* on with the next task.
Crash ==
    /\ crashes < MaxCrashes
    /\ crashes' = crashes + 1
    /\ lost' = [j \in Jobs |-> lost[j] \/ (on[Scheduler] = j /\ pc[Scheduler] = "record")]
    /\ \E t \in {"ScheduleFleetsJobs", TaskAfter(task)} : LeaveTask(t)
    /\ UNCHANGED <<dbVars, fleet, gone, cancelSent, expired, overdue, program, blocked, tries, result>>

-----------------------------------------------------------------------------
(* FleetsJobSubmitter.submit, called by ScheduleFleetsJobs. *)

\* The job and the instance the scheduler is working on.
cur == on[Scheduler]
inst == mem[Scheduler]

\* The job is kept QUEUED: its project has no free fleet, or its region is
\* paused or just failed in a retryable way, and then the rest of the region
\* is skipped too.
KeepQueued(region) ==
    /\ batch' = [k \in {k \in DOMAIN batch : Region[k] # region} |-> batch[k]]
    /\ NextJob
    /\ UNCHANGED <<task, owed, crashes, tries, result>>

NoFreeFleet ==
    /\ pc[Scheduler] = "submit"
    /\ NextJob
    /\ UNCHANGED <<dbVars, envVars, program, blocked, task, batch, owed, crashes, tries, result>>

\* Mutant: env_vars are wiped whatever the submit answered.
SubmitRetryableWithoutEnv ==
    /\ pc[Scheduler] = "submit"
    /\ envKept' = [envKept EXCEPT ![cur] = FALSE]
    /\ KeepQueued(Region[cur])
    /\ UNCHANGED <<status, fleetId, events, errors, outbox, mirror, envVars, program, blocked>>

SubmitRetryable ==
    /\ pc[Scheduler] = "submit"
    /\ KeepQueued(Region[cur])
    /\ UNCHANGED <<dbVars, envVars, program, blocked>>

\* What a create does at Code Engine.  The name of the fleet is a function of
\* the job, so a second create finds the first fleet instead of making one.
CreateFleet == fleet' = [fleet EXCEPT ![cur] = IF @ = "none" THEN "pending" ELSE @]

\* The create reached Code Engine, its answer did not reach us: retryable too.
SubmitAnswerLost ==
    /\ pc[Scheduler] = "submit"
    /\ inst.program
    /\ CreateFleet
    /\ lost' = [lost EXCEPT ![cur] = TRUE]
    /\ KeepQueued(Region[cur])
    /\ UNCHANGED <<dbVars, gone, cancelSent, expired, overdue, program, blocked>>

\* Mutant: the fleet is not recorded before the status is written.
SubmitCreatedUnrecorded ==
    /\ pc[Scheduler] = "submit"
    /\ inst.program
    /\ CreateFleet
    /\ lost' = [lost EXCEPT ![cur] = FALSE]
    /\ GoTo(Scheduler, "pending")
    /\ UNCHANGED <<dbVars, gone, cancelSent, expired, overdue, program, blocked, schedVars, on, mem, tries, result>>

\* submit_job returns the id of the new fleet, or of the one that has its name.
SubmitCreated ==
    /\ pc[Scheduler] = "submit"
    /\ inst.program
    /\ CreateFleet
    /\ lost' = [lost EXCEPT ![cur] = FALSE]
    /\ GoTo(Scheduler, "record")
    /\ UNCHANGED <<dbVars, gone, cancelSent, expired, overdue, program, blocked, schedVars, on, mem, tries, result>>

\* RunnerError: the job's configuration is refused, its program is gone, or
\* the answer to a create that landed cannot be read.  The reason is written
\* first.
SubmitRefused ==
    /\ pc[Scheduler] = "submit"
    /\ \/ UNCHANGED <<fleet, lost>>
       \/ inst.program /\ CreateFleet /\ lost' = [lost EXCEPT ![cur] = TRUE]
    /\ errors' = [errors EXCEPT ![cur] = @ \cup {"FLEET_SUBMIT_FAILED"}]
    /\ envKept' = [envKept EXCEPT ![cur] = FALSE]
    /\ GoTo(Scheduler, "fail")
    /\ UNCHANGED <<status, fleetId, events, outbox, mirror, gone, cancelSent, expired, overdue, program, blocked,
                   schedVars, on, mem, tries, result>>

\* to_failed after a refused submit.  A row that left QUEUED is only logged,
\* but a rejected payload is no RunnerError, so it ends the whole task.
FailSubmit ==
    /\ pc[Scheduler] = "fail"
    /\ \/ /\ MayChange(cur, "FAILED") /\ ~PayloadRejected(cur, inst.program)
          /\ ToTerminal(cur, "FAILED", inst.program)
          /\ NextJob
          /\ UNCHANGED <<task, batch, owed>>
       \/ /\ ~MayChange(cur, "FAILED")
          /\ NextJob
          /\ UNCHANGED <<status, events, outbox, mirror, task, batch, owed>>
       \/ /\ MayChange(cur, "FAILED") /\ PayloadRejected(cur, inst.program)
          /\ LeaveTask(TaskAfter(task))
          /\ UNCHANGED <<status, events, outbox, mirror>>
    /\ UNCHANGED <<fleetId, envKept, errors, envVars, program, blocked, crashes, tries, result>>

\* Recorded on its own, before any status write.
RecordFleet ==
    /\ pc[Scheduler] = "record"
    /\ fleetId' = [fleetId EXCEPT ![cur] = TRUE]
    /\ envKept' = [envKept EXCEPT ![cur] = FALSE]
    /\ mem' = [mem EXCEPT ![Scheduler].fleet = TRUE]
    /\ GoTo(Scheduler, "pending")
    /\ UNCHANGED <<status, events, errors, outbox, mirror, envVars, program, blocked, schedVars, on, tries, result>>

\* Mutant: a row that left QUEUED is skipped and its fleet left alone.
QueuedToPendingOrphaning ==
    /\ pc[Scheduler] = "pending"
    /\ \/ MayChange(cur, "PENDING") /\ ToIntermediate(cur, "PENDING")
       \/ ~MayChange(cur, "PENDING") /\ UNCHANGED <<status, events, outbox, mirror>>
    /\ NextJob
    /\ UNCHANGED <<fleetId, envKept, errors, envVars, program, blocked, task, batch, owed, crashes, tries, result>>

QueuedToPending ==
    /\ pc[Scheduler] = "pending"
    /\ \/ /\ MayChange(cur, "PENDING")
          /\ ToIntermediate(cur, "PENDING")
          /\ NextJob
       \/ /\ ~MayChange(cur, "PENDING")
          /\ GoTo(Scheduler, "orphan")
          /\ UNCHANGED <<status, events, outbox, mirror, reading, on, mem>>
    /\ UNCHANGED <<fleetId, envKept, errors, envVars, program, blocked, task, batch, owed, crashes, tries, result>>

\* _cancel_orphan_fleet: one try.  A cancel that failed may still have landed.
CancelOrphanFleet ==
    /\ pc[Scheduler] = "orphan"
    /\ \/ /\ ~gone[cur]
          /\ cancelSent' = [cancelSent EXCEPT ![cur] = TRUE]
          /\ UNCHANGED errors
       \/ gone[cur] /\ UNCHANGED <<cancelSent, errors>>
       \/ /\ errors' = [errors EXCEPT ![cur] = @ \cup {"FLEET_LEFT_RUNNING"}]
          /\ \/ UNCHANGED cancelSent
             \/ ~gone[cur] /\ cancelSent' = [cancelSent EXCEPT ![cur] = TRUE]
    /\ NextJob
    /\ UNCHANGED <<status, fleetId, envKept, events, outbox, mirror, fleet, gone, lost, expired, overdue,
                   program, blocked, task, batch, owed, crashes, tries, result>>

-----------------------------------------------------------------------------
(* UpdateFleetsJobsStatuses.update_job_status. *)

\* FleetsRunner._STATE_TO_JOB_STATUS.  The task store has one task per fleet.
JobStatusOf(state) ==
    CASE state = "pending" -> "PENDING"
      [] state = "running" -> "RUNNING"
      [] state = "succeeded" -> "SUCCEEDED"
      [] state = "failed" -> "FAILED"
      [] state = "canceled" -> "STOPPED"
      [] OTHER -> "UNKNOWN"

\* What FleetsRunner.status() can return.  No key yet, a failed COS call and a
\* configuration error all read as unknown.
StatusReads(j, m) == {"UNKNOWN"} \cup IF m.program THEN {JobStatusOf(fleet[j])} ELSE {}

\* update_job_status and confirm_stop up to their first write.
ReadStatus ==
    /\ pc[Scheduler] = "read"
    /\ \/ /\ ~inst.fleet /\ inst.status = "STOPPING"
          /\ reading' = "STOPPED" /\ GoTo(Scheduler, "end") /\ UNCHANGED <<on, mem>>
       \/ ~inst.fleet /\ inst.status # "STOPPING" /\ NextJob
       \/ /\ inst.fleet
          /\ \E r \in StatusReads(cur, inst) :
                \/ /\ r \in TERMINAL_STATUSES
                   /\ reading' = r /\ GoTo(Scheduler, "end") /\ UNCHANGED <<on, mem>>
                \/ /\ r \notin TERMINAL_STATUSES /\ inst.status = "STOPPING" /\ overdue[cur]
                   /\ reading' = "STOPPED" /\ GoTo(Scheduler, "end") /\ UNCHANGED <<on, mem>>
                \/ /\ r \notin TERMINAL_STATUSES /\ inst.status = "STOPPING" /\ ~overdue[cur]
                   /\ NextJob
                \/ /\ r \notin TERMINAL_STATUSES /\ inst.status # "STOPPING"
                   /\ GoTo(Scheduler, IF r = "RUNNING" /\ inst.status = "PENDING" THEN "torunning" ELSE "timeout")
                   /\ UNCHANGED <<reading, on, mem>>
    /\ UNCHANGED <<dbVars, envVars, program, blocked, task, batch, owed, crashes, tries, result>>

\* to_terminal: a refused transition is ignored, and a rejected payload is
\* caught by the loop, which tries the job again on the next tick.
EndJob ==
    /\ pc[Scheduler] = "end"
    /\ \/ /\ MayChange(cur, reading) /\ ~PayloadRejected(cur, inst.program)
          /\ ToTerminal(cur, reading, inst.program)
          /\ envKept' = [envKept EXCEPT ![cur] = FALSE]
       \/ /\ ~MayChange(cur, reading) \/ PayloadRejected(cur, inst.program)
          /\ UNCHANGED <<status, envKept, events, outbox, mirror>>
    /\ NextJob
    /\ UNCHANGED <<fleetId, errors, envVars, program, blocked, task, batch, owed, crashes, tries, result>>

PendingToRunning ==
    /\ pc[Scheduler] = "torunning"
    /\ \/ MayChange(cur, "RUNNING") /\ ToIntermediate(cur, "RUNNING")
       \/ ~MayChange(cur, "RUNNING") /\ UNCHANGED <<status, events, outbox, mirror>>
    /\ GoTo(Scheduler, "timeout")
    /\ UNCHANGED <<fleetId, envKept, errors, envVars, program, blocked, schedVars, on, mem, tries, result>>

\* stop_job_if_timeout up to the cancel.  The breaker may be open, and a job
\* without a program has nothing FleetsJobCanceller.cancel could cancel.
TimeoutDue(j, m) == j \notin Filler /\ m.ran /\ expired[j]

StopJobIfTimeout ==
    /\ pc[Scheduler] = "timeout"
    /\ \/ TimeoutDue(cur, inst) /\ inst.program /\ GoTo(Scheduler, "cancel") /\ UNCHANGED <<reading, on, mem>>
       \/ NextJob
    /\ UNCHANGED <<dbVars, envVars, program, blocked, task, batch, owed, crashes, tries, result>>

-----------------------------------------------------------------------------
(* StopBlockedFleetsJobs._stop. *)

StopBlocked ==
    /\ pc[Scheduler] = "block"
    /\ \/ NextJob
       \/ inst.fleet /\ inst.program /\ GoTo(Scheduler, "cancel") /\ UNCHANGED <<reading, on, mem>>
       \/ ~(inst.fleet /\ inst.program) /\ GoTo(Scheduler, "tostopped") /\ UNCHANGED <<reading, on, mem>>
    /\ UNCHANGED <<dbVars, envVars, program, blocked, task, batch, owed, crashes, tries, result>>

\* to_stopped, when cancel() answered that there is nothing to cancel.
BlockedToStopped ==
    /\ pc[Scheduler] = "tostopped"
    /\ \/ /\ MayChange(cur, "STOPPED") /\ ~PayloadRejected(cur, inst.program)
          /\ ToTerminal(cur, "STOPPED", inst.program)
          /\ owed' = owed \cup {cur}
          /\ NextJob
          /\ UNCHANGED <<task, batch>>
       \/ /\ ~MayChange(cur, "STOPPED")
          /\ NextJob
          /\ UNCHANGED <<status, events, outbox, mirror, task, batch, owed>>
       \/ /\ MayChange(cur, "STOPPED") /\ PayloadRejected(cur, inst.program)
          /\ LeaveTask(TaskAfter(task))
          /\ UNCHANGED <<status, events, outbox, mirror>>
    /\ UNCHANGED <<fleetId, envKept, errors, envVars, program, blocked, crashes, tries, result>>

-----------------------------------------------------------------------------
(* JobTransitionService.stop, run by a request or by the scheduler.  The     *)
(* cancel runs before the transaction.                                       *)

\* The gateway asks twice, the backoffice button and the scheduler once.
LastTry(a) == a \in Backoffice \/ tries[a] = 2

\* The cancel was not delivered, or a fleet appeared: nothing was written.  A
\* request asks again, with the fleet_id it now knows, unless that was its last
\* try or the first one was too slow; the scheduler leaves it to a later tick.
NotStopped(a, fleetNow) ==
    \/ /\ a = Scheduler
       /\ NextJob
       /\ UNCHANGED <<tries, result>>
    \/ /\ a # Scheduler /\ ~LastTry(a)
       /\ tries' = [tries EXCEPT ![a] = 2]
       /\ mem' = [mem EXCEPT ![a].fleet = fleetNow]
       /\ GoTo(a, "cancel")
       /\ UNCHANGED <<reading, on, result>>
    \/ /\ a # Scheduler
       /\ Answer(a, "retry")
       /\ UNCHANGED <<reading, on, tries>>

CancelAccepted(a) ==
    /\ pc[a] = "cancel"
    /\ mem[a].fleet /\ mem[a].program /\ ~gone[on[a]]
    /\ cancelSent' = [cancelSent EXCEPT ![on[a]] = TRUE]
    /\ GoTo(a, "stopping")
    /\ UNCHANGED <<dbVars, fleet, gone, lost, expired, overdue, program, blocked, schedVars, on, mem, tries, result>>

\* No fleet, no program left to cancel it with, or Code Engine answers 404.
NothingToCancel(a) ==
    /\ pc[a] = "cancel"
    /\ ~mem[a].fleet \/ ~mem[a].program \/ gone[on[a]]
    /\ GoTo(a, "stopped")
    /\ UNCHANGED <<dbVars, envVars, program, blocked, schedVars, on, mem, tries, result>>

\* A RunnerError of either kind.  A timeout may hide a cancel that landed.
CancelFailed(a) ==
    /\ pc[a] = "cancel"
    /\ mem[a].fleet /\ mem[a].program
    /\ \/ UNCHANGED cancelSent
       \/ ~gone[on[a]] /\ cancelSent' = [cancelSent EXCEPT ![on[a]] = TRUE]
    /\ NotStopped(a, mem[a].fleet)
    /\ UNCHANGED <<dbVars, fleet, gone, lost, expired, overdue, program, blocked, task, batch, owed, crashes>>

\* InvalidJobTransitionException: somebody else moved the row first.
LostRace(a) ==
    \/ a = Scheduler /\ NextJob /\ UNCHANGED <<tries, result>>
    \/ /\ a \in Backoffice
       /\ Answer(a, "left")
       /\ UNCHANGED <<reading, on, tries>>
    \/ /\ a \in Requests \ Backoffice
       /\ GoTo(a, "lost")
       /\ UNCHANGED <<reading, on, mem, tries, result>>

WriteStopping(a) ==
    /\ pc[a] = "stopping"
    /\ \/ /\ MayChange(on[a], "STOPPING")
          /\ ToIntermediate(on[a], "STOPPING")
          /\ \/ /\ a = Scheduler
                /\ owed' = IF task = "StopBlockedFleetsJobs" THEN owed \cup {on[a]} ELSE owed
                /\ NextJob
                /\ UNCHANGED <<tries, result>>
             \/ /\ a # Scheduler
                /\ Answer(a, "stopping")
                /\ UNCHANGED <<reading, owed, on, tries>>
       \/ /\ ~MayChange(on[a], "STOPPING")
          /\ LostRace(a)
          /\ UNCHANGED <<status, events, outbox, mirror, owed>>
    /\ UNCHANGED <<fleetId, envKept, errors, envVars, program, blocked, task, batch, crashes>>

\* The fleet_id is read again under the lock, then the row is ended.
WriteStopped(a) ==
    /\ pc[a] = "stopped"
    /\ \/ /\ fleetId[on[a]] # mem[a].fleet
          /\ NotStopped(a, fleetId[on[a]])
          /\ UNCHANGED <<status, events, outbox, mirror>>
       \/ /\ fleetId[on[a]] = mem[a].fleet
          /\ MayChange(on[a], "STOPPED") /\ ~PayloadRejected(on[a], mem[a].program)
          /\ ToStoppedByStop(on[a])
          /\ \/ /\ a = Scheduler /\ task = "StopBlockedFleetsJobs"
                /\ GoTo(a, "tostopped")
                /\ UNCHANGED <<reading, on, mem, tries, result>>
             \/ /\ a = Scheduler /\ task # "StopBlockedFleetsJobs"
                /\ NextJob
                /\ UNCHANGED <<tries, result>>
             \/ /\ a # Scheduler
                /\ Answer(a, "stopped")
                /\ UNCHANGED <<reading, on, tries>>
       \/ /\ fleetId[on[a]] = mem[a].fleet
          /\ ~MayChange(on[a], "STOPPED")
          /\ LostRace(a)
          /\ UNCHANGED <<status, events, outbox, mirror>>
       \/ /\ fleetId[on[a]] = mem[a].fleet
          /\ MayChange(on[a], "STOPPED") /\ PayloadRejected(on[a], mem[a].program)
          /\ a # Scheduler
          /\ Answer(a, "error")
          /\ UNCHANGED <<status, events, outbox, mirror, reading, on, tries>>
    /\ UNCHANGED <<fleetId, envKept, errors, envVars, program, blocked, task, batch, owed, crashes>>

-----------------------------------------------------------------------------
(* StopJobUseCase.execute and JobAdmin.stop_job_view. *)

ReadJob(a, j) ==
    /\ pc[a] = "idle"
    /\ on' = [on EXCEPT ![a] = j]
    /\ \/ /\ status[j] \in ACTIVE_STATUSES \ {"STOPPING"}
          /\ mem' = [mem EXCEPT ![a] = Load(j)]
          /\ GoTo(a, "cancel")
          /\ UNCHANGED result
       \/ a \in Backoffice /\ (status[j] = "STOPPING" \/ Terminal(j)) /\ Answer(a, "refused")
       \/ a \notin Backoffice /\ status[j] = "STOPPING" /\ Answer(a, "already")
       \/ a \notin Backoffice /\ Terminal(j) /\ Answer(a, "terminal")
    /\ UNCHANGED <<dbVars, envVars, program, blocked, schedVars, tries>>

\* Mutant: the status is not read again, a lost race is taken for an ended job.
ReadAgainAsTerminal(a) ==
    /\ pc[a] = "lost"
    /\ Answer(a, "terminal")
    /\ UNCHANGED <<dbVars, envVars, program, blocked, schedVars, on, tries>>

\* Lost the race.  STOPPING is not terminal, so the status is read again.
ReadAgain(a) ==
    /\ pc[a] = "lost"
    /\ Answer(a, CASE status[on[a]] = "STOPPING" -> "stopping"
                   [] status[on[a]] = "STOPPED" -> "stopped"
                   [] OTHER -> "terminal")
    /\ UNCHANGED <<dbVars, envVars, program, blocked, schedVars, on, tries>>

\* The gateway process dies, or the client's connection does.
RequestDies(a) ==
    /\ pc[a] \notin {"idle", "done"}
    /\ GoTo(a, "done")
    /\ Forget(a)
    /\ UNCHANGED <<dbVars, envVars, program, blocked, schedVars, on, tries, result>>

-----------------------------------------------------------------------------
(* External: Code Engine, its task store, the clock, and the operators. *)

\* The task of a fleet moves on; a cancelled one may still finish first.
FleetMoves(j) ==
    /\ ~gone[j]
    /\ \/ fleet[j] = "pending" /\ fleet' = [fleet EXCEPT ![j] = "running"]
       \/ /\ fleet[j] \in {"pending", "running"}
          /\ \E s \in {"succeeded", "failed"} : fleet' = [fleet EXCEPT ![j] = s]
       \/ /\ fleet[j] \in {"pending", "running"} /\ cancelSent[j]
          /\ fleet' = [fleet EXCEPT ![j] = "canceled"]
    /\ UNCHANGED <<dbVars, gone, cancelSent, lost, expired, overdue, program, blocked, schedVars, actorVars>>

\* The fleet of a submitted job is deleted behind the gateway's back.
FleetVanishes(j) ==
    /\ fleet[j] # "none" /\ ~gone[j] /\ status[j] # "QUEUED"
    /\ gone' = [gone EXCEPT ![j] = TRUE]
    /\ UNCHANGED <<dbVars, fleet, cancelSent, lost, expired, overdue, program, blocked, schedVars, actorVars>>

TimePasses(j) ==
    /\ \/ HasRun(j) /\ ~expired[j] /\ expired' = [expired EXCEPT ![j] = TRUE] /\ UNCHANGED overdue
       \/ /\ status[j] = "STOPPING" /\ ~overdue[j]
          /\ overdue' = [overdue EXCEPT ![j] = TRUE] /\ UNCHANGED expired
    /\ UNCHANGED <<dbVars, fleet, gone, cancelSent, lost, program, blocked, schedVars, actorVars>>

DeleteProgram(j) ==
    /\ program[j]
    /\ program' = [program EXCEPT ![j] = FALSE]
    /\ UNCHANGED <<dbVars, envVars, blocked, schedVars, actorVars>>

\* ConsumeBlockedAccountEvents adds or removes the rows that match the job.
SetBlocked(j) ==
    /\ blocked' = [blocked EXCEPT ![j] = ~@]
    /\ UNCHANGED <<dbVars, envVars, program, schedVars, actorVars>>

-----------------------------------------------------------------------------

Stop(a) == CancelAccepted(a) \/ NothingToCancel(a) \/ CancelFailed(a) \/ WriteStopping(a) \/ WriteStopped(a)

Submit == NoFreeFleet \/ SubmitRetryable \/ SubmitAnswerLost \/ SubmitCreated \/ SubmitRefused
              \/ FailSubmit \/ RecordFleet \/ QueuedToPending \/ CancelOrphanFleet

Poll == ReadStatus \/ EndJob \/ PendingToRunning \/ StopJobIfTimeout

SchedulerStep == FetchBatch \/ TakeJob \/ EndTask \/ Submit \/ Poll \/ StopBlocked \/ BlockedToStopped \/ Stop(Scheduler)

RequestStep(a) == (\E j \in Jobs : ReadJob(a, j)) \/ Stop(a) \/ ReadAgain(a)

Environment(j) == FleetMoves(j) \/ FleetVanishes(j) \/ TimePasses(j)

Next ==
    \/ SchedulerStep
    \/ Crash
    \/ \E a \in Requests : RequestStep(a) \/ RequestDies(a)
    \/ \E j \in Jobs : Environment(j)
    \/ \E j \in MayLoseProgram : DeleteProgram(j)
    \/ \E j \in MayBlock : SetBlocked(j)

Spec == Init /\ [][Next]_vars

-----------------------------------------------------------------------------
(* What the properties and the proofs say of a state. *)

\* A job that has ended, with its fleet still running and nobody asked to
\* cancel it.
Unattended(j) == Terminal(j) /\ fleet[j] \in {"pending", "running"} /\ ~gone[j] /\ ~cancelSent[j]

\* The submitter has created the fleet of j and is not done with it.
Submitting(j) == on[Scheduler] = j /\ pc[Scheduler] \in {"record", "pending", "orphan"}

\* Every step of a handler but these works on a job.
Resting == {"idle", "fetch", "next", "done"}

\* An actor in the middle of a handler has a job.
OnJob == \A a \in Actors : pc[a] \in Steps \ Resting => on[a] \in Jobs

\* The inductive invariant behind TypeOK: the types, and a job for every handler
\* in progress.
Typed == TypeOK /\ OnJob

\* The status a poll is about to end a job with is a final one.
EndsForGood == pc[Scheduler] = "end" => reading \in TERMINAL_STATUSES

=============================================================================
