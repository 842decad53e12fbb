-------------------------- MODULE FleetsJobsProofs --------------------------
(***************************************************************************)
(* What FleetsJobs guarantees for every set of jobs and stop requests.     *)
(***************************************************************************)
EXTENDS FleetsProperties, FleetsSafetyProofs, TLAPS

-----------------------------------------------------------------------------
(* The transactions of JobTransitionService. *)

\* A validated status is a status.
LEMMA MayChangeType ==
    ASSUME DBTypeOK, NEW j \in Jobs, NEW s, MayChange(j, s)
    PROVE  s \in Statuses
  BY DEF DBTypeOK, MayChange, VALID_TRANSITIONS, Statuses, TERMINAL_STATUSES

\* _change_status keeps the type of the rows.
LEMMA ChangeStatusType ==
    ASSUME DBTypeOK, NEW j \in Jobs, NEW s \in Statuses, ChangeStatus(j, s)
    PROVE  status' \in [Jobs -> Statuses] /\ events' \in [Jobs -> Seq(Statuses)]
  BY DEF DBTypeOK, ChangeStatus

\* So does the creation of Outbox rows.
LEMMA EnqueueType ==
    ASSUME DBTypeOK, NEW j \in Jobs, NEW C, Enqueue(j, C)
    PROVE  outbox' \in [Jobs -> [Channels -> Nat]]
  BY DEF DBTypeOK, Enqueue

\* to_terminal keeps the type of the rows.
LEMMA ToTerminalType ==
    ASSUME DBTypeOK, NEW j \in Jobs, NEW s \in Statuses, NEW p, ToTerminal(j, s, p)
    PROVE  /\ status' \in [Jobs -> Statuses]
           /\ events' \in [Jobs -> Seq(Statuses)]
           /\ outbox' \in [Jobs -> [Channels -> Nat]]
           /\ mirror' \in [Jobs -> BOOLEAN]
  <1>1. mirror' \in [Jobs -> BOOLEAN]
    BY DEF DBTypeOK, ToTerminal, LeaveMirror
  <1> QED
    BY <1>1, ChangeStatusType, EnqueueType DEF ToTerminal

\* So does the end that stop() writes.
LEMMA ToStoppedByStopType ==
    ASSUME DBTypeOK, NEW j \in Jobs, ToStoppedByStop(j)
    PROVE  /\ status' \in [Jobs -> Statuses]
           /\ events' \in [Jobs -> Seq(Statuses)]
           /\ outbox' \in [Jobs -> [Channels -> Nat]]
           /\ mirror' \in [Jobs -> BOOLEAN]
  <1>1. mirror' \in [Jobs -> BOOLEAN]
    BY DEF DBTypeOK, ToStoppedByStop, LeaveMirror
  <1>2. "STOPPED" \in Statuses
    BY DEF Statuses
  <1> QED
    BY <1>1, <1>2, ChangeStatusType, EnqueueType DEF ToStoppedByStop

-----------------------------------------------------------------------------
(* The bookkeeping of the handlers. *)

\* The instance a query loads is well formed.
LEMMA LoadType ==
    ASSUME TypeOK, NEW j \in Jobs
    PROVE  Load(j) \in Instances
  BY DEF TypeOK, DBTypeOK, Load, HasRun, Instances

\* The blank instance too.
LEMMA BlankType == Blank \in Instances
  BY DEF Blank, Instances, Statuses

\* An error event has one of the known codes.
LEMMA AddErrorType ==
    ASSUME DBTypeOK, NEW j, NEW c \in ErrorCodes
    PROVE  [errors EXCEPT ![j] = @ \cup {c}] \in [Jobs -> SUBSET ErrorCodes]
  <1>1. errors \in [Jobs -> SUBSET ErrorCodes]
    BY DEF DBTypeOK
  <1> QED
    BY ZenonT(60), <1>1

\* An instance that learns its fleet_id is well formed.
LEMMA FleetFieldType ==
    ASSUME TypeOK, NEW a \in Actors, NEW b \in BOOLEAN
    PROVE  [mem EXCEPT ![a].fleet = b] \in [Actors -> Instances]
  <1>1. mem \in [Actors -> Instances]
    BY DEF TypeOK
  <1>2. [mem[a] EXCEPT !.fleet = b] \in Instances
    BY <1>1 DEF Instances
  <1> QED
    BY <1>1, <1>2

\* A create leaves a known state in the task store.
LEMMA CreateFleetType ==
    ASSUME TypeOK, CreateFleet
    PROVE  fleet' \in [Jobs -> FleetStates]
  BY ZenonT(60) DEF TypeOK, CreateFleet, FleetStates

\* What NextJob does to the scheduler, and that it leaves the requests alone.
LEMMA NextJobType ==
    ASSUME TypeOK, OnJob, NextJob
    PROVE  /\ pc' \in [Actors -> Steps]
           /\ on' \in [Actors -> Jobs \cup {NoJob}]
           /\ mem' \in [Actors -> Instances]
           /\ reading' \in Readings
           /\ OnJob'
  BY BlankType DEF TypeOK, OnJob, NextJob, GoTo, Forget, Actors, Steps, Resting, Readings

\* The tasks follow each other.
LEMMA TaskAfterType ==
    ASSUME NEW t \in Tasks
    PROVE  TaskAfter(t) \in Tasks
  BY DEF Tasks, TaskAfter

\* The end of a task leaves the scheduler ready for the next one.
LEMMA LeaveTaskType ==
    ASSUME TypeOK, OnJob, NEW t \in Tasks, LeaveTask(t)
    PROVE  /\ task' \in Tasks
           /\ DOMAIN batch' \subseteq Jobs
           /\ batch' \in [DOMAIN batch' -> Instances]
           /\ owed' \subseteq Jobs
           /\ pc' \in [Actors -> Steps]
           /\ on' \in [Actors -> Jobs \cup {NoJob}]
           /\ mem' \in [Actors -> Instances]
           /\ reading' \in Readings
           /\ OnJob'
  BY BlankType DEF TypeOK, OnJob, LeaveTask, NoBatch, GoTo, Forget, Actors, Steps, Resting, Readings

\* A handler that goes on keeps its job.
LEMMA GoToType ==
    ASSUME TypeOK, OnJob, NEW a \in Actors, NEW s \in Steps, GoTo(a, s), on' = on, on[a] \in Jobs
    PROVE  pc' \in [Actors -> Steps] /\ OnJob'
  BY DEF TypeOK, OnJob, GoTo

\* A request that answers is at rest.
LEMMA AnswerType ==
    ASSUME TypeOK, OnJob, NEW a \in Requests, NEW r \in Results, Answer(a, r)
    PROVE  /\ pc' \in [Actors -> Steps]
           /\ mem' \in [Actors -> Instances]
           /\ result' \in [Requests -> Results]
           /\ \A b \in Actors : b # a => pc'[b] = pc[b]
           /\ pc'[a] = "done"
  BY BlankType DEF TypeOK, OnJob, Answer, GoTo, Forget, Actors, Steps

-----------------------------------------------------------------------------
(* The type invariant. *)

\* Every step of the scheduler alone keeps the type of the state, and gives
\* each handler in progress a job.
LEMMA TypeSchedulerStep ==
    ASSUME TypeOK, OnJob,
           \/ FetchBatch \/ TakeJob \/ EndTask \/ Crash \/ Submit \/ Poll \/ StopBlocked \/ BlockedToStopped
    PROVE  TypeOK' /\ OnJob'
  <1> USE ActorsAssumption, JobsAssumption
  <1> Scheduler \in Actors /\ Requests \subseteq Actors
    BY DEF Actors
  <1> DBTypeOK
    BY SMTT(60) DEF TypeOK
  <1>1. CASE FetchBatch
    <2>1. PICK S \in SUBSET Jobs : batch' = [j \in S |-> Load(j)]
      BY <1>1 DEF FetchBatch, Selections, Candidates
    <2>2. DOMAIN batch' \subseteq Jobs /\ batch' \in [DOMAIN batch' -> Instances]
      BY SMTT(60), <2>1, LoadType
    <2> QED
      BY <1>1, <2>2 DEF FetchBatch, GoTo, TypeOK, DBTypeOK, OnJob, dbVars, envVars, Steps, Resting
  <1>2. CASE TakeJob
    <2>1. FirstStep(task) \in Steps
      BY SMTT(60) DEF TypeOK, Tasks, FirstStep, Steps
    <2> QED
      BY <1>2, <2>1 DEF TakeJob, GoTo, TypeOK, DBTypeOK, OnJob, dbVars, envVars
  <1>3. CASE EndTask
    <2>1. errors' \in [Jobs -> SUBSET ErrorCodes]
      BY SMTT(60), <1>3 DEF EndTask, TypeOK, DBTypeOK, ErrorCodes
    <2> QED
      BY SMTT(60), <1>3, <2>1, TaskAfterType, LeaveTaskType DEF EndTask, TypeOK, DBTypeOK, envVars
  <1>4. CASE Crash
    <2>1. lost' \in [Jobs -> BOOLEAN]
      BY SMTT(60), <1>4 DEF Crash, TypeOK
    <2>2. PICK t \in Tasks : LeaveTask(t)
      BY SMTT(60), <1>4, TaskAfterType DEF Crash, TypeOK, Tasks
    <2> QED
      BY SMTT(60), <1>4, <2>1, <2>2, LeaveTaskType DEF Crash, TypeOK, DBTypeOK, dbVars
  <1>5. CASE NoFreeFleet
    BY SMTT(60), <1>5, NextJobType DEF NoFreeFleet, TypeOK, DBTypeOK, dbVars, envVars
  <1>6. CASE SubmitRetryable
    <2>1. DOMAIN batch' \subseteq Jobs /\ batch' \in [DOMAIN batch' -> Instances]
      BY SMTT(60), <1>6 DEF SubmitRetryable, KeepQueued, TypeOK
    <2> QED
      BY <1>6, <2>1, NextJobType DEF SubmitRetryable, KeepQueued, TypeOK, DBTypeOK, dbVars, envVars
  <1>7. CASE SubmitAnswerLost
    <2>1. DOMAIN batch' \subseteq Jobs /\ batch' \in [DOMAIN batch' -> Instances]
      BY <1>7 DEF SubmitAnswerLost, KeepQueued, TypeOK
    <2>2. fleet' \in [Jobs -> FleetStates] /\ lost' \in [Jobs -> BOOLEAN]
      BY ZenonT(60), <1>7, CreateFleetType DEF SubmitAnswerLost, TypeOK
    <2> QED
      BY SMTT(60), <1>7, <2>1, <2>2, NextJobType DEF SubmitAnswerLost, KeepQueued, TypeOK, DBTypeOK, dbVars
  <1>8. CASE SubmitCreated
    <2>1. fleet' \in [Jobs -> FleetStates] /\ lost' \in [Jobs -> BOOLEAN]
      BY ZenonT(60), <1>8, CreateFleetType DEF SubmitCreated, TypeOK
    <2> QED
      BY <1>8, <2>1 DEF SubmitCreated, GoTo, TypeOK, DBTypeOK, OnJob, Steps, Resting, dbVars, schedVars
  <1>9. CASE SubmitRefused
    <2>1. fleet' \in [Jobs -> FleetStates] /\ lost' \in [Jobs -> BOOLEAN]
      BY ZenonT(60), <1>9, CreateFleetType DEF SubmitRefused, TypeOK
    <2>2. errors' \in [Jobs -> SUBSET ErrorCodes] /\ envKept' \in [Jobs -> BOOLEAN]
      <3>1. errors' = [errors EXCEPT ![cur] = @ \cup {"FLEET_SUBMIT_FAILED"}]
        BY <1>9 DEF SubmitRefused
      <3>2. envKept' \in [Jobs -> BOOLEAN]
        BY ZenonT(60), <1>9 DEF SubmitRefused, TypeOK, DBTypeOK
      <3> QED
        BY <3>1, <3>2, AddErrorType DEF ErrorCodes
    <2> QED
      BY SMTT(60), <1>9, <2>1, <2>2 DEF SubmitRefused, GoTo, TypeOK, DBTypeOK, OnJob, Steps, Resting, schedVars
  <1>10. CASE FailSubmit
    <2>1. cur \in Jobs /\ "FAILED" \in Statuses
      BY <1>10 DEF FailSubmit, OnJob, Steps, Resting, cur, Statuses
    <2>2. CASE MayChange(cur, "FAILED") /\ ToTerminal(cur, "FAILED", inst.program) /\ NextJob /\ UNCHANGED <<task, batch, owed>>
      BY ZenonT(60), <1>10, <2>1, <2>2, ToTerminalType, NextJobType DEF FailSubmit, TypeOK, DBTypeOK, envVars
    <2>3. CASE NextJob /\ UNCHANGED <<status, events, outbox, mirror, task, batch, owed>>
      BY <1>10, <2>3, NextJobType DEF FailSubmit, TypeOK, DBTypeOK, envVars
    <2>4. CASE LeaveTask(TaskAfter(task)) /\ UNCHANGED <<status, events, outbox, mirror>>
      BY SMTT(60), <1>10, <2>4, TaskAfterType, LeaveTaskType DEF FailSubmit, TypeOK, DBTypeOK, envVars
    <2> QED
      BY <1>10, <2>2, <2>3, <2>4 DEF FailSubmit
  <1>11. CASE RecordFleet
    <2>1. mem' \in [Actors -> Instances]
      BY ZenonT(60), <1>11, FleetFieldType DEF RecordFleet
    <2> QED
      BY ZenonT(60), <1>11, <2>1 DEF RecordFleet, GoTo, TypeOK, DBTypeOK, OnJob, Steps, Resting, envVars, schedVars
  <1>12. CASE QueuedToPending
    <2>1. cur \in Jobs /\ "PENDING" \in Statuses
      BY SMTT(60), <1>12 DEF QueuedToPending, OnJob, Steps, Resting, cur, Statuses
    <2>2. CASE ToIntermediate(cur, "PENDING") /\ NextJob
      BY SMTT(60), <1>12, <2>1, <2>2, ChangeStatusType, NextJobType DEF QueuedToPending, ToIntermediate, TypeOK, DBTypeOK, envVars
    <2>3. CASE GoTo(Scheduler, "orphan") /\ UNCHANGED <<status, events, outbox, mirror, reading, on, mem>>
      <3>1. pc' \in [Actors -> Steps] /\ OnJob'
        BY SMTT(60), <2>1, <2>3, GoToType DEF Steps, cur
      <3> QED
        BY <1>12, <2>3, <3>1 DEF QueuedToPending, TypeOK, DBTypeOK, envVars
    <2> QED
      BY <1>12, <2>2, <2>3 DEF QueuedToPending
  <1>13. CASE CancelOrphanFleet
    <2>1. cancelSent' \in [Jobs -> BOOLEAN]
      BY ZenonT(60), <1>13 DEF CancelOrphanFleet, TypeOK
    <2>2. errors' = errors \/ errors' = [errors EXCEPT ![cur] = @ \cup {"FLEET_LEFT_RUNNING"}]
      BY <1>13 DEF CancelOrphanFleet
    <2>3. errors' \in [Jobs -> SUBSET ErrorCodes]
      BY <2>2, AddErrorType DEF ErrorCodes, DBTypeOK
    <2> QED
      BY SMTT(60), <1>13, <2>1, <2>3, NextJobType DEF CancelOrphanFleet, TypeOK, DBTypeOK
  <1>14. CASE ReadStatus
    <2>1. cur \in Jobs
      BY <1>14 DEF ReadStatus, OnJob, Steps, Resting, cur
    <2>2. CASE NextJob
      BY SMTT(60), <1>14, <2>2, NextJobType DEF ReadStatus, TypeOK, DBTypeOK, dbVars, envVars
    <2>3. CASE \E s \in Steps : GoTo(Scheduler, s) /\ reading' \in Readings /\ UNCHANGED <<on, mem>>
      <3>1. pc' \in [Actors -> Steps] /\ OnJob'
        BY SMTT(60), <2>1, <2>3, GoToType DEF cur
      <3> QED
        BY SMTT(60), <1>14, <2>3, <3>1 DEF ReadStatus, TypeOK, DBTypeOK, dbVars, envVars
    <2> QED
      BY <1>14, <2>2, <2>3 DEF ReadStatus, TypeOK, Steps, Readings, Statuses, TERMINAL_STATUSES
  <1>15. CASE EndJob
    <2>1. cur \in Jobs
      BY SMTT(60), <1>15 DEF EndJob, OnJob, Steps, Resting, cur
    <2>2. CASE MayChange(cur, reading) /\ ToTerminal(cur, reading, inst.program) /\ envKept' = [envKept EXCEPT ![cur] = FALSE]
      <3>1. NextJob /\ UNCHANGED <<fleetId, errors, envVars, program, blocked, task, batch, owed, crashes, tries, result>>
        BY ZenonT(60), <1>15 DEF EndJob
      <3>2. DBTypeOK /\ reading \in Statuses
        BY <2>1, <2>2, MayChangeType DEF TypeOK
      <3>3. /\ status' \in [Jobs -> Statuses] /\ events' \in [Jobs -> Seq(Statuses)]
            /\ outbox' \in [Jobs -> [Channels -> Nat]] /\ mirror' \in [Jobs -> BOOLEAN]
        BY ZenonT(60), <2>1, <2>2, <3>2, ToTerminalType
      <3>4. envKept' \in [Jobs -> BOOLEAN]
        BY <2>2, <3>2 DEF DBTypeOK
      <3>5. DBTypeOK'
        BY <3>1, <3>2, <3>3, <3>4 DEF DBTypeOK
      <3> QED
        BY SMTT(60), <3>1, <3>5, NextJobType DEF TypeOK, envVars
    <2>3. CASE UNCHANGED <<status, envKept, events, outbox, mirror>>
      BY SMTT(60), <1>15, <2>3, NextJobType DEF EndJob, TypeOK, DBTypeOK, envVars
    <2> QED
      BY SMTT(60), <1>15, <2>2, <2>3 DEF EndJob
  <1>16. CASE PendingToRunning
    <2>1. cur \in Jobs /\ "RUNNING" \in Statuses /\ "timeout" \in Steps
      BY <1>16 DEF PendingToRunning, OnJob, Steps, Resting, cur, Statuses
    <2>2. pc' \in [Actors -> Steps] /\ OnJob'
      <3>1. GoTo(Scheduler, "timeout") /\ on' = on
        BY ZenonT(60), <1>16 DEF PendingToRunning
      <3>2. Scheduler \in Actors /\ on[Scheduler] \in Jobs
        BY <2>1 DEF cur, Actors
      <3> QED
        BY ZenonT(60), <2>1, <3>1, <3>2, GoToType
    <2>3. status' \in [Jobs -> Statuses] /\ events' \in [Jobs -> Seq(Statuses)]
      BY SMTT(60), <1>16, <2>1, ChangeStatusType DEF PendingToRunning, ToIntermediate, DBTypeOK
    <2> QED
      BY SMTT(60), <1>16, <2>2, <2>3 DEF PendingToRunning, ToIntermediate, TypeOK, DBTypeOK, envVars, schedVars
  <1>17. CASE StopJobIfTimeout \/ StopBlocked
    <2>1. cur \in Jobs /\ {"cancel", "tostopped"} \subseteq Steps
      BY SMTT(60), <1>17 DEF StopJobIfTimeout, StopBlocked, OnJob, Steps, Resting, cur
    <2>2. CASE NextJob
      <3>1. /\ pc' \in [Actors -> Steps] /\ on' \in [Actors -> Jobs \cup {NoJob}] /\ mem' \in [Actors -> Instances]
            /\ reading' \in Readings /\ OnJob'
        BY ZenonT(60), <2>2, NextJobType
      <3>2. UNCHANGED <<dbVars, envVars, program, blocked, task, batch, owed, crashes, tries, result>>
        BY ZenonT(60), <1>17 DEF StopJobIfTimeout, StopBlocked
      <3> QED
        BY ZenonT(60), <3>1, <3>2 DEF TypeOK, DBTypeOK, dbVars, envVars
    <2>3. CASE \E s \in {"cancel", "tostopped"} : GoTo(Scheduler, s) /\ UNCHANGED <<reading, on, mem>>
      <3>1. pc' \in [Actors -> Steps] /\ OnJob'
        BY SMTT(60), <2>1, <2>3, GoToType DEF cur
      <3> QED
        BY SMTT(60), <1>17, <2>3, <3>1 DEF StopJobIfTimeout, StopBlocked, TypeOK, DBTypeOK, dbVars, envVars
    <2> QED
      BY SMTT(60), <1>17, <2>2, <2>3 DEF StopJobIfTimeout, StopBlocked
  <1>18. CASE BlockedToStopped
    <2>1. cur \in Jobs /\ "STOPPED" \in Statuses
      BY SMTT(60), <1>18 DEF BlockedToStopped, OnJob, Steps, Resting, cur, Statuses
    <2>2. CASE ToTerminal(cur, "STOPPED", inst.program) /\ owed' = owed \cup {cur} /\ NextJob /\ UNCHANGED <<task, batch>>
      BY ZenonT(60), <1>18, <2>1, <2>2, ToTerminalType, NextJobType DEF BlockedToStopped, TypeOK, DBTypeOK, envVars
    <2>3. CASE NextJob /\ UNCHANGED <<status, events, outbox, mirror, task, batch, owed>>
      BY <1>18, <2>3, NextJobType DEF BlockedToStopped, TypeOK, DBTypeOK, envVars
    <2>4. CASE LeaveTask(TaskAfter(task)) /\ UNCHANGED <<status, events, outbox, mirror>>
      BY <1>18, <2>4, TaskAfterType, LeaveTaskType DEF BlockedToStopped, TypeOK, DBTypeOK, envVars
    <2> QED
      BY SMTT(60), <1>18, <2>2, <2>3, <2>4 DEF BlockedToStopped
  <1> QED
    BY SMTT(60), <1>1, <1>2, <1>3, <1>4, <1>5, <1>6, <1>7, <1>8, <1>9, <1>10, <1>11, <1>12, <1>13, <1>14, <1>15, <1>16,
       <1>17, <1>18 DEF Submit, Poll

\* So does every step of JobTransitionService.stop, whoever runs it.
LEMMA TypeStopStep ==
    ASSUME TypeOK, OnJob, NEW a \in Actors, Stop(a)
    PROVE  TypeOK' /\ OnJob'
  <1> USE ActorsAssumption, JobsAssumption
  <1> Scheduler \in Actors /\ Requests \subseteq Actors /\ (a # Scheduler => a \in Requests)
    BY DEF Actors
  <1> DBTypeOK
    BY SMTT(60) DEF TypeOK
  <1> on[a] \in Jobs
    BY ZenonT(60) DEF Stop, CancelAccepted, NothingToCancel, CancelFailed, WriteStopping, WriteStopped, OnJob, Steps, Resting
  <1> {"stopping", "stopped", "cancel", "lost", "tostopped"} \subseteq Steps /\ {"STOPPING", "STOPPED"} \subseteq Statuses
    BY DEF Steps, Statuses
  <1> DEFINE ActorsOK == /\ pc' \in [Actors -> Steps]
                         /\ on' \in [Actors -> Jobs \cup {NoJob}]
                         /\ mem' \in [Actors -> Instances]
                         /\ tries' \in [Requests -> 1..2]
                         /\ result' \in [Requests -> Results]
                         /\ reading' \in Readings
                         /\ OnJob'
  <1>1. ASSUME NEW f \in BOOLEAN, NotStopped(a, f)
        PROVE  ActorsOK
    <2>1. CASE a = Scheduler /\ NextJob /\ UNCHANGED <<tries, result>>
      BY <2>1, NextJobType DEF TypeOK
    <2>2. CASE /\ a # Scheduler
               /\ tries' = [tries EXCEPT ![a] = 2]
               /\ mem' = [mem EXCEPT ![a].fleet = f]
               /\ GoTo(a, "cancel")
               /\ UNCHANGED <<reading, on, result>>
      <3>1. pc' \in [Actors -> Steps] /\ OnJob'
        BY <2>2, GoToType
      <3>2. mem' \in [Actors -> Instances]
        BY SMTT(60), <2>2, FleetFieldType
      <3> QED
        BY <2>2, <3>1, <3>2 DEF TypeOK
    <2>3. CASE a # Scheduler /\ Answer(a, "retry") /\ UNCHANGED <<reading, on, tries>>
      BY SMTT(60), <2>3, AnswerType DEF TypeOK, OnJob, Results, Resting
    <2> QED
      BY SMTT(60), <1>1, <2>1, <2>2, <2>3 DEF NotStopped
  <1>2. ASSUME LostRace(a)
        PROVE  ActorsOK
    <2>1. CASE a = Scheduler /\ NextJob /\ UNCHANGED <<tries, result>>
      BY SMTT(60), <2>1, NextJobType DEF TypeOK
    <2>2. CASE a \in Backoffice /\ Answer(a, "left") /\ UNCHANGED <<reading, on, tries>>
      BY SMTT(60), <2>2, AnswerType DEF TypeOK, OnJob, Results, Resting
    <2>3. CASE a \in Requests /\ GoTo(a, "lost") /\ UNCHANGED <<reading, on, mem, tries, result>>
      BY <2>3, GoToType DEF TypeOK
    <2> QED
      BY <1>2, <2>1, <2>2, <2>3 DEF LostRace
  <1>3. CASE CancelAccepted(a) \/ NothingToCancel(a)
    <2>1. pc' \in [Actors -> Steps] /\ OnJob'
      BY <1>3, GoToType DEF CancelAccepted, NothingToCancel, envVars
    <2> QED
      BY ZenonT(60), <1>3, <2>1 DEF CancelAccepted, NothingToCancel, TypeOK, DBTypeOK, dbVars, envVars, schedVars
  <1>4. CASE CancelFailed(a)
    <2>1. ActorsOK
      BY ZenonT(60), <1>1, <1>4 DEF CancelFailed, TypeOK, Instances
    <2> QED
      BY ZenonT(60), <1>4, <2>1 DEF CancelFailed, TypeOK, DBTypeOK, dbVars
  <1>5. CASE WriteStopping(a)
    <2>1. status' \in [Jobs -> Statuses] /\ events' \in [Jobs -> Seq(Statuses)]
      BY SMTT(60), <1>5, ChangeStatusType DEF WriteStopping, ToIntermediate, DBTypeOK
    <2>2. ActorsOK /\ owed' \subseteq Jobs
      <3>1. CASE a = Scheduler /\ NextJob /\ UNCHANGED <<tries, result>> /\ owed' \in {owed, owed \cup {on[a]}}
        BY SMTT(60), <3>1, NextJobType DEF TypeOK
      <3>2. CASE a # Scheduler /\ Answer(a, "stopping") /\ UNCHANGED <<reading, owed, on, tries>>
        BY SMTT(60), <3>2, AnswerType DEF TypeOK, OnJob, Results, Resting
      <3>3. CASE LostRace(a) /\ UNCHANGED owed
        BY SMTT(60), <1>2, <3>3 DEF TypeOK
      <3> QED
        BY ZenonT(60), <1>5, <3>1, <3>2, <3>3 DEF WriteStopping
    <2> QED
      BY SMTT(60), <1>5, <2>1, <2>2 DEF WriteStopping, ToIntermediate, TypeOK, DBTypeOK, envVars
  <1>6. CASE WriteStopped(a)
    <2>1. /\ status' \in [Jobs -> Statuses] /\ events' \in [Jobs -> Seq(Statuses)]
          /\ outbox' \in [Jobs -> [Channels -> Nat]] /\ mirror' \in [Jobs -> BOOLEAN]
      BY ZenonT(60), <1>6, ToStoppedByStopType DEF WriteStopped, DBTypeOK
    <2>2. ActorsOK
      <3>1. CASE NotStopped(a, fleetId[on[a]])
        BY SMTT(60), <1>1, <3>1 DEF DBTypeOK
      <3>2. CASE LostRace(a)
        BY SMTT(60), <1>2, <3>2
      <3>3. CASE a = Scheduler /\ GoTo(a, "tostopped") /\ UNCHANGED <<reading, on, mem, tries, result>>
        BY SMTT(60), <3>3, GoToType DEF TypeOK
      <3>4. CASE a = Scheduler /\ NextJob /\ UNCHANGED <<tries, result>>
        BY SMTT(60), <3>4, NextJobType DEF TypeOK
      <3>5. CASE a # Scheduler /\ (\E r \in {"stopped", "error"} : Answer(a, r)) /\ UNCHANGED <<reading, on, tries>>
        BY SMTT(60), <3>5, AnswerType DEF TypeOK, OnJob, Results, Resting
      <3> QED
        BY ZenonT(60), <1>6, <3>1, <3>2, <3>3, <3>4, <3>5 DEF WriteStopped
    <2>3. DBTypeOK'
      BY ZenonT(60), <1>6, <2>1 DEF WriteStopped, DBTypeOK
    <2>4. UNCHANGED <<envVars, program, blocked, task, batch, owed, crashes>>
      BY ZenonT(60), <1>6 DEF WriteStopped
    <2> QED
      BY SMTT(60), <2>2, <2>3, <2>4 DEF TypeOK, envVars
  <1> QED
    BY <1>3, <1>4, <1>5, <1>6 DEF Stop

\* And every other step.
LEMMA TypeOtherStep ==
    ASSUME TypeOK, OnJob,
           \/ \E a \in Requests : (\E j \in Jobs : ReadJob(a, j)) \/ ReadAgain(a) \/ RequestDies(a)
           \/ \E j \in Jobs : Environment(j) \/ DeleteProgram(j) \/ SetBlocked(j)
           \/ UNCHANGED vars
    PROVE  TypeOK' /\ OnJob'
  <1> USE ActorsAssumption, JobsAssumption
  <1> Scheduler \in Actors /\ Requests \subseteq Actors
    BY SMTT(60) DEF Actors
  <1>1. ASSUME NEW a \in Requests, NEW j \in Jobs, ReadJob(a, j)
        PROVE  TypeOK' /\ OnJob'
    <2>1. on' \in [Actors -> Jobs \cup {NoJob}] /\ on'[a] \in Jobs /\ \A b \in Actors : b # a => on'[b] = on[b]
      BY SMTT(60), <1>1 DEF ReadJob, TypeOK
    <2>2. CASE mem' = [mem EXCEPT ![a] = Load(j)] /\ GoTo(a, "cancel") /\ UNCHANGED result
      <3>1. mem' \in [Actors -> Instances]
        BY <2>2, LoadType DEF TypeOK
      <3>2. /\ pc' \in [Actors -> Steps]
            /\ \A b \in Actors : b # a => pc'[b] = pc[b]
        BY <2>2 DEF GoTo, TypeOK, Steps
      <3>3. OnJob'
        BY <2>1, <3>2 DEF OnJob
      <3>4. UNCHANGED <<dbVars, envVars, program, blocked, schedVars, tries>>
        BY ZenonT(60), <1>1 DEF ReadJob
      <3>5. UNCHANGED result
        BY <2>2
      <3> QED
        BY SMTT(60), <2>1, <3>1, <3>2, <3>3, <3>4, <3>5 DEF TypeOK, DBTypeOK, dbVars, envVars, schedVars
    <2>3. CASE \E r \in {"refused", "already", "terminal"} : Answer(a, r)
      <3>1. PICK r \in Results : Answer(a, r)
        BY SMTT(60), <2>3 DEF Results
      <3>2. /\ pc' \in [Actors -> Steps] /\ mem' \in [Actors -> Instances] /\ result' \in [Requests -> Results]
            /\ pc'[a] = "done" /\ \A b \in Actors : b # a => pc'[b] = pc[b]
        BY SMTT(60), <3>1, AnswerType
      <3>3. OnJob'
        BY ZenonT(60), <2>1, <3>2 DEF OnJob
      <3>4. UNCHANGED <<dbVars, envVars, program, blocked, schedVars, tries>>
        BY ZenonT(60), <1>1 DEF ReadJob
      <3> QED
        BY SMTT(60), <2>1, <3>2, <3>3, <3>4 DEF TypeOK, DBTypeOK, dbVars, envVars, schedVars
    <2> QED
      BY ZenonT(60), SMTT(60), <1>1, <2>2, <2>3 DEF ReadJob
  <1>2. ASSUME NEW a \in Requests, ReadAgain(a)
        PROVE  TypeOK' /\ OnJob'
    <2>1. PICK r \in Results : Answer(a, r)
      BY SMTT(60), <1>2 DEF ReadAgain, Results
    <2>2. /\ pc' \in [Actors -> Steps] /\ mem' \in [Actors -> Instances] /\ result' \in [Requests -> Results]
          /\ pc'[a] = "done" /\ \A b \in Actors : b # a => pc'[b] = pc[b]
      BY <2>1, AnswerType
    <2>3. UNCHANGED <<dbVars, envVars, program, blocked, schedVars, on, tries>>
      BY SMTT(60), <1>2 DEF ReadAgain
    <2>4. OnJob'
      BY SMTT(60), <2>2, <2>3 DEF OnJob, Resting
    <2> QED
      BY <2>2, <2>3, <2>4 DEF TypeOK, DBTypeOK, dbVars, envVars, schedVars
  <1>3. ASSUME NEW a \in Requests, RequestDies(a)
        PROVE  TypeOK' /\ OnJob'
    BY SMTT(60), <1>3, BlankType DEF RequestDies, GoTo, Forget, TypeOK, DBTypeOK, OnJob, Steps, Resting, dbVars, envVars, schedVars
  <1>4. ASSUME NEW j \in Jobs, Environment(j) \/ DeleteProgram(j) \/ SetBlocked(j)
        PROVE  TypeOK' /\ OnJob'
    <2>1. CASE FleetMoves(j)
      <3>1. \E s \in FleetStates : fleet' = [fleet EXCEPT ![j] = s]
        BY ZenonT(60), <2>1 DEF FleetMoves, FleetStates
      <3> QED
        BY SMTT(60), <2>1, <3>1 DEF FleetMoves, TypeOK, DBTypeOK, OnJob, dbVars, schedVars, actorVars
    <2>2. CASE FleetVanishes(j)
      BY SMTT(60), <2>2 DEF FleetVanishes, TypeOK, DBTypeOK, OnJob, dbVars, schedVars, actorVars
    <2>3. CASE TimePasses(j)
      <3>1. expired' \in [Jobs -> BOOLEAN] /\ overdue' \in [Jobs -> BOOLEAN]
        BY ZenonT(60), <2>3 DEF TimePasses, TypeOK
      <3> QED
        BY SMTT(60), <2>3, <3>1 DEF TimePasses, TypeOK, DBTypeOK, OnJob, dbVars, schedVars, actorVars
    <2>4. CASE DeleteProgram(j)
      BY <2>4 DEF DeleteProgram, TypeOK, DBTypeOK, OnJob, dbVars, envVars, schedVars, actorVars
    <2>5. CASE SetBlocked(j)
      <3>1. PICK b \in BOOLEAN : blocked' = [blocked EXCEPT ![j] = b]
        BY ZenonT(60), <2>5 DEF SetBlocked
      <3> QED
        BY <2>5, <3>1 DEF SetBlocked, TypeOK, DBTypeOK, OnJob, dbVars, envVars, schedVars, actorVars
    <2> QED
      BY SMTT(60), <1>4, <2>1, <2>2, <2>3, <2>4, <2>5 DEF Environment
  <1>5. CASE UNCHANGED vars
    BY <1>5 DEF vars, TypeOK, DBTypeOK, OnJob, dbVars, envVars, schedVars, actorVars
  <1> QED
    BY SMTT(60), <1>1, <1>2, <1>3, <1>4, <1>5

\* Every step of the scheduler, of a request and of the environment keeps the
\* types and leaves a busy actor with a job.
LEMMA TypedStep == Typed /\ [Next]_vars => Typed'
  <1> SUFFICES ASSUME Typed, [Next]_vars PROVE TypeOK' /\ OnJob'
    BY DEF Typed
  <1> TypeOK /\ OnJob /\ MayLoseProgram \subseteq Jobs /\ MayBlock \subseteq Jobs
    BY ActorsAssumption DEF Typed
  <1> QED
    BY TypeSchedulerStep, TypeStopStep, TypeOtherStep DEF Next, SchedulerStep, RequestStep, Actors

\* The initial rows are typed and nobody is at work.
LEMMA TypedInit == Init => Typed
  BY BlankType, ActorsAssumption DEF Init, DBInit, Typed, TypeOK, DBTypeOK, OnJob, NoBatch, Steps, Resting, Statuses, Tasks,
     FleetStates, Readings, Results, Actors

\* FleetsJobs keeps the types of its state, for every set of jobs and requests.
THEOREM FleetsTypeCorrect == Spec => []TypeOK
  <1>1. Spec => []Typed
    BY TypedInit, TypedStep, PTL DEF Spec
  <1>2. Typed => TypeOK
    BY DEF Typed
  <1> QED
    BY <1>1, <1>2, PTL

-----------------------------------------------------------------------------
(* FleetsJobs implements JobLifecycle. *)

\* to_terminal is an end of the lifecycle.
LEMMA ToTerminalEnds ==
    ASSUME DBTypeOK, NEW j \in Jobs, NEW s \in TERMINAL_STATUSES, NEW p, MayChange(j, s), ToTerminal(j, s, p)
    PROVE  Lifecycle!Next
  <1> DEFINE owing == UsageChannels(j, s, p) \cup WorkloadChannel(j)
  <1>1. owing \in SUBSET Channels
    BY SMTT(60) DEF UsageChannels, WorkloadChannel, Channels
  <1>2. Lifecycle!MayOwe(j, s, owing)
    BY DEF UsageChannels, WorkloadChannel, Lifecycle!MayOwe, Lifecycle!WasRunning, HasRun
  <1>3. /\ outbox' = [outbox EXCEPT ![j] = [c \in Channels |-> IF c \in owing THEN @[c] + 1 ELSE @[c]]]
        /\ mirror' = [mirror EXCEPT ![j] = FALSE]
    BY DEF ToTerminal, Enqueue, LeaveMirror
  <1>4. Lifecycle!Move(j, s)
    BY ZenonT(60) DEF ToTerminal, ChangeStatus, MayChange, Lifecycle!Move, VALID_TRANSITIONS, Lifecycle!VALID_TRANSITIONS,
           TERMINAL_STATUSES, Lifecycle!TERMINAL_STATUSES, Statuses, Lifecycle!Statuses
  <1>5. s \in Lifecycle!Statuses /\ s \in Lifecycle!TERMINAL_STATUSES /\ Lifecycle!Channels = Channels
    BY DEF TERMINAL_STATUSES, Lifecycle!TERMINAL_STATUSES, Lifecycle!Statuses, Channels, Lifecycle!Channels
  <1>6. Lifecycle!End(j, s)
    BY <1>1, <1>2, <1>3, <1>4, <1>5 DEF Lifecycle!End
  <1> QED
    BY <1>5, <1>6 DEF Lifecycle!Next

\* So is the STOPPED that stop() writes.
LEMMA ToStoppedByStopEnds ==
    ASSUME DBTypeOK, NEW j \in Jobs, MayChange(j, "STOPPED"), ToStoppedByStop(j)
    PROVE  Lifecycle!Next
  <1> DEFINE owing == WorkloadChannel(j)
  <1>1. owing \in SUBSET Channels
    BY DEF WorkloadChannel, Channels
  <1>2. Lifecycle!MayOwe(j, "STOPPED", owing)
    BY DEF WorkloadChannel, Lifecycle!MayOwe
  <1>3. /\ outbox' = [outbox EXCEPT ![j] = [c \in Channels |-> IF c \in owing THEN @[c] + 1 ELSE @[c]]]
        /\ mirror' = [mirror EXCEPT ![j] = FALSE]
    BY DEF ToStoppedByStop, Enqueue, LeaveMirror
  <1>4. Lifecycle!Move(j, "STOPPED")
    BY ZenonT(60) DEF ToStoppedByStop, ChangeStatus, MayChange, Lifecycle!Move, VALID_TRANSITIONS, Lifecycle!VALID_TRANSITIONS,
           TERMINAL_STATUSES, Lifecycle!TERMINAL_STATUSES, Statuses, Lifecycle!Statuses
  <1>5. "STOPPED" \in Lifecycle!Statuses /\ "STOPPED" \in Lifecycle!TERMINAL_STATUSES /\ Lifecycle!Channels = Channels
    BY DEF Lifecycle!TERMINAL_STATUSES, Lifecycle!Statuses, Channels, Lifecycle!Channels
  <1>6. Lifecycle!End(j, "STOPPED")
    BY <1>1, <1>2, <1>3, <1>4, <1>5 DEF Lifecycle!End
  <1> QED
    BY <1>5, <1>6 DEF Lifecycle!Next

\* A transition to PENDING, RUNNING or STOPPING is an advance.
LEMMA ToIntermediateAdvances ==
    ASSUME NEW j \in Jobs, NEW s \in {"PENDING", "RUNNING", "STOPPING"}, MayChange(j, s), ToIntermediate(j, s)
    PROVE  Lifecycle!Next
  <1>1. Lifecycle!Move(j, s)
    BY ZenonT(60) DEF ToIntermediate, ChangeStatus, MayChange, Lifecycle!Move, VALID_TRANSITIONS, Lifecycle!VALID_TRANSITIONS,
           TERMINAL_STATUSES, Lifecycle!TERMINAL_STATUSES, Statuses, Lifecycle!Statuses
  <1>2. s \in Lifecycle!Statuses /\ s \notin Lifecycle!TERMINAL_STATUSES
    BY DEF Lifecycle!TERMINAL_STATUSES, Lifecycle!Statuses
  <1>3. Lifecycle!Advance(j, s)
    BY <1>1, <1>2 DEF ToIntermediate, Lifecycle!Advance
  <1> QED
    BY <1>2, <1>3 DEF Lifecycle!Next

\* The variables of JobLifecycle.
rowVars == <<status, events, outbox, mirror>>

\* Every step is a step of the lifecycle, or leaves the rows alone.
LEMMA LifecycleStep ==
    ASSUME Typed, EndsForGood, [Next]_vars
    PROVE  Lifecycle!Next \/ UNCHANGED rowVars
  <1> DBTypeOK /\ OnJob /\ Scheduler \in Actors /\ Requests \subseteq Actors
    BY SMTT(60) DEF Typed, TypeOK, Actors
  <1>1. CASE FetchBatch \/ TakeJob \/ EndTask \/ Crash \/ NoFreeFleet \/ SubmitRetryable
    BY ZenonT(60), <1>1 DEF FetchBatch, TakeJob, EndTask, Crash, NoFreeFleet, SubmitRetryable, dbVars, rowVars
  <1>2. CASE SubmitAnswerLost \/ SubmitCreated \/ SubmitRefused \/ RecordFleet \/ CancelOrphanFleet
    BY SMTT(60), <1>2 DEF SubmitAnswerLost, SubmitCreated, SubmitRefused, RecordFleet, CancelOrphanFleet, dbVars, rowVars
  <1>3. CASE ReadStatus \/ StopJobIfTimeout \/ StopBlocked
    BY SMTT(60), <1>3 DEF ReadStatus, StopJobIfTimeout, StopBlocked, dbVars, rowVars
  <1>4. CASE FailSubmit
    <2>1. cur \in Jobs /\ "FAILED" \in TERMINAL_STATUSES
      BY SMTT(60), <1>4 DEF FailSubmit, OnJob, Steps, Resting, cur, TERMINAL_STATUSES
    <2> QED
      BY SMTT(60), <1>4, <2>1, ToTerminalEnds DEF FailSubmit, rowVars
  <1>5. CASE BlockedToStopped
    <2>1. cur \in Jobs /\ "STOPPED" \in TERMINAL_STATUSES
      BY SMTT(60), <1>5 DEF BlockedToStopped, OnJob, Steps, Resting, cur, TERMINAL_STATUSES
    <2> QED
      BY SMTT(60), <1>5, <2>1, ToTerminalEnds DEF BlockedToStopped, rowVars
  <1>6. CASE EndJob
    <2>1. cur \in Jobs /\ reading \in TERMINAL_STATUSES
      BY SMTT(60), <1>6 DEF EndJob, OnJob, Steps, Resting, cur, EndsForGood
    <2> QED
      BY SMTT(60), <1>6, <2>1, ToTerminalEnds DEF EndJob, rowVars
  <1>7. CASE QueuedToPending \/ PendingToRunning
    <2>1. cur \in Jobs
      BY <1>7 DEF QueuedToPending, PendingToRunning, OnJob, Steps, Resting, cur
    <2> QED
      BY SMTT(60), <1>7, <2>1, ToIntermediateAdvances DEF QueuedToPending, PendingToRunning, rowVars
  <1>8. ASSUME NEW a \in Actors, Stop(a)
        PROVE  Lifecycle!Next \/ UNCHANGED rowVars
    <2>1. on[a] \in Jobs
      BY ZenonT(60), <1>8 DEF Stop, CancelAccepted, NothingToCancel, CancelFailed, WriteStopping, WriteStopped, OnJob, Steps, Resting
    <2>2. CASE CancelAccepted(a) \/ NothingToCancel(a) \/ CancelFailed(a)
      BY SMTT(60), <2>2 DEF CancelAccepted, NothingToCancel, CancelFailed, dbVars, rowVars
    <2>3. CASE WriteStopping(a)
      BY ZenonT(60), <2>1, <2>3, ToIntermediateAdvances DEF WriteStopping, rowVars
    <2>4. CASE WriteStopped(a)
      BY ZenonT(60), <2>1, <2>4, ToStoppedByStopEnds DEF WriteStopped, rowVars
    <2> QED
      BY SMTT(60), <1>8, <2>2, <2>3, <2>4 DEF Stop
  <1>9. ASSUME NEW a \in Requests, (\E j \in Jobs : ReadJob(a, j)) \/ ReadAgain(a) \/ RequestDies(a)
        PROVE  UNCHANGED rowVars
    BY SMTT(60), <1>9 DEF ReadJob, ReadAgain, RequestDies, dbVars, rowVars
  <1>10. ASSUME NEW j, Environment(j) \/ DeleteProgram(j) \/ SetBlocked(j)
         PROVE  UNCHANGED rowVars
    BY ZenonT(60), <1>10 DEF Environment, FleetMoves, FleetVanishes, TimePasses, DeleteProgram, SetBlocked, dbVars, rowVars
  <1>11. CASE UNCHANGED vars
    BY SMTT(60), <1>11 DEF vars, dbVars, rowVars
  <1> QED
    BY <1>1, <1>2, <1>3, <1>4, <1>5, <1>6, <1>7, <1>8, <1>9, <1>10, <1>11
       DEF Next, SchedulerStep, Submit, Poll, RequestStep

\* Only ReadStatus sends the scheduler to the end of a job.
LEMMA EndsForGoodStep ==
    ASSUME Typed, EndsForGood, [Next]_vars
    PROVE  EndsForGood'
  <1> Scheduler \in Actors /\ pc \in [Actors -> Steps] /\ Scheduler \notin Requests /\ task \in Tasks
    BY ActorsAssumption DEF Typed, TypeOK, Actors
  <1> USE DEF EndsForGood
  <1>1. ASSUME NextJob PROVE EndsForGood'
    BY <1>1 DEF NextJob, GoTo
  <1>2. ASSUME NEW t, LeaveTask(t) PROVE EndsForGood'
    BY <1>2 DEF LeaveTask, GoTo
  <1>3. ASSUME NEW t \in Steps \ {"end"}, GoTo(Scheduler, t) PROVE EndsForGood'
    BY <1>3 DEF GoTo
  <1>4. ASSUME NEW a \in Requests, pc'[Scheduler] = pc[Scheduler], reading' = reading PROVE EndsForGood'
    BY SMTT(60), <1>4
  <1>5. CASE FetchBatch \/ TakeJob
    <2>1. {"next", FirstStep(task)} \subseteq Steps \ {"end"}
      BY SMTT(60) DEF FirstStep, Tasks, Steps
    <2> QED
      BY <1>3, <1>5, <2>1 DEF FetchBatch, TakeJob
  <1>6. CASE EndTask \/ Crash \/ NoFreeFleet \/ SubmitRetryable \/ SubmitAnswerLost
    BY SMTT(60), <1>1, <1>2, <1>6 DEF EndTask, Crash, NoFreeFleet, SubmitRetryable, SubmitAnswerLost, KeepQueued
  <1>7. CASE SubmitCreated \/ SubmitRefused \/ RecordFleet \/ PendingToRunning
    BY SMTT(60), <1>3, <1>7 DEF SubmitCreated, SubmitRefused, RecordFleet, PendingToRunning, Steps
  <1>8. CASE FailSubmit \/ CancelOrphanFleet \/ EndJob \/ BlockedToStopped
    <2>1. NextJob \/ \E t : LeaveTask(t)
      BY ZenonT(60), <1>8 DEF FailSubmit, CancelOrphanFleet, EndJob, BlockedToStopped
    <2> QED
      BY ZenonT(60), <1>1, <1>2, <2>1
  <1>9. CASE QueuedToPending \/ StopJobIfTimeout \/ StopBlocked
    BY SMTT(60), <1>1, <1>3, <1>9 DEF QueuedToPending, StopJobIfTimeout, StopBlocked, Steps
  <1>10. CASE ReadStatus
    BY SMTT(60), <1>1, <1>3, <1>10 DEF ReadStatus, TERMINAL_STATUSES, Steps
  <1>11. CASE Stop(Scheduler)
    BY SMTT(60), <1>1, <1>3, <1>11, ActorsAssumption
       DEF Stop, CancelAccepted, NothingToCancel, CancelFailed, WriteStopping, WriteStopped, NotStopped, LostRace, Steps
  <1>12. ASSUME NEW a \in Requests, Stop(a) PROVE EndsForGood'
    <2>1. CASE CancelAccepted(a) \/ NothingToCancel(a)
      <3>1. UNCHANGED schedVars /\ \E t : GoTo(a, t)
        BY ZenonT(60), <2>1 DEF CancelAccepted, NothingToCancel
      <3> QED
        BY <1>12, <3>1 DEF GoTo, schedVars
    <2>2. CASE CancelFailed(a) \/ WriteStopping(a) \/ WriteStopped(a)
      BY <1>12, <2>2 DEF CancelFailed, WriteStopping, WriteStopped, NotStopped, LostRace, Answer, GoTo
    <2> QED
      BY SMTT(60), <1>12, <2>1, <2>2 DEF Stop
  <1>13. ASSUME NEW a \in Requests, (\E j \in Jobs : ReadJob(a, j)) \/ ReadAgain(a) \/ RequestDies(a) PROVE EndsForGood'
    BY SMTT(60), <1>13 DEF ReadJob, ReadAgain, RequestDies, Answer, GoTo, schedVars
  <1>14. ASSUME NEW j, Environment(j) \/ DeleteProgram(j) \/ SetBlocked(j) PROVE EndsForGood'
    <2>1. UNCHANGED <<schedVars, actorVars>>
      BY ZenonT(60), <1>14 DEF Environment, FleetMoves, FleetVanishes, TimePasses, DeleteProgram, SetBlocked
    <2> QED
      BY <2>1 DEF schedVars, actorVars
  <1>15. CASE UNCHANGED vars
    BY <1>15 DEF vars, schedVars, actorVars
  <1> HIDE DEF EndsForGood
  <1>16. SchedulerStep \/ Crash => EndsForGood'
    BY SMTT(60), <1>5, <1>6, <1>7, <1>8, <1>9, <1>10, <1>11 DEF SchedulerStep, Submit, Poll
  <1>17. ASSUME NEW a \in Requests, RequestStep(a) \/ RequestDies(a) PROVE EndsForGood'
    BY SMTT(60), <1>12, <1>13, <1>17 DEF RequestStep
  <1> QED
    BY SMTT(60), <1>14, <1>15, <1>16, <1>17 DEF Next

\* The jobs of FleetsJobs live the lifecycle JobTransitionService promises, for
\* every set of jobs and requests, and however many crashes.
THEOREM FleetsImplementLifecycle == Spec => ImplementsLifecycle
  <1>1. Init => Lifecycle!Init
    BY SMTT(60) DEF Init, DBInit, Lifecycle!Init, Channels, Lifecycle!Channels
  <1>2. Init => EndsForGood
    BY DEF Init, EndsForGood, Actors
  <1>3. Typed /\ EndsForGood /\ [Next]_vars => [Lifecycle!Next]_(Lifecycle!lifecycleVars)
    BY LifecycleStep DEF rowVars, Lifecycle!lifecycleVars
  <1>4. Typed /\ EndsForGood /\ [Next]_vars => (Typed /\ EndsForGood)'
    BY TypedStep, EndsForGoodStep
  <1> QED
    BY <1>1, <1>2, <1>3, <1>4, TypedInit, PTL DEF Spec, ImplementsLifecycle, Lifecycle!Spec

-----------------------------------------------------------------------------
(* The safety of the submits and of the stop requests. *)

\* Safe is an invariant of the scheduler, the requests and Code Engine.
THEOREM FleetsSafe == Spec => [](Typed /\ EndsForGood /\ Safe)
  <1>1. Init => Typed /\ EndsForGood /\ Safe
    BY TypedInit, SafeInit DEF Init, EndsForGood, Actors
  <1>2. Typed /\ EndsForGood /\ Safe /\ [Next]_vars => (Typed /\ EndsForGood /\ Safe)'
    BY TypedStep, EndsForGoodStep, SafeStep
  <1> QED
    BY <1>1, <1>2, PTL DEF Spec

\* What a stop request was told stays true, for any number of requests and jobs
\* (StopJobUseCase.execute, JobTransitionService.stop).
THEOREM FleetsAnswersAreTrue == Spec => []AnswersAreTrue
  <1>1. Safe => AnswersAreTrue
    BY DEF Safe, RequestSafe, Settled, AnswersAreTrue
  <1> QED
    BY <1>1, FleetsSafe, PTL

\* A stop that races the submit never leaves a fleet running in silence
\* (FleetsJobSubmitter._cancel_orphan_fleet).
THEOREM FleetsLeaveNoSilentOrphan == Spec => []NoSilentOrphan
  <1>1. Safe => NoSilentOrphan
    BY DEF Safe, OrphanSafe, NoSilentOrphan
  <1> QED
    BY <1>1, FleetsSafe, PTL

\* Every fleet is on its row once its submit is over, also across crashes
\* (FleetsJobSubmitter.submit).
THEOREM FleetsRecorded == Spec => []FleetsAreRecorded
  <1>1. Safe => FleetsAreRecorded
    BY DEF Safe, RowSafe, FleetsAreRecorded
  <1> QED
    BY <1>1, FleetsSafe, PTL

\* Without a crash a fleet is only created with the env_vars of its job
\* (FleetsJobSubmitter.submit).
THEOREM FleetsCreatedWithEnvVars == Spec => CreatedWithEnvVars
  <1>1. ASSUME Typed, EndsForGood, Safe, [Next]_vars
        PROVE  [\A j \in Jobs : crashes = 0 /\ fleet[j] = "none" /\ fleet'[j] # "none" => envKept[j]]_vars
    BY <1>1, Facts, CreatesWithEnv
  <1> QED
    BY <1>1, FleetsSafe, PTL DEF Spec, CreatedWithEnvVars

-----------------------------------------------------------------------------
(* The slots. *)

\* The jobs that hold a slot, or that the submitter has been promised one for.
Claimed ==
    Running \cup (IF task = "ScheduleFleetsJobs" THEN DOMAIN batch \cup ({cur} \cap Jobs) ELSE {})
SlotsSafe == crashes = 0 => Cardinality(Claimed) <= LIMITS_MAX_FLEETS

\* A job that starts to hold a slot was promised one.
LEMMA RunningClaimed ==
    ASSUME Types, EndsForGood, Safe, [Next]_vars, crashes = 0, NEW j \in Jobs, status'[j] \in RUNNING_STATUSES
    PROVE  j \in Claimed
  <1>1. status[j] \in RUNNING_STATUSES => j \in Claimed
    BY DEF Claimed, Running
  <1>2. cur = j /\ task = "ScheduleFleetsJobs" => j \in Claimed
    BY DEF Claimed
  <1>3. CASE status'[j] # status[j]
    <2>1. PICK a \in Actors : StatusWrite(a, j)
      BY <1>3, StatusWrites
    <2>2. CASE pc[a] = "pending" /\ a = Scheduler
      BY <1>2, <2>1, <2>2 DEF StatusWrite, Safe, LoopSafe, SubmitSteps, cur
    <2>3. CASE pc[a] = "torunning" /\ status[j] = "PENDING"
      BY <1>1, <2>3 DEF RUNNING_STATUSES
    <2>4. CASE pc[a] = "stopping" /\ status'[j] = "STOPPING"
      <3>1. ~Terminal(j)
        BY <1>3, StatusGrows
      <3>2. CASE status[j] = "QUEUED"
        <4>1. fleetId[j]
          BY <2>1, <2>4 DEF StatusWrite, Safe, StopperSafe, Holds
        <4>2. Submitting(j)
          BY <3>2, <4>1 DEF Safe, RowSafe
        <4> QED
          BY <1>2, <4>2 DEF Submitting, Safe, LoopSafe, SubmitSteps, cur
      <3> QED
        BY <1>1, <3>1, <3>2, Moves DEF RUNNING_STATUSES
    <2> QED
      BY <2>1, <2>2, <2>3, <2>4 DEF StatusWrite, RUNNING_STATUSES, TERMINAL_STATUSES
  <1> QED
    BY <1>1, <1>3

\* Nobody but the next query claims a slot.
LEMMA PromisesShrink ==
    ASSUME Types, [Next]_vars, task' = "ScheduleFleetsJobs", ~FetchBatch,
           NEW j \in Jobs, j \in DOMAIN batch' \/ j = cur'
    PROVE  j \in Claimed
  <1>1. task = "ScheduleFleetsJobs" /\ (j \in DOMAIN batch \/ j = cur) => j \in Claimed
    BY DEF Claimed
  <1>2. CASE WorldFrame \/ \E a \in Requests : RequestStep(a) \/ RequestDies(a)
    <2>1. ActorKept(Scheduler) /\ UNCHANGED <<task, batch>>
      BY <1>2, RequestFrames DEF Types, ActorSets, RequestFrame, WorldFrame, ActorKept
    <2> QED
      BY <1>1, <2>1 DEF ActorKept, cur
  <1>3. CASE SchedulerStep \/ Crash
    <2>1. CASE Rests
      BY <1>1, <2>1 DEF Types, ActorSets, Rests, cur
    <2>2. CASE TakeJob
      <3>1. PICK k \in DOMAIN batch :
              /\ on' = [on EXCEPT ![Scheduler] = k]
              /\ batch' = [l \in DOMAIN batch \ {k} |-> batch[l]]
        BY ZenonT(60), <2>2 DEF TakeJob
      <3>2. task' = task
        BY <2>2 DEF TakeJob
      <3> QED
        BY SMTT(60), <1>1, <3>1, <3>2 DEF cur
    <2>3. CASE RecordFleet
      BY <1>1, <2>3 DEF RecordFleet, schedVars, cur
    <2>4. ASSUME NEW s, Goes(s) PROVE j \in Claimed
      BY SMTT(60), <1>1, <2>4 DEF Goes, cur
    <2> QED
      BY ZenonT(60), <1>3, <2>1, <2>2, <2>3, <2>4, Turns DEF Turn
  <1> QED
    BY SMTT(60), <1>2, <1>3, StepKinds

\* The rest counts.
INSTANCE FiniteSetTheorems

\* The slots that are held or promised fit the limit.
LEMMA SlotsStep ==
    ASSUME Typed, Types, EndsForGood, Safe, SlotsSafe, [Next]_vars
    PROVE  SlotsSafe'
  <1> SUFFICES ASSUME crashes' = 0
               PROVE  Cardinality(Claimed') <= LIMITS_MAX_FLEETS
    BY DEF SlotsSafe
  <1>1. crashes = 0
    BY CrashesGrow DEF Types, LoopTypes
  <1>2. Cardinality(Claimed) <= LIMITS_MAX_FLEETS
    BY <1>1 DEF SlotsSafe
  <1>3. IsFiniteSet(Claimed) /\ Cardinality(Claimed) \in Nat
    <2>1. Claimed \subseteq Jobs
      BY DEF Types, LoopTypes, Claimed, Running
    <2> QED
      BY SMTT(60), <2>1, JobsAssumption, FS_Subset, FS_CardinalityType
  <1>4. ASSUME Claimed' \subseteq Claimed PROVE Cardinality(Claimed') <= LIMITS_MAX_FLEETS
    <2>1. Cardinality(Claimed') <= Cardinality(Claimed) /\ IsFiniteSet(Claimed')
      BY SMTT(60), <1>3, <1>4, FS_Subset
    <2>2. Cardinality(Claimed') \in Nat
      BY SMTT(60), <2>1, FS_CardinalityType
    <2> QED
      BY SMTT(60), <1>2, <1>3, <2>1, <2>2, ActorsAssumption
  <1>5. Running' \subseteq Claimed
    BY SMTT(60), <1>1, RunningClaimed DEF Running
  <1>6. CASE ~FetchBatch
    <2>1. DOMAIN batch' \subseteq Jobs
      BY TypedStep DEF Typed, TypeOK
    <2>2. Claimed' \subseteq Claimed
      BY SMTT(60), <1>5, <1>6, <2>1, PromisesShrink DEF Claimed
    <2> QED
      BY <1>4, <2>2
  <1>7. CASE FetchBatch
    <2>1. PICK S \in Selections(task) : batch' = [j \in S |-> Load(j)]
      BY <1>7 DEF FetchBatch
    <2>2. /\ task' = task /\ status' = status /\ cur' = NoJob
          /\ NoJob \notin Jobs
      BY <1>7 DEF Types, ActorSets, ActorTypes, FetchBatch, dbVars, Safe, LoopSafe, cur
    <2>3. Claimed' = Running \cup (IF task = "ScheduleFleetsJobs" THEN S ELSE {})
      BY SMTT(60), <2>1, <2>2 DEF Claimed, Running
    <2>4. CASE task # "ScheduleFleetsJobs" \/ S = {}
      BY SMTT(60), <1>4, <2>3, <2>4 DEF Claimed
    <2>5. CASE task = "ScheduleFleetsJobs" /\ Cardinality(S) + Cardinality(Running) <= LIMITS_MAX_FLEETS
      <3>1. S \subseteq Jobs /\ Running \subseteq Jobs
        BY DEF Selections, Candidates, Running
      <3>2. IsFiniteSet(S) /\ IsFiniteSet(Running)
        BY SMTT(60), <3>1, JobsAssumption, FS_Subset
      <3>3. /\ Cardinality(S) \in Nat /\ Cardinality(Running) \in Nat /\ Cardinality(Running \cap S) \in Nat
            /\ Cardinality(Running \cup S) = Cardinality(Running) + Cardinality(S) - Cardinality(Running \cap S)
        <4>1. IsFiniteSet(Running \cap S)
          BY <3>2, FS_Subset
        <4> QED
          BY SMTT(60), <3>2, <4>1, FS_Union, FS_CardinalityType
      <3> QED
        BY SMTT(60), <2>3, <2>5, <3>3, ActorsAssumption
    <2> QED
      BY SMTT(60), <2>4, <2>5 DEF Selections
  <1> QED
    BY SMTT(60), <1>6, <1>7

\* The slots fit when the scheduler starts.
LEMMA SlotsInit == Init => SlotsSafe
  <1> SUFFICES ASSUME Init
               PROVE  SlotsSafe
    OBVIOUS
  <1>1. /\ cur = NoJob /\ NoJob \notin Jobs /\ DOMAIN batch = {}
        /\ \A j \in Jobs : status[j] = "QUEUED"
    BY ActorsAssumption DEF Init, DBInit, NoBatch, Actors, cur
  <1>2. Claimed = {}
    BY <1>1 DEF Claimed, Running, RUNNING_STATUSES
  <1> QED
    BY SMTT(60), <1>2, FS_EmptySet, ActorsAssumption DEF SlotsSafe

\* Without a crash the jobs that hold capacity never exceed the limit, for any
\* number of jobs (ScheduleFleetsJobs._schedule_fleets_jobs).
THEOREM FleetsRespectSlots == Spec => []SlotsRespected
  <1>1. Typed /\ SlotsSafe => SlotsRespected
    <2> SUFFICES ASSUME Types, SlotsSafe, crashes = 0
                 PROVE  Cardinality(Running) <= LIMITS_MAX_FLEETS
      BY Facts DEF SlotsRespected
    <2>1. Running \subseteq Claimed /\ Claimed \subseteq Jobs
      BY DEF Types, LoopTypes, Claimed, Running
    <2>2. IsFiniteSet(Claimed) /\ IsFiniteSet(Running) /\ Cardinality(Running) <= Cardinality(Claimed)
      BY SMTT(60), <2>1, JobsAssumption, FS_Subset
    <2>3. Cardinality(Claimed) \in Nat /\ Cardinality(Running) \in Nat
      BY <2>2, FS_CardinalityType
    <2> QED
      BY <2>2, <2>3, ActorsAssumption DEF SlotsSafe
  <1>2. Typed /\ EndsForGood /\ Safe /\ SlotsSafe /\ [Next]_vars => SlotsSafe'
    BY Facts, SlotsStep
  <1> QED
    BY <1>1, <1>2, SlotsInit, FleetsSafe, PTL DEF Spec

-----------------------------------------------------------------------------
(* What the contract promises, on the rows. *)

Contract == INSTANCE JobLifecycleProofs WITH
                Jobs <- Jobs, Mirrored <- Mirrored,
                status <- status, events <- events, outbox <- outbox, mirror <- mirror

\* The behaviours of FleetsJobs satisfy the specification JobLifecycleProofs
\* is about.
LEMMA FleetsKeepContract == Spec => Contract!Spec
  <1>1. Lifecycle!Init => Contract!Init
    BY DEF Lifecycle!Init, Contract!Init, Lifecycle!Channels, Contract!Channels
  <1>2. Lifecycle!VALID_TRANSITIONS = Contract!VALID_TRANSITIONS /\ Lifecycle!TERMINAL_STATUSES = Contract!TERMINAL_STATUSES
    BY DEF Lifecycle!VALID_TRANSITIONS, Contract!VALID_TRANSITIONS, Lifecycle!Statuses, Contract!Statuses,
           Lifecycle!TERMINAL_STATUSES, Contract!TERMINAL_STATUSES
  <1>3. ASSUME NEW j \in Jobs, NEW s \in Lifecycle!Statuses, Lifecycle!Advance(j, s)
        PROVE  Contract!Advance(j, s)
    BY <1>3, <1>2 DEF Lifecycle!Advance, Contract!Advance, Lifecycle!Move, Contract!Move
  <1>4. ASSUME NEW j \in Jobs, NEW s \in Lifecycle!Statuses, Lifecycle!End(j, s)
        PROVE  Contract!End(j, s)
    BY <1>4, <1>2 DEF Lifecycle!End, Contract!End, Lifecycle!Move, Contract!Move,
                      Lifecycle!MayOwe, Contract!MayOwe, Lifecycle!WasRunning, Contract!WasRunning,
                      Lifecycle!Channels, Contract!Channels
  <1>5. [Lifecycle!Next]_(Lifecycle!lifecycleVars) => [Contract!Next]_(Contract!lifecycleVars)
    BY <1>3, <1>4 DEF Lifecycle!Next, Contract!Next, Lifecycle!lifecycleVars, Contract!lifecycleVars,
                      Lifecycle!Statuses, Contract!Statuses
  <1> QED
    BY <1>1, <1>5, FleetsImplementLifecycle, PTL DEF ImplementsLifecycle, Lifecycle!Spec, Contract!Spec

\* The events of a job strictly advance and end in its status, for every set
\* of jobs and requests, and however many crashes (_change_status).
THEOREM FleetsHistory == Spec => []HistoryAdvances
  <1>1. Contract!HistoryAdvances => HistoryAdvances
    BY DEF Contract!HistoryAdvances, HistoryAdvances, Lifecycle!HistoryAdvances, Contract!Rank, Lifecycle!Rank
  <1> QED
    BY <1>1, FleetsKeepContract, Contract!LifecycleHistory, PTL

\* Each message of a Fleets job is enqueued once and at its end, whichever of
\* the scheduler and the requests ends it (to_terminal, stop).
THEOREM FleetsOutbox == Spec => []OutboxExact
  <1>1. Contract!OutboxExact => OutboxExact
    BY DEF Contract!OutboxExact, OutboxExact, Lifecycle!OutboxExact, Contract!Ended, Lifecycle!Ended,
           Contract!WasRunning, Lifecycle!WasRunning, Contract!Channels, Lifecycle!Channels,
           Contract!TERMINAL_STATUSES, Lifecycle!TERMINAL_STATUSES
  <1> QED
    BY <1>1, FleetsKeepContract, Contract!LifecycleOutbox, PTL

\* The final status of a Fleets job stays, with its events and its messages
\* (_change_status).
THEOREM FleetsFinal == Spec => TerminalIsFinal
  <1>1. [\A j \in Jobs : Contract!Ended(j) => /\ status'[j] = status[j]
                                              /\ events'[j] = events[j]
                                              /\ outbox'[j] = outbox[j]]_(Contract!lifecycleVars)
        => [\A j \in Jobs : Lifecycle!Ended(j) => /\ status'[j] = status[j]
                                                  /\ events'[j] = events[j]
                                                  /\ outbox'[j] = outbox[j]]_(Lifecycle!lifecycleVars)
    BY DEF Contract!Ended, Lifecycle!Ended, Contract!TERMINAL_STATUSES, Lifecycle!TERMINAL_STATUSES,
           Contract!lifecycleVars, Lifecycle!lifecycleVars
  <1> QED
    BY <1>1, FleetsKeepContract, Contract!LifecycleFinal, PTL
       DEF TerminalIsFinal, Lifecycle!TerminalIsFinal, Contract!TerminalIsFinal

=============================================================================
