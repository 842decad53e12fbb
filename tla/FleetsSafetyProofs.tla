------------------------- MODULE FleetsSafetyProofs -------------------------
(***************************************************************************)
(* The safety invariants of FleetsJobs, for every set of jobs and stop     *)
(* requests: what a stop answers, what happens to the fleets and to the    *)
(* env_vars.  They hold together, so one inductive invariant, Safe,        *)
(* carries them all.  The proofs do not argue from the single actions but  *)
(* from frames: what a step may write, and when, the only writers of a     *)
(* status, a fleet and a fleet_id, and the moves of the scheduler.         *)
(***************************************************************************)
EXTENDS FleetsJobs, TLAPS

-----------------------------------------------------------------------------
(* What a step may write, and when. *)


Ended == {"succeeded", "failed", "canceled"}
Started == {"PENDING", "RUNNING"}

-----------------------------------------------------------------------------
(* Facts about the state and the transitions. *)

\* The types and the jobs of the handlers, in the form the proofs use them: the
\* actors, what they hold, the rows, the fleets and the loop of the scheduler.
ActorSets ==
    /\ Scheduler \in Actors /\ Requests \subseteq Actors /\ Scheduler \notin Requests
    /\ Backoffice \subseteq Requests /\ NoJob \notin Jobs

ActorTypes ==
    /\ pc \in [Actors -> Steps]
    /\ on \in [Actors -> Jobs \cup {NoJob}]
    /\ mem \in [Actors -> Instances]
    /\ result \in [Requests -> Results]

Handling == \A a \in Actors : pc[a] \notin Resting => on[a] \in Jobs

RowTypes ==
    /\ status \in [Jobs -> Statuses]
    /\ fleetId \in [Jobs -> BOOLEAN]
    /\ envKept \in [Jobs -> BOOLEAN]
    /\ errors \in [Jobs -> SUBSET ErrorCodes]

FleetTypes ==
    /\ fleet \in [Jobs -> FleetStates]
    /\ gone \in [Jobs -> BOOLEAN]
    /\ cancelSent \in [Jobs -> BOOLEAN]
    /\ lost \in [Jobs -> BOOLEAN]
    /\ program \in [Jobs -> BOOLEAN]

LoopTypes ==
    /\ task \in Tasks
    /\ DOMAIN batch \subseteq Jobs
    /\ crashes \in Nat

Types == ActorSets /\ ActorTypes /\ Handling /\ RowTypes /\ FleetTypes /\ LoopTypes

\* They are what Typed says.
LEMMA Facts == Typed => Types
  BY ActorsAssumption DEF Types, Typed, TypeOK, DBTypeOK, OnJob, Actors, ActorSets, ActorTypes, Handling, RowTypes,
     FleetTypes, LoopTypes

\* VALID_TRANSITIONS, seen by the writers.
LEMMA Moves ==
    ASSUME Types, NEW j \in Jobs
    PROVE  /\ MayChange(j, "PENDING") <=> status[j] = "QUEUED"
           /\ MayChange(j, "RUNNING") <=> status[j] = "PENDING"
           /\ MayChange(j, "FAILED") <=> ~Terminal(j)
           /\ MayChange(j, "STOPPED") <=> ~Terminal(j)
           /\ MayChange(j, "STOPPING") <=> status[j] \in {"QUEUED", "PENDING", "RUNNING"}
           /\ ~Terminal(j) <=> status[j] \in {"QUEUED", "PENDING", "RUNNING", "STOPPING"}
  <1>1. status[j] \in Statuses
    BY DEF Types, RowTypes
  <1>2. /\ VALID_TRANSITIONS["QUEUED"] = {"PENDING", "FAILED", "STOPPED", "STOPPING"}
        /\ VALID_TRANSITIONS["PENDING"] = TERMINAL_STATUSES \cup {"STOPPING", "RUNNING"}
        /\ VALID_TRANSITIONS["RUNNING"] = TERMINAL_STATUSES \cup {"STOPPING"}
        /\ VALID_TRANSITIONS["STOPPING"] = TERMINAL_STATUSES
        /\ VALID_TRANSITIONS["SUCCEEDED"] = {}
        /\ VALID_TRANSITIONS["FAILED"] = {}
        /\ VALID_TRANSITIONS["STOPPED"] = {}
    BY DEF VALID_TRANSITIONS, Statuses, TERMINAL_STATUSES
  <1> QED
    BY <1>1, <1>2 DEF MayChange, Terminal, Statuses, TERMINAL_STATUSES

\* What each query loads.
LEMMA Fetched ==
    ASSUME Types, FetchBatch
    PROVE  \E S \in SUBSET Jobs :
              /\ batch' = [j \in S |-> Load(j)]
              /\ S \in Selections(task)
              /\ task = "ScheduleFleetsJobs" => \A j \in S : status[j] = "QUEUED"
              /\ task = "StopBlockedFleetsJobs" => \A j \in S : status[j] \in Started
  <1>1. PICK S \in Selections(task) : batch' = [j \in S |-> Load(j)]
    BY DEF FetchBatch
  <1>2. S \subseteq Candidates(task)
    BY DEF Selections
  <1>3. /\ S \subseteq Jobs
        /\ task = "ScheduleFleetsJobs" => \A j \in S : status[j] = "QUEUED"
        /\ task = "StopBlockedFleetsJobs" => \A j \in S : status[j] \in Started
    <2>1. CASE task = "ScheduleFleetsJobs"
      BY <1>2, <2>1 DEF Candidates
    <2>2. CASE task = "UpdateFleetsJobsStatuses"
      BY <1>2, <2>2 DEF Candidates
    <2>3. CASE task = "StopBlockedFleetsJobs"
      BY <1>2 DEF Candidates, Started
    <2> QED
      BY <2>1, <2>2, <2>3 DEF Types, Tasks, LoopTypes
  <1>4. S \in SUBSET Jobs
    BY <1>3
  <1> QED
    BY <1>1, <1>3

\* The step each task starts a job with.
LEMMA FirstSteps ==
    ASSUME Types
    PROVE  /\ FirstStep(task) \in {"submit", "read", "block"}
           /\ FirstStep(task) = "submit" => task = "ScheduleFleetsJobs"
           /\ FirstStep(task) = "block" => task = "StopBlockedFleetsJobs"
  BY DEF Types, FirstStep, Tasks, LoopTypes

-----------------------------------------------------------------------------
(* What a step may do at all. *)

\* The locals of an actor are left alone.
ActorKept(a) == pc'[a] = pc[a] /\ on'[a] = on[a] /\ mem'[a] = mem[a]

\* A row and its fleet are left alone, but for new error events.
RowKept(j) ==
    /\ status'[j] = status[j] /\ fleetId'[j] = fleetId[j] /\ envKept'[j] = envKept[j]
    /\ fleet'[j] = fleet[j] /\ cancelSent'[j] = cancelSent[j] /\ lost'[j] = lost[j]
    /\ errors[j] \subseteq errors'[j]

\* The facts about the job at hand that a step of the scheduler keeps.
CurGrows ==
    cur \in Jobs =>
        /\ fleetId[cur] => fleetId'[cur]
        /\ cancelSent[cur] => cancelSent'[cur]
        /\ errors[cur] \subseteq errors'[cur]
        /\ fleet[cur] \in Ended => fleet'[cur] \in Ended

\* The footprint of a step of the scheduler: its job, and no request.
SchedulerFrame ==
    /\ UNCHANGED <<gone, program>>
    /\ \A a \in Requests : ActorKept(a) /\ result'[a] = result[a]
    /\ \A j \in Jobs \ {cur} : RowKept(j)
    /\ CurGrows

\* The ways the scheduler changes its own locals leave the requests alone.
LEMMA SchedulerLocals ==
    ASSUME Types,
           \/ NextJob
           \/ \E t : LeaveTask(t)
           \/ \E s : GoTo(Scheduler, s) /\ on' = on /\ mem' = mem
    PROVE  \A a \in Requests : ActorKept(a)
  BY DEF Types, NextJob, LeaveTask, GoTo, Forget, ActorKept, ActorSets, ActorTypes

\* A step of the scheduler touches its own job and no request.
LEMMA SchedulerFrames ==
    ASSUME Types, SchedulerStep \/ Crash
    PROVE  SchedulerFrame
  <1>1. CASE FetchBatch
    BY <1>1, SchedulerLocals DEF FetchBatch, dbVars, envVars, SchedulerFrame, RowKept, CurGrows
  <1>2. CASE TakeJob
    <2>1. \A a \in Requests : ActorKept(a)
      BY <1>2 DEF TakeJob, GoTo, ActorKept, Types, ActorSets
    <2> QED
      BY <1>2, <2>1 DEF TakeJob, dbVars, envVars, SchedulerFrame, RowKept, CurGrows
  <1>3. CASE EndTask
    <2>1. \A j \in Jobs : errors[j] \subseteq errors'[j]
      BY <1>3 DEF EndTask
    <2> QED
      BY <1>3, SchedulerLocals DEF EndTask, envVars, SchedulerFrame, RowKept, CurGrows
  <1>4. CASE Crash
    <2>1. \A j \in Jobs \ {cur} : lost'[j] = lost[j]
      BY <1>4 DEF Crash, cur, Types, FleetTypes
    <2> QED
      BY <1>4, <2>1, SchedulerLocals DEF Crash, dbVars, SchedulerFrame, RowKept, CurGrows
  <1>5. CASE NoFreeFleet \/ SubmitRetryable
    BY <1>5, SchedulerLocals DEF NoFreeFleet, SubmitRetryable, KeepQueued, dbVars, envVars, SchedulerFrame, RowKept, CurGrows
  <1>6. CASE SubmitAnswerLost \/ SubmitCreated
    <2>1. /\ \A j \in Jobs \ {cur} : fleet'[j] = fleet[j] /\ lost'[j] = lost[j]
          /\ cur \in Jobs => (fleet[cur] \in Ended => fleet'[cur] \in Ended)
      BY <1>6 DEF SubmitAnswerLost, SubmitCreated, CreateFleet, Ended, Types, FleetTypes
    <2> QED
      BY <1>6, <2>1, SchedulerLocals DEF SubmitAnswerLost, SubmitCreated, KeepQueued, dbVars, SchedulerFrame, RowKept, CurGrows
  <1>7. CASE SubmitRefused
    <2>1. /\ \A j \in Jobs \ {cur} : fleet'[j] = fleet[j] /\ lost'[j] = lost[j]
          /\ cur \in Jobs => (fleet[cur] \in Ended => fleet'[cur] \in Ended)
      BY <1>7 DEF SubmitRefused, CreateFleet, Ended, Types, FleetTypes
    <2>2. /\ \A j \in Jobs : errors[j] \subseteq errors'[j]
          /\ \A j \in Jobs \ {cur} : envKept'[j] = envKept[j]
      BY <1>7 DEF SubmitRefused
    <2> QED
      BY <1>7, <2>1, SchedulerLocals DEF SubmitRefused, SchedulerFrame, RowKept, CurGrows
  <1>8. CASE FailSubmit
    <2>1. \A j \in Jobs \ {cur} : status'[j] = status[j]
      BY <1>8 DEF FailSubmit, ToTerminal, ChangeStatus, Types, RowTypes
    <2> QED
      BY <1>8, <2>1, SchedulerLocals DEF FailSubmit, envVars, SchedulerFrame, RowKept, CurGrows
  <1>9. CASE RecordFleet
    <2>1. \A a \in Requests : ActorKept(a)
      BY <1>9 DEF RecordFleet, GoTo, ActorKept, Types, ActorSets
    <2>2. /\ \A j \in Jobs \ {cur} : fleetId'[j] = fleetId[j] /\ envKept'[j] = envKept[j]
          /\ cur \in Jobs => fleetId'[cur]
      BY <1>9 DEF RecordFleet, Types, RowTypes
    <2> QED
      BY <1>9, <2>1 DEF RecordFleet, envVars, SchedulerFrame, RowKept, CurGrows
  <1>10. CASE QueuedToPending
    <2>1. \A j \in Jobs \ {cur} : status'[j] = status[j]
      BY <1>10 DEF QueuedToPending, ToIntermediate, ChangeStatus, Types, RowTypes
    <2> QED
      BY <1>10, <2>1, SchedulerLocals DEF QueuedToPending, envVars, SchedulerFrame, RowKept, CurGrows
  <1>11. CASE CancelOrphanFleet
    <2>1. /\ \A j \in Jobs : (cancelSent[j] => cancelSent'[j]) /\ errors[j] \subseteq errors'[j]
          /\ \A j \in Jobs \ {cur} : cancelSent'[j] = cancelSent[j]
      BY <1>11 DEF CancelOrphanFleet, Types, RowTypes, FleetTypes
    <2> QED
      BY <1>11, <2>1, SchedulerLocals DEF CancelOrphanFleet, SchedulerFrame, RowKept, CurGrows
  <1>12. CASE ReadStatus \/ StopJobIfTimeout \/ StopBlocked
    BY <1>12, SchedulerLocals DEF ReadStatus, StopJobIfTimeout, StopBlocked, dbVars, envVars, SchedulerFrame, RowKept, CurGrows
  <1>13. CASE EndJob
    <2>1. \A j \in Jobs \ {cur} : status'[j] = status[j] /\ envKept'[j] = envKept[j]
      BY <1>13 DEF EndJob, ToTerminal, ChangeStatus, Types, RowTypes
    <2> QED
      BY <1>13, <2>1, SchedulerLocals DEF EndJob, envVars, SchedulerFrame, RowKept, CurGrows
  <1>14. CASE PendingToRunning
    <2>1. \A j \in Jobs \ {cur} : status'[j] = status[j]
      BY <1>14 DEF PendingToRunning, ToIntermediate, ChangeStatus, Types, RowTypes
    <2> QED
      BY <1>14, <2>1, SchedulerLocals DEF PendingToRunning, envVars, SchedulerFrame, RowKept, CurGrows
  <1>15. CASE BlockedToStopped
    <2>1. \A j \in Jobs \ {cur} : status'[j] = status[j]
      BY <1>15 DEF BlockedToStopped, ToTerminal, ChangeStatus, Types, RowTypes
    <2> QED
      BY <1>15, <2>1, SchedulerLocals DEF BlockedToStopped, envVars, SchedulerFrame, RowKept, CurGrows
  <1>16. CASE CancelAccepted(Scheduler) \/ NothingToCancel(Scheduler)
    <2>1. /\ \A j \in Jobs : cancelSent[j] => cancelSent'[j]
          /\ \A j \in Jobs \ {cur} : cancelSent'[j] = cancelSent[j]
      BY <1>16 DEF CancelAccepted, NothingToCancel, cur, envVars, Types, FleetTypes
    <2> QED
      BY <1>16, <2>1, SchedulerLocals DEF CancelAccepted, NothingToCancel, dbVars, envVars, SchedulerFrame, RowKept, CurGrows
  <1>17. CASE CancelFailed(Scheduler)
    <2>1. /\ \A j \in Jobs : cancelSent[j] => cancelSent'[j]
          /\ \A j \in Jobs \ {cur} : cancelSent'[j] = cancelSent[j]
      BY <1>17 DEF CancelFailed, cur, Types, FleetTypes
    <2> QED
      BY <1>17, <2>1, SchedulerLocals DEF CancelFailed, NotStopped, dbVars, SchedulerFrame, RowKept, CurGrows
  <1>18. CASE WriteStopping(Scheduler)
    <2>1. \A j \in Jobs \ {cur} : status'[j] = status[j]
      BY <1>18 DEF WriteStopping, ToIntermediate, ChangeStatus, cur, Types, RowTypes
    <2> QED
      BY <1>18, <2>1, SchedulerLocals DEF WriteStopping, LostRace, envVars, Types, SchedulerFrame, RowKept, CurGrows, ActorSets
  <1>19. CASE WriteStopped(Scheduler)
    <2>1. \A j \in Jobs \ {cur} : status'[j] = status[j]
      BY <1>19 DEF WriteStopped, ToStoppedByStop, ChangeStatus, cur, Types, RowTypes
    <2> QED
      BY <1>19, <2>1, SchedulerLocals DEF WriteStopped, NotStopped, LostRace, envVars, Types, SchedulerFrame, RowKept,
         CurGrows, ActorSets
  <1> QED
    BY <1>1, <1>2, <1>3, <1>4, <1>5, <1>6, <1>7, <1>8, <1>9, <1>10, <1>11, <1>12, <1>13, <1>14, <1>15, <1>16, <1>17, <1>18,
       <1>19 DEF SchedulerStep, Submit, Poll, Stop

\* The footprint of a step of request a: its locals, the cancel of the fleet of
\* its job, and the STOPPING or STOPPED of the row.
RequestFrame(a) ==
    /\ UNCHANGED <<fleetId, envKept, errors, fleet, gone, lost, program, task, batch, crashes>>
    /\ \A b \in Actors \ {a} : ActorKept(b)
    /\ \A b \in Requests \ {a} : result'[b] = result[b]
    /\ \A j \in Jobs : /\ cancelSent[j] => cancelSent'[j]
                       /\ status'[j] \in {status[j], "STOPPING", "STOPPED"}

\* The other actors are left alone.
OthersKept(a) ==
    /\ \A b \in Actors \ {a} : ActorKept(b)
    /\ \A b \in Requests \ {a} : result'[b] = result[b]

\* An answer leaves the other actors alone.
LEMMA AnswerLocals ==
    ASSUME Types, NEW a \in Requests, NEW r, Answer(a, r), on' = on
    PROVE  OthersKept(a)
  BY DEF OthersKept, ActorKept, Answer, GoTo, Forget

\* So does a cancel that was not delivered.
LEMMA NotStoppedLocals ==
    ASSUME Types, NEW a \in Requests, NEW v, NotStopped(a, v)
    PROVE  OthersKept(a)
  <1>1. CASE mem' = [mem EXCEPT ![a].fleet = v] /\ GoTo(a, "cancel") /\ UNCHANGED <<reading, on, result>>
    BY <1>1 DEF GoTo, OthersKept, ActorKept
  <1>2. CASE Answer(a, "retry") /\ UNCHANGED <<reading, on, tries>>
    BY <1>2, AnswerLocals
  <1> QED
    BY <1>1, <1>2 DEF Types, NotStopped, ActorSets

\* And a lost race.
LEMMA LostRaceLocals ==
    ASSUME Types, NEW a \in Requests, LostRace(a)
    PROVE  OthersKept(a)
  <1>1. CASE GoTo(a, "lost") /\ UNCHANGED <<reading, on, mem, tries, result>>
    BY <1>1 DEF GoTo, OthersKept, ActorKept
  <1>2. CASE Answer(a, "left") /\ UNCHANGED <<reading, on, tries>>
    BY <1>2, AnswerLocals
  <1> QED
    BY <1>1, <1>2 DEF Types, LostRace, ActorSets

\* A step of a request touches its own locals, a cancel and a status.
LEMMA RequestFrames ==
    ASSUME Types, NEW a \in Requests, RequestStep(a) \/ RequestDies(a)
    PROVE  RequestFrame(a)
  <1>1. ASSUME NEW j \in Jobs, ReadJob(a, j)
        PROVE  RequestFrame(a)
    <2>1. /\ \A b \in Actors \ {a} : ActorKept(b)
          /\ \A b \in Requests \ {a} : result'[b] = result[b]
      BY <1>1 DEF ReadJob, Answer, GoTo, Forget, ActorKept, Types, ActorTypes
    <2> QED
      BY <1>1, <2>1 DEF ReadJob, dbVars, envVars, schedVars, RequestFrame
  <1>2. CASE ReadAgain(a)
    <2>1. OthersKept(a)
      BY <1>2, AnswerLocals DEF ReadAgain
    <2> QED
      BY <1>2, <2>1 DEF ReadAgain, OthersKept, dbVars, envVars, schedVars, RequestFrame
  <1>3. CASE RequestDies(a)
    <2>1. \A b \in Actors \ {a} : ActorKept(b)
      BY <1>3 DEF RequestDies, GoTo, Forget, ActorKept
    <2> QED
      BY <1>3, <2>1 DEF RequestDies, dbVars, envVars, schedVars, RequestFrame
  <1>4. CASE CancelAccepted(a) \/ NothingToCancel(a)
    <2>1. \A b \in Actors \ {a} : ActorKept(b)
      BY <1>4 DEF CancelAccepted, NothingToCancel, GoTo, ActorKept, Types, ActorTypes
    <2> QED
      BY <1>4, <2>1 DEF CancelAccepted, NothingToCancel, dbVars, envVars, schedVars, Types, RequestFrame, FleetTypes
  <1>5. CASE CancelFailed(a)
    <2>1. OthersKept(a)
      BY ZenonT(60), <1>5, NotStoppedLocals DEF CancelFailed
    <2>2. \A j \in Jobs : cancelSent[j] => cancelSent'[j]
      BY <1>5 DEF CancelFailed, Types, FleetTypes
    <2> QED
      BY <1>5, <2>1, <2>2 DEF CancelFailed, OthersKept, dbVars, RequestFrame
  <1>6. CASE WriteStopping(a)
    <2>1. \A j \in Jobs : status'[j] \in {status[j], "STOPPING", "STOPPED"}
      BY <1>6 DEF WriteStopping, ToIntermediate, ChangeStatus, Types, RowTypes
    <2>2. OthersKept(a)
      BY <1>6, LostRaceLocals, AnswerLocals DEF WriteStopping, Types, ActorSets
    <2> QED
      BY <1>6, <2>1, <2>2 DEF WriteStopping, OthersKept, envVars, RequestFrame
  <1>7. CASE WriteStopped(a)
    <2>1. \A j \in Jobs : status'[j] \in {status[j], "STOPPING", "STOPPED"}
      BY <1>7 DEF WriteStopped, ToStoppedByStop, ChangeStatus, Types, RowTypes
    <2>2. OthersKept(a)
      BY <1>7, NotStoppedLocals, LostRaceLocals, AnswerLocals DEF WriteStopped, Types, ActorSets
    <2> QED
      BY <1>7, <2>1, <2>2 DEF WriteStopped, OthersKept, envVars, RequestFrame
  <1> QED
    BY <1>1, <1>2, <1>3, <1>4, <1>5, <1>6, <1>7 DEF RequestStep, Stop

\* The footprint of everything else: the fleet and the program of a job.
WorldFrame ==
    /\ UNCHANGED <<status, fleetId, envKept, errors, cancelSent, lost, task, batch, crashes, pc, on, mem, result>>
    /\ \A j \in Jobs :
          /\ gone[j] => gone'[j]
          /\ program'[j] => program[j]
          /\ fleet[j] = "none" <=> fleet'[j] = "none"
          /\ fleet[j] \in Ended => fleet'[j] \in Ended

\* Code Engine, the clock and the operators touch no row and no actor.
LEMMA WorldFrames ==
    ASSUME Types, (\E j \in Jobs : Environment(j) \/ DeleteProgram(j) \/ SetBlocked(j)) \/ UNCHANGED vars
    PROVE  WorldFrame
  <1>1. ASSUME NEW j \in Jobs, FleetMoves(j)
        PROVE  WorldFrame
    <2>1. \A k \in Jobs : (fleet[k] = "none" <=> fleet'[k] = "none") /\ (fleet[k] \in Ended => fleet'[k] \in Ended)
      BY <1>1 DEF FleetMoves, Ended, Types, FleetTypes
    <2> QED
      BY <1>1, <2>1 DEF FleetMoves, dbVars, schedVars, actorVars, WorldFrame
  <1>2. ASSUME NEW j \in Jobs, FleetVanishes(j)
        PROVE  WorldFrame
    <2>1. \A k \in Jobs : gone[k] => gone'[k]
      BY <1>2 DEF FleetVanishes, Types, FleetTypes
    <2>2. UNCHANGED <<program, fleet>>
      BY <1>2 DEF FleetVanishes
    <2>3. UNCHANGED <<status, fleetId, envKept, errors, cancelSent, lost, task, batch, crashes, pc, on, mem, result>>
      BY <1>2 DEF FleetVanishes, dbVars, schedVars, actorVars
    <2> QED
      BY <2>1, <2>2, <2>3 DEF WorldFrame
  <1>3. ASSUME NEW j \in Jobs, TimePasses(j)
        PROVE  WorldFrame
    BY <1>3 DEF TimePasses, dbVars, schedVars, actorVars, WorldFrame
  <1>4. ASSUME NEW j \in Jobs, DeleteProgram(j)
        PROVE  WorldFrame
    BY <1>4 DEF DeleteProgram, dbVars, envVars, schedVars, actorVars, WorldFrame
  <1>5. ASSUME NEW j \in Jobs, SetBlocked(j)
        PROVE  WorldFrame
    BY <1>5 DEF SetBlocked, dbVars, envVars, schedVars, actorVars, WorldFrame
  <1>6. CASE UNCHANGED vars
    BY <1>6 DEF vars, dbVars, envVars, schedVars, actorVars, WorldFrame
  <1> QED
    BY <1>1, <1>2, <1>3, <1>4, <1>5, <1>6 DEF Environment

\* Every step is one of the scheduler, of a request, or of the world.
LEMMA StepKinds ==
    ASSUME Types, [Next]_vars
    PROVE  \/ SchedulerStep \/ Crash
           \/ \E a \in Requests : RequestStep(a) \/ RequestDies(a)
           \/ WorldFrame
  BY WorldFrames, ActorsAssumption DEF Next

\* Crashes are only counted up.
LEMMA CrashesGrow ==
    ASSUME Types, [Next]_vars
    PROVE  crashes' \in Nat /\ crashes' >= crashes
  <1>1. crashes \in Nat
    BY DEF Types, LoopTypes
  <1>2. crashes' \in {crashes, crashes + 1}
    <2>1. FetchBatch \/ TakeJob \/ EndTask \/ Crash \/ Submit => crashes' \in {crashes, crashes + 1}
      BY DEF FetchBatch, TakeJob, EndTask, Crash, Submit, NoFreeFleet, SubmitRetryable, SubmitAnswerLost, KeepQueued,
         SubmitCreated, SubmitRefused, FailSubmit, RecordFleet, QueuedToPending, CancelOrphanFleet, schedVars
    <2>2. Poll \/ StopBlocked \/ BlockedToStopped => crashes' = crashes
      BY DEF Poll, ReadStatus, EndJob, PendingToRunning, StopJobIfTimeout, StopBlocked, BlockedToStopped, schedVars
    <2>3. Stop(Scheduler) => crashes' = crashes
      BY DEF Stop, CancelAccepted, NothingToCancel, CancelFailed, WriteStopping, WriteStopped, schedVars
    <2> QED
      BY <2>1, <2>2, <2>3, StepKinds, RequestFrames DEF SchedulerStep, RequestFrame, WorldFrame
  <1> QED
    BY <1>1, <1>2

-----------------------------------------------------------------------------
(* Who writes what. *)

\* The writes of a status: by whom, at which step, from and to which status.
\* No other column and nothing of Code Engine changes with them, but for the
\* env_vars that to_terminal clears.
StatusWrite(a, j) ==
    /\ on[a] = j
    /\ MayChange(j, status'[j])
    /\ UNCHANGED <<fleetId, errors, fleet, gone, cancelSent, lost, program, crashes>>
    /\ \/ a = Scheduler /\ pc[a] = "fail" /\ status'[j] = "FAILED"
       \/ a = Scheduler /\ pc[a] = "pending" /\ status[j] = "QUEUED" /\ status'[j] = "PENDING"
       \/ a = Scheduler /\ pc[a] = "torunning" /\ status[j] = "PENDING" /\ status'[j] = "RUNNING"
       \/ a = Scheduler /\ pc[a] = "end" /\ status'[j] \in TERMINAL_STATUSES
       \/ a = Scheduler /\ pc[a] = "tostopped" /\ ~Terminal(j) /\ status'[j] = "STOPPED"
       \/ pc[a] = "stopping" /\ status'[j] = "STOPPING"
       \/ pc[a] = "stopped" /\ fleetId[j] = mem[a].fleet /\ status'[j] = "STOPPED"

\* stop() writes a status only at these two steps.
LEMMA StopWrites ==
    ASSUME Types, NEW a \in Actors, Stop(a), NEW j \in Jobs, status'[j] # status[j]
    PROVE  StatusWrite(a, j)
  <1> on[a] \in Jobs /\ status \in [Jobs -> Statuses]
    BY DEF Types, Stop, CancelAccepted, NothingToCancel, CancelFailed, WriteStopping, WriteStopped, Resting, Handling,
       RowTypes, FleetTypes, LoopTypes
  <1>1. CASE CancelAccepted(a) \/ NothingToCancel(a) \/ CancelFailed(a)
    BY <1>1 DEF CancelAccepted, NothingToCancel, CancelFailed, dbVars
  <1>2. CASE WriteStopping(a)
    <2>1. ToIntermediate(on[a], "STOPPING") /\ pc[a] = "stopping"
      BY <1>2 DEF WriteStopping
    <2>2. on[a] = j /\ status'[j] = "STOPPING"
      BY <2>1 DEF ToIntermediate, ChangeStatus
    <2> QED
      BY <1>2, <2>2 DEF WriteStopping, StatusWrite, envVars
  <1>3. CASE WriteStopped(a)
    <2>1. ToStoppedByStop(on[a]) /\ pc[a] = "stopped" /\ fleetId[on[a]] = mem[a].fleet
      BY <1>3 DEF WriteStopped
    <2>2. on[a] = j /\ status'[j] = "STOPPED"
      BY <2>1 DEF ToStoppedByStop, ChangeStatus
    <2> QED
      BY <1>3, <2>2 DEF WriteStopped, StatusWrite, envVars
  <1> QED
    BY <1>1, <1>2, <1>3 DEF Stop

\* The submitter, the poll and the stop of a blocked job write the others.
LEMMA SchedulerWrites ==
    ASSUME Types, EndsForGood, SchedulerStep \/ Crash, NEW j \in Jobs, status'[j] # status[j]
    PROVE  StatusWrite(Scheduler, j)
  <1> status \in [Jobs -> Statuses] /\ Scheduler \in Actors
    BY DEF Types, ActorSets, RowTypes
  <1> cur = on[Scheduler]
    BY DEF cur
  <1> cur = j
    BY SchedulerFrames DEF SchedulerFrame, RowKept
  <1>1. CASE FetchBatch \/ TakeJob \/ EndTask \/ Crash \/ NoFreeFleet \/ SubmitRetryable
    BY <1>1 DEF FetchBatch, TakeJob, EndTask, Crash, NoFreeFleet, SubmitRetryable, dbVars
  <1>2. CASE SubmitAnswerLost \/ SubmitCreated \/ SubmitRefused \/ RecordFleet \/ CancelOrphanFleet
    BY <1>2 DEF SubmitAnswerLost, SubmitCreated, SubmitRefused, RecordFleet, CancelOrphanFleet, dbVars
  <1>3. CASE ReadStatus \/ StopJobIfTimeout \/ StopBlocked
    BY <1>3 DEF ReadStatus, StopJobIfTimeout, StopBlocked, dbVars
  <1>4. CASE FailSubmit
    <2>1. status'[j] = "FAILED"
      BY <1>4 DEF FailSubmit, ToTerminal, ChangeStatus
    <2> QED
      BY <1>4, <2>1 DEF FailSubmit, StatusWrite, envVars
  <1>5. CASE QueuedToPending
    <2>1. status'[j] = "PENDING" /\ status[j] = "QUEUED"
      BY <1>5, Moves DEF QueuedToPending, ToIntermediate, ChangeStatus
    <2> QED
      BY <1>5, <2>1 DEF QueuedToPending, StatusWrite, envVars
  <1>6. CASE PendingToRunning
    <2>1. status'[j] = "RUNNING" /\ status[j] = "PENDING"
      BY <1>6, Moves DEF PendingToRunning, ToIntermediate, ChangeStatus
    <2> QED
      BY <1>6, <2>1 DEF PendingToRunning, StatusWrite, envVars, schedVars
  <1>7. CASE EndJob
    <2>1. status'[j] = reading /\ reading \in TERMINAL_STATUSES
      BY <1>7 DEF EndJob, ToTerminal, ChangeStatus, EndsForGood
    <2> QED
      BY <1>7, <2>1 DEF EndJob, StatusWrite, envVars
  <1>8. CASE BlockedToStopped
    <2>1. status'[j] = "STOPPED" /\ ~Terminal(j)
      BY <1>8, Moves DEF BlockedToStopped, ToTerminal, ChangeStatus
    <2> QED
      BY <1>8, <2>1 DEF BlockedToStopped, StatusWrite, envVars
  <1>9. CASE Stop(Scheduler)
    BY <1>9, StopWrites
  <1> QED
    BY <1>1, <1>2, <1>3, <1>4, <1>5, <1>6, <1>7, <1>8, <1>9 DEF SchedulerStep, Submit, Poll

\* Every change of a status is one of these writes.
LEMMA StatusWrites ==
    ASSUME Types, EndsForGood, [Next]_vars, NEW j \in Jobs, status'[j] # status[j]
    PROVE  \E a \in Actors : StatusWrite(a, j)
  <1>1. CASE SchedulerStep \/ Crash
    BY <1>1, SchedulerWrites DEF Types, ActorSets
  <1>2. ASSUME NEW a \in Requests, RequestStep(a) \/ RequestDies(a)
        PROVE  StatusWrite(a, j)
    <2>1. Stop(a)
      BY <1>2 DEF RequestStep, ReadJob, ReadAgain, RequestDies, dbVars
    <2> QED
      BY <2>1, StopWrites DEF Types, ActorSets
  <1>3. CASE WorldFrame
    BY <1>3 DEF WorldFrame
  <1> QED
    BY <1>1, <1>2, <1>3, StepKinds DEF Types, ActorSets

\* Facts about a row and its fleet that no step takes back.
Grows(j) ==
    /\ fleetId[j] => fleetId'[j]
    /\ cancelSent[j] => cancelSent'[j]
    /\ gone[j] => gone'[j]
    /\ program'[j] => program[j]
    /\ errors[j] \subseteq errors'[j]
    /\ fleet[j] \in Ended => fleet'[j] \in Ended
    /\ Terminal(j) => status'[j] = status[j]
    /\ status[j] = "STOPPING" => status'[j] \in TERMINAL_STATUSES \cup {"STOPPING"}
    /\ status'[j] = "QUEUED" => status[j] = "QUEUED"

\* A transition never leaves a final status, leaves STOPPING only for one, and
\* never returns to QUEUED.
LEMMA StatusGrows ==
    ASSUME Types, EndsForGood, [Next]_vars, NEW j \in Jobs
    PROVE  /\ Terminal(j) => status'[j] = status[j]
           /\ status[j] = "STOPPING" => status'[j] \in TERMINAL_STATUSES \cup {"STOPPING"}
           /\ status'[j] = "QUEUED" => status[j] = "QUEUED"
  <1>1. CASE status'[j] = status[j]
    BY <1>1
  <1>2. CASE status'[j] # status[j]
    <2>1. MayChange(j, status'[j])
      BY <1>2, StatusWrites DEF StatusWrite
    <2>2. status[j] \in Statuses
      BY DEF Types, RowTypes
    <2> QED
      BY <2>1, <2>2 DEF MayChange, Terminal, VALID_TRANSITIONS, Statuses, TERMINAL_STATUSES
  <1> QED
    BY <1>2

\* No step takes back what Grows lists.
LEMMA EveryStepGrows ==
    ASSUME Types, EndsForGood, [Next]_vars, NEW j \in Jobs
    PROVE  Grows(j)
  <1>1. CASE SchedulerStep \/ Crash
    BY <1>1, SchedulerFrames, StatusGrows DEF SchedulerFrame, RowKept, CurGrows, Grows
  <1>2. ASSUME NEW a \in Requests, RequestStep(a) \/ RequestDies(a)
        PROVE  Grows(j)
    BY <1>2, RequestFrames, StatusGrows DEF RequestFrame, Grows
  <1>3. CASE WorldFrame
    BY <1>3 DEF WorldFrame, Grows
  <1> QED
    BY <1>1, <1>2, <1>3, StepKinds

\* A fleet is only created by the submitter, whose job it then is or who has
\* lost it; and a lost fleet is only found by the submitter.
LEMMA FleetWrites ==
    ASSUME Types, EndsForGood, [Next]_vars, NEW j \in Jobs,
           (fleet[j] = "none" /\ fleet'[j] # "none") \/ (lost[j] /\ ~lost'[j])
    PROVE  /\ SubmitAnswerLost \/ SubmitCreated \/ SubmitRefused
           /\ cur = j /\ pc[Scheduler] = "submit" /\ crashes' = crashes
           /\ fleet[j] = "none" /\ fleet'[j] # "none" => inst.program
           /\ Submitting(j)' \/ lost'[j]
  <1>1. SchedulerStep \/ Crash
    BY StepKinds, RequestFrames DEF RequestFrame, WorldFrame
  <1>2. cur = j
    BY <1>1, SchedulerFrames DEF SchedulerFrame, RowKept
  <1>3. fleet' # fleet \/ (lost[j] /\ ~lost'[j])
    OBVIOUS
  <1>4. ~Crash
    BY DEF Crash, Types, FleetTypes
  <1>5. SubmitAnswerLost \/ SubmitCreated \/ SubmitRefused
    <2>1. FetchBatch \/ TakeJob \/ EndTask \/ NoFreeFleet \/ SubmitRetryable \/ FailSubmit => UNCHANGED <<fleet, lost>>
      BY DEF FetchBatch, TakeJob, EndTask, NoFreeFleet, SubmitRetryable, FailSubmit, envVars
    <2>2. RecordFleet \/ QueuedToPending \/ CancelOrphanFleet \/ StopBlocked \/ BlockedToStopped => UNCHANGED <<fleet, lost>>
      BY DEF RecordFleet, QueuedToPending, CancelOrphanFleet, StopBlocked, BlockedToStopped, envVars
    <2>3. Poll => UNCHANGED <<fleet, lost>>
      BY DEF Poll, ReadStatus, EndJob, PendingToRunning, StopJobIfTimeout, envVars
    <2>4. Stop(Scheduler) => UNCHANGED <<fleet, lost>>
      BY DEF Stop, CancelAccepted, NothingToCancel, CancelFailed, WriteStopping, WriteStopped, envVars, Types, ActorSets,
         ActorTypes, Handling, RowTypes, FleetTypes, LoopTypes
    <2> QED
      BY <1>1, <1>4, <2>1, <2>2, <2>3, <2>4 DEF SchedulerStep, Submit
  <1>6. pc[Scheduler] = "submit" /\ crashes' = crashes
    BY <1>5 DEF SubmitAnswerLost, SubmitCreated, SubmitRefused, KeepQueued, schedVars
  <1>7. fleet[j] = "none" /\ fleet'[j] # "none" => inst.program
    BY <1>5 DEF SubmitAnswerLost, SubmitCreated, SubmitRefused
  <1>8. CASE SubmitAnswerLost
    BY <1>2, <1>6, <1>8 DEF SubmitAnswerLost, Types, FleetTypes
  <1>9. CASE SubmitCreated
    <2>1. Submitting(j)'
      BY <1>2, <1>9 DEF SubmitCreated, GoTo, Submitting, cur, Types, ActorSets, ActorTypes
    <2> QED
      BY <1>2, <1>5, <1>6, <1>7, <2>1
  <1>10. CASE SubmitRefused
    <2>1. lost'[j]
      BY <1>2, <1>10 DEF SubmitRefused, Types, FleetTypes
    <2> QED
      BY <1>2, <1>5, <1>6, <1>7, <2>1
  <1> QED
    BY <1>5, <1>8, <1>9, <1>10

\* A fleet_id is only written by RecordFleet, which the submitter follows up.
LEMMA FleetIdWrites ==
    ASSUME Types, [Next]_vars, NEW j \in Jobs, ~fleetId[j], fleetId'[j]
    PROVE  RecordFleet /\ cur = j /\ Submitting(j)'
  <1>1. SchedulerStep \/ Crash
    BY StepKinds, RequestFrames DEF RequestFrame, WorldFrame
  <1>2. cur = j
    BY <1>1, SchedulerFrames DEF SchedulerFrame, RowKept
  <1>3. fleetId' # fleetId
    OBVIOUS
  <1>4. RecordFleet
    <2>1. FetchBatch \/ TakeJob \/ EndTask \/ Crash \/ NoFreeFleet \/ SubmitRetryable \/ SubmitAnswerLost => UNCHANGED fleetId
      BY DEF FetchBatch, TakeJob, EndTask, Crash, NoFreeFleet, SubmitRetryable, SubmitAnswerLost, dbVars
    <2>2. SubmitCreated \/ SubmitRefused \/ FailSubmit \/ QueuedToPending \/ CancelOrphanFleet => UNCHANGED fleetId
      BY DEF SubmitCreated, SubmitRefused, FailSubmit, QueuedToPending, CancelOrphanFleet, dbVars
    <2>3. Poll \/ StopBlocked \/ BlockedToStopped => UNCHANGED fleetId
      BY DEF Poll, ReadStatus, EndJob, PendingToRunning, StopJobIfTimeout, StopBlocked, BlockedToStopped, dbVars, Types,
         ActorSets, Handling, RowTypes, FleetTypes, LoopTypes
    <2>4. Stop(Scheduler) => UNCHANGED fleetId
      BY DEF Stop, CancelAccepted, NothingToCancel, CancelFailed, WriteStopping, WriteStopped, dbVars, Types, ActorTypes,
         Handling, FleetTypes, LoopTypes
    <2> QED
      BY <1>1, <2>1, <2>2, <2>3, <2>4 DEF SchedulerStep, Submit
  <1>5. Submitting(j)'
    BY <1>4 DEF RecordFleet, GoTo, Submitting, cur
  <1> QED
    BY <1>2, <1>4, <1>5

\* The submitter leaves a fleet it created in three ways: it crashes, the row
\* becomes PENDING, or it has tried to cancel the fleet.
LEMMA SubmitterLeaves ==
    ASSUME Types, [Next]_vars, NEW j \in Jobs, Submitting(j), ~Submitting(j)'
    PROVE  \/ crashes' > 0 /\ (pc[Scheduler] = "record" => lost'[j])
           \/ pc[Scheduler] = "pending" /\ status[j] = "QUEUED" /\ status'[j] = "PENDING"
           \/ pc[Scheduler] = "orphan" /\ (cancelSent'[j] \/ gone[j] \/ "FLEET_LEFT_RUNNING" \in errors'[j])
  <1>1. cur = j /\ pc[Scheduler] \in {"record", "pending", "orphan"}
    BY DEF Submitting, cur
  <1>2. SchedulerStep \/ Crash
    BY StepKinds, RequestFrames DEF RequestFrame, WorldFrame, ActorKept, Submitting, Types, ActorSets
  <1>3. CASE Crash
    <2>1. crashes' > 0
      <3>1. crashes \in Nat
        BY DEF Types, LoopTypes
      <3>2. crashes' = crashes + 1
        BY <1>3 DEF Crash
      <3> QED
        BY <3>1, <3>2
    <2>2. pc[Scheduler] = "record" => lost'[j]
      BY ZenonT(60), <1>1, <1>3 DEF Crash, cur
    <2> QED
      BY <2>1, <2>2
  <1>4. CASE SchedulerStep
    <2>1. RecordFleet \/ QueuedToPending \/ CancelOrphanFleet
      <3>1. ~(FetchBatch \/ TakeJob \/ EndTask \/ NoFreeFleet \/ SubmitRetryable \/ SubmitAnswerLost \/ SubmitCreated)
        BY <1>1 DEF FetchBatch, TakeJob, EndTask, NoFreeFleet, SubmitRetryable, SubmitAnswerLost, SubmitCreated
      <3>2. ~(SubmitRefused \/ FailSubmit \/ Poll \/ StopBlocked \/ BlockedToStopped)
        BY <1>1 DEF SubmitRefused, FailSubmit, Poll, ReadStatus, EndJob, PendingToRunning, StopJobIfTimeout, StopBlocked,
           BlockedToStopped
      <3>3. ~Stop(Scheduler)
        BY <1>1 DEF Stop, CancelAccepted, NothingToCancel, CancelFailed, WriteStopping, WriteStopped
      <3> QED
        BY <1>4, <3>1, <3>2, <3>3 DEF SchedulerStep, Submit
    <2>2. CASE RecordFleet
      BY <2>2 DEF RecordFleet, GoTo, Submitting
    <2>3. CASE QueuedToPending
      <3>1. MayChange(cur, "PENDING") /\ ToIntermediate(cur, "PENDING")
        BY <2>3 DEF QueuedToPending, GoTo, Submitting, Types, ActorTypes
      <3> QED
        BY <1>1, <2>3, <3>1, Moves DEF QueuedToPending, ToIntermediate, ChangeStatus, Types, RowTypes
    <2>4. CASE CancelOrphanFleet
      BY <1>1, <2>4 DEF CancelOrphanFleet, Types, RowTypes, FleetTypes
    <2> QED
      BY <2>1, <2>2, <2>3, <2>4
  <1> QED
    BY <1>2, <1>3, <1>4

-----------------------------------------------------------------------------
(* The moves of the scheduler. *)

\* The scheduler is done with its job, and keeps at most what is left of the
\* batch of the same task.
Rests ==
    /\ pc'[Scheduler] \in {"fetch", "next"} /\ on'[Scheduler] = NoJob
    /\ DOMAIN batch' \subseteq DOMAIN batch
    /\ \A j \in DOMAIN batch' : batch'[j] = batch[j] /\ task' = task

\* The scheduler goes on with its job.
Goes(s) ==
    /\ pc'[Scheduler] = s
    /\ on'[Scheduler] = on[Scheduler] /\ mem'[Scheduler] = mem[Scheduler]
    /\ batch' = batch /\ task' = task

\* The moves of the scheduler, with what it has found out when it makes them.
Turn ==
    \/ Rests
    \/ FetchBatch
    \/ TakeJob
    \/ RecordFleet
    \/ pc[Scheduler] = "submit" /\ status' = status /\ (Goes("record") \/ Goes("fail"))
    \/ pc[Scheduler] = "pending" /\ status' = status /\ status[cur] # "QUEUED" /\ Goes("orphan")
    \/ Goes("end") /\ cur \in Jobs /\ fleet' = fleet /\ (inst.status = "STOPPING" \/ fleet[cur] \in Ended)
    \/ Goes("torunning") \/ Goes("timeout") \/ Goes("cancel")
    \/ Goes("tostopped") /\ cur \in Jobs /\ ((pc[Scheduler] = "block" /\ ~(inst.fleet /\ inst.program)) \/ status'[cur] = "STOPPED")
    \/ Goes("stopping") /\ cur \in Jobs /\ inst.fleet /\ cancelSent'[cur]
    \/ Goes("stopped") /\ cur \in Jobs /\ (~inst.fleet \/ ~inst.program \/ gone[cur])

\* A job that is over leaves the batch as it is.
LEMMA NextJobRests ==
    ASSUME Types, NextJob, batch' = batch, task' = task
    PROVE  Rests
  BY DEF Types, NextJob, GoTo, Rests, ActorSets, ActorTypes

\* A task that is over leaves no batch.
LEMMA LeaveTaskRests ==
    ASSUME Types, NEW t, LeaveTask(t)
    PROVE  Rests
  BY DEF Types, LeaveTask, GoTo, NoBatch, Rests, ActorSets, ActorTypes

\* A handler that goes on changes nothing but its step.
LEMMA GoToGoes ==
    ASSUME Types, NEW s, GoTo(Scheduler, s), on' = on, mem' = mem, batch' = batch, task' = task
    PROVE  Goes(s)
  BY DEF Types, GoTo, Goes, ActorSets, ActorTypes

\* What a final reading says of the fleet.
LEMMA FinalReading ==
    ASSUME Types, cur \in Jobs, NEW r \in StatusReads(cur, inst), r \in TERMINAL_STATUSES
    PROVE  fleet[cur] \in Ended
  <1>1. fleet[cur] \in FleetStates
    BY DEF Types, FleetTypes
  <1>2. r = JobStatusOf(fleet[cur])
    BY DEF StatusReads, TERMINAL_STATUSES
  <1> QED
    BY <1>2 DEF JobStatusOf, Ended, TERMINAL_STATUSES

\* Every step of the scheduler is one of these moves.
LEMMA Turns ==
    ASSUME Types, SchedulerStep \/ Crash
    PROVE  Turn
  <1>1. CASE FetchBatch \/ TakeJob \/ RecordFleet
    BY <1>1 DEF Turn
  <1>2. CASE EndTask \/ Crash
    BY <1>2, LeaveTaskRests DEF EndTask, Crash, Turn
  <1>3. CASE NoFreeFleet \/ CancelOrphanFleet \/ EndJob
    BY <1>3, NextJobRests DEF NoFreeFleet, CancelOrphanFleet, EndJob, Turn
  <1>4. CASE SubmitRetryable \/ SubmitAnswerLost
    <2>1. Rests
      BY <1>4 DEF Types, SubmitRetryable, SubmitAnswerLost, KeepQueued, NextJob, GoTo, Rests, ActorSets, ActorTypes
    <2> QED
      BY <2>1 DEF Turn
  <1>5. CASE SubmitCreated
    <2>1. Goes("record")
      BY <1>5, GoToGoes DEF SubmitCreated, schedVars
    <2> QED
      BY <1>5, <2>1 DEF SubmitCreated, dbVars, Turn
  <1>6. CASE SubmitRefused
    <2>1. Goes("fail")
      BY <1>6, GoToGoes DEF SubmitRefused, schedVars
    <2> QED
      BY <1>6, <2>1 DEF SubmitRefused, Turn
  <1>7. CASE FailSubmit \/ BlockedToStopped
    <2>1. Rests
      BY <1>7, NextJobRests, LeaveTaskRests DEF FailSubmit, BlockedToStopped
    <2> QED
      BY <2>1 DEF Turn
  <1>8. CASE QueuedToPending
    <2>1. cur \in Jobs
      BY <1>8 DEF Types, QueuedToPending, Resting, cur, ActorSets, Handling
    <2>2. CASE NextJob
      BY <1>8, <2>2, NextJobRests DEF QueuedToPending, Turn
    <2>3. CASE ~MayChange(cur, "PENDING") /\ GoTo(Scheduler, "orphan") /\ UNCHANGED <<status, events, outbox, mirror, reading, on, mem>>
      <3>1. Goes("orphan") /\ status[cur] # "QUEUED"
        BY <1>8, <2>1, <2>3, GoToGoes, Moves DEF QueuedToPending
      <3> QED
        BY <1>8, <2>3, <3>1 DEF QueuedToPending, Turn
    <2> QED
      BY <1>8, <2>2, <2>3 DEF QueuedToPending
  <1>9. CASE ReadStatus
    <2>1. cur \in Jobs /\ fleet' = fleet /\ batch' = batch /\ task' = task
      BY <1>9 DEF Types, ReadStatus, Resting, cur, envVars, ActorSets, Handling
    <2>2. CASE NextJob
      BY <2>1, <2>2, NextJobRests DEF Turn
    <2>3. CASE inst.status = "STOPPING" /\ GoTo(Scheduler, "end") /\ UNCHANGED <<on, mem>>
      BY <2>1, <2>3, GoToGoes DEF Turn
    <2>4. CASE \E r \in StatusReads(cur, inst) : r \in TERMINAL_STATUSES /\ GoTo(Scheduler, "end") /\ UNCHANGED <<on, mem>>
      BY <2>1, <2>4, GoToGoes, FinalReading DEF Turn
    <2>5. CASE (GoTo(Scheduler, "torunning") \/ GoTo(Scheduler, "timeout")) /\ UNCHANGED <<on, mem>>
      BY <2>1, <2>5, GoToGoes DEF Turn
    <2> QED
      BY <1>9, <2>2, <2>3, <2>4, <2>5 DEF ReadStatus
  <1>10. CASE PendingToRunning
    BY <1>10, GoToGoes DEF PendingToRunning, schedVars, Turn
  <1>11. CASE StopJobIfTimeout
    BY <1>11, NextJobRests, GoToGoes DEF StopJobIfTimeout, Turn
  <1>12. CASE StopBlocked
    <2>1. cur \in Jobs
      BY <1>12 DEF Types, StopBlocked, Resting, cur, ActorSets, Handling
    <2> QED
      BY <1>12, <2>1, NextJobRests, GoToGoes DEF StopBlocked, Turn
  <1>13. CASE Stop(Scheduler)
    <2> cur \in Jobs /\ cur = on[Scheduler] /\ inst = mem[Scheduler]
      BY <1>13 DEF Types, Stop, CancelAccepted, NothingToCancel, CancelFailed, WriteStopping, WriteStopped, Resting, cur,
         inst, ActorSets, ActorTypes, Handling
    <2>1. CASE CancelAccepted(Scheduler)
      <3>1. Goes("stopping")
        BY <2>1, GoToGoes DEF CancelAccepted, schedVars
      <3>2. inst.fleet /\ cancelSent'[cur]
        BY <2>1 DEF Types, CancelAccepted, FleetTypes
      <3> QED
        BY <3>1, <3>2 DEF Turn
    <2>2. CASE NothingToCancel(Scheduler)
      <3>1. Goes("stopped")
        BY <2>2, GoToGoes DEF NothingToCancel, schedVars
      <3> QED
        BY <2>2, <3>1 DEF NothingToCancel, Turn
    <2>3. CASE CancelFailed(Scheduler) \/ WriteStopping(Scheduler)
      BY <2>3, NextJobRests DEF Types, CancelFailed, WriteStopping, NotStopped, LostRace, Turn, ActorSets
    <2>4. CASE WriteStopped(Scheduler)
      <3>1. CASE NextJob
        BY <2>4, <3>1, NextJobRests DEF WriteStopped, Turn
      <3>2. CASE ToStoppedByStop(cur) /\ GoTo(Scheduler, "tostopped") /\ UNCHANGED <<reading, on, mem, tries, result>>
        <4>1. Goes("tostopped")
          BY <2>4, <3>2, GoToGoes DEF WriteStopped
        <4>2. status'[cur] = "STOPPED"
          BY <3>2 DEF Types, ToStoppedByStop, ChangeStatus, RowTypes
        <4> QED
          BY <4>1, <4>2 DEF Turn
      <3> QED
        BY <2>4, <3>1, <3>2 DEF Types, WriteStopped, NotStopped, LostRace, ActorSets
    <2> QED
      BY <1>13, <2>1, <2>2, <2>3, <2>4 DEF Stop
  <1> QED
    BY <1>1, <1>2, <1>3, <1>4, <1>5, <1>6, <1>7, <1>8, <1>9, <1>10, <1>11, <1>12, <1>13 DEF SchedulerStep, Submit, Poll

-----------------------------------------------------------------------------
(* The invariant. *)

\* The steps of FleetsJobSubmitter.submit.
SubmitSteps == {"submit", "fail", "record", "pending", "orphan"}

\* A stop has reached the job: it has ended, or its cancel was accepted.
Settled(j) == Terminal(j) \/ (status[j] = "STOPPING" /\ cancelSent[j])

\* However stale, an instance m of the row j is never wrong about these.
Holds(m, j) ==
    /\ m.fleet => fleetId[j]
    /\ ~m.program => ~program[j]
    /\ m.status = "STOPPING" => cancelSent[j]
    /\ m.status \in Started => m.fleet

\* What an actor in JobTransitionService.stop knows of its job.
StopperSafe(a) ==
    /\ on[a] \in Jobs => Holds(mem[a], on[a])
    /\ pc[a] = "stopping" => cancelSent[on[a]] /\ mem[a].fleet
    /\ pc[a] = "stopped" => ~mem[a].fleet \/ ~mem[a].program \/ gone[on[a]]

\* A request answers once, and what it answers stays true.
RequestSafe(a) ==
    /\ pc[a] = "lost" => Settled(on[a])
    /\ result[a] # "none" => pc[a] = "done" /\ on[a] \in Jobs
    /\ result[a] = "stopped" => status[on[a]] = "STOPPED"
    /\ result[a] = "terminal" => Terminal(on[a])
    /\ result[a] \in {"stopping", "already", "left"} => Settled(on[a])

\* The loop of the scheduler: its batch, and where it is with its job.
LoopSafe ==
    /\ pc[Scheduler] \in {"fetch", "next"} => cur = NoJob
    /\ cur \notin DOMAIN batch
    /\ \A j \in DOMAIN batch :
          /\ Holds(batch[j], j)
          /\ task = "ScheduleFleetsJobs" => status[j] \notin Started
          /\ task = "StopBlockedFleetsJobs" => batch[j].status \in Started
    /\ pc[Scheduler] \in SubmitSteps => task = "ScheduleFleetsJobs" /\ status[cur] \notin Started
    /\ pc[Scheduler] \in {"pending", "orphan"} => fleetId[cur]
    /\ pc[Scheduler] = "orphan" => status[cur] # "QUEUED"
    /\ pc[Scheduler] = "end" => fleet[cur] \in Ended \/ cancelSent[cur]
    /\ pc[Scheduler] = "block" => inst.status \in Started
    /\ pc[Scheduler] = "tostopped" => ~inst.program \/ Terminal(cur)

\* The rows and their fleets.
RowSafe(j) ==
    /\ status[j] = "STOPPING" => cancelSent[j]
    /\ status[j] \in Started => fleetId[j]
    /\ fleet[j] # "none" /\ ~fleetId[j] => Submitting(j) \/ lost[j]
    /\ crashes = 0 /\ status[j] = "QUEUED" /\ fleetId[j] => Submitting(j)

\* A fleet left behind has been accounted for.
OrphanSafe(j) ==
    Unattended(j) => \/ Submitting(j)
                     \/ "FLEET_LEFT_RUNNING" \in errors[j]
                     \/ lost[j] \/ crashes > 0 \/ ~program[j]

\* While the scheduler does not crash, a row that may still be submitted holds
\* its env_vars, unless it lost the program it would need.
EnvSafe ==
    crashes = 0 =>
        /\ \A j \in Jobs : status[j] = "QUEUED" /\ ~envKept[j] =>
              (cur = j /\ pc[Scheduler] \in {"fail", "pending"}) \/ ~program[j]
        /\ task = "ScheduleFleetsJobs" => \A j \in DOMAIN batch : batch[j].program => envKept[j]
        /\ pc[Scheduler] = "submit" /\ inst.program => envKept[cur]

Safe ==
    /\ \A a \in Actors : StopperSafe(a)
    /\ \A a \in Requests : RequestSafe(a)
    /\ LoopSafe
    /\ \A j \in Jobs : RowSafe(j)
    /\ \A j \in Jobs : OrphanSafe(j)
    /\ EnvSafe

-----------------------------------------------------------------------------
(* The rows and their fleets. *)

\* A row keeps its promises: STOPPING follows a cancel, a started job has its
\* fleet recorded, and a fleet that is not recorded is in hand or lost.
LEMMA RowStep ==
    ASSUME Types, EndsForGood, Safe, [Next]_vars, NEW j \in Jobs
    PROVE  RowSafe(j)'
  <1> Grows(j) /\ RowSafe(j) /\ LoopSafe /\ \A a \in Actors : StopperSafe(a)
    BY EveryStepGrows DEF Safe
  <1>1. status'[j] # status[j] => \E a \in Actors : StatusWrite(a, j)
    BY StatusWrites
  <1>2. status'[j] = "STOPPING" => cancelSent'[j]
    BY <1>1 DEF StatusWrite, StopperSafe, RowSafe, Grows, TERMINAL_STATUSES
  <1>3. status'[j] \in Started => fleetId'[j]
    BY <1>1 DEF StatusWrite, LoopSafe, RowSafe, Grows, Started, TERMINAL_STATUSES, cur
  <1>4. ASSUME fleet'[j] # "none", ~fleetId'[j]
        PROVE  Submitting(j)' \/ lost'[j]
    <2>1. ~fleetId[j]
      BY <1>4 DEF Grows
    <2>2. CASE fleet[j] = "none" \/ lost[j]
      BY <1>4, <2>2, FleetWrites
    <2>3. CASE Submitting(j)
      <3>1. pc[Scheduler] = "record"
        BY <2>1, <2>3 DEF Submitting, LoopSafe, cur
      <3> QED
        BY <2>3, <3>1, SubmitterLeaves
    <2> QED
      BY <2>1, <2>2, <2>3 DEF RowSafe
  <1>5. ASSUME crashes' = 0, status'[j] = "QUEUED", fleetId'[j]
        PROVE  Submitting(j)'
    <2>1. status[j] = "QUEUED"
      BY <1>5 DEF Grows
    <2>2. CASE fleetId[j]
      <3>1. crashes = 0
        BY <1>5, CrashesGrow DEF Types, LoopTypes
      <3>2. Submitting(j)
        BY <2>1, <2>2, <3>1 DEF RowSafe
      <3>3. pc[Scheduler] # "orphan"
        BY <2>1, <3>2 DEF Submitting, LoopSafe, cur
      <3> QED
        BY <1>5, <3>2, <3>3, SubmitterLeaves
    <2>3. CASE ~fleetId[j]
      BY <1>5, <2>3, FleetIdWrites
    <2> QED
      BY <2>2, <2>3
  <1> QED
    BY <1>2, <1>3, <1>4, <1>5 DEF RowSafe

\* No step leaves a fleet running behind an ended job without a trace.
LEMMA OrphanStep ==
    ASSUME Types, EndsForGood, Safe, [Next]_vars, NEW j \in Jobs
    PROVE  OrphanSafe(j)'
  <1> Grows(j) /\ RowSafe(j) /\ OrphanSafe(j) /\ LoopSafe /\ \A a \in Actors : StopperSafe(a)
    BY EveryStepGrows DEF Safe
  <1> crashes > 0 => crashes' > 0
    BY CrashesGrow DEF Types, LoopTypes
  <1> SUFFICES ASSUME Unattended(j)'
               PROVE  \/ Submitting(j)'
                      \/ "FLEET_LEFT_RUNNING" \in errors'[j]
                      \/ lost'[j] \/ crashes' > 0 \/ ~program'[j]
    BY DEF OrphanSafe
  <1>1. Terminal(j)' /\ fleet'[j] \in {"pending", "running"} /\ ~gone[j] /\ ~cancelSent[j] /\ ~cancelSent'[j]
    BY DEF Unattended, Grows
  <1>2. CASE fleet[j] = "none"
    BY <1>1, <1>2, FleetWrites
  <1>3. CASE fleet[j] # "none" /\ status'[j] # status[j]
    <2>1. PICK a \in Actors : StatusWrite(a, j)
      BY <1>3, StatusWrites
    <2>2. UNCHANGED <<fleetId, fleet, gone, cancelSent, lost, program, crashes>> /\ on[a] = j /\ ~Terminal(j)
      BY <1>3, <2>1 DEF StatusWrite, Grows
    <2>3. status[j] # "STOPPING"
      BY <1>1 DEF RowSafe
    <2>4. CASE a = Scheduler /\ pc[a] = "fail"
      <3>1. ~Submitting(j)
        BY <2>4 DEF Submitting
      <3>2. status[j] = "QUEUED"
        BY <2>2, <2>3, <2>4, Moves DEF LoopSafe, SubmitSteps, Started, cur
      <3>3. lost[j] \/ crashes # 0
        BY ZenonT(60), <1>3, <3>1, <3>2 DEF RowSafe
      <3>4. crashes # 0 => crashes > 0
        BY DEF Types, LoopTypes
      <3> QED
        BY ZenonT(60), <2>2, <3>3, <3>4
    <2>5. CASE a = Scheduler /\ pc[a] = "end"
      BY <1>1, <2>2, <2>5 DEF LoopSafe, Ended, cur
    <2>6. CASE a = Scheduler /\ pc[a] = "tostopped"
      <3>1. ~inst.program
        BY <2>2, <2>6 DEF LoopSafe, cur
      <3>2. ~program[j]
        BY <2>2, <2>6, <3>1 DEF StopperSafe, Holds, inst
      <3> QED
        BY <2>2, <3>2
    <2>7. CASE pc[a] = "stopped" /\ fleetId[j] = mem[a].fleet
      <3>1. CASE ~mem[a].program
        BY <2>2, <3>1 DEF StopperSafe, Holds
      <3>2. CASE ~fleetId[j]
        <4>1. lost[j] \/ Submitting(j)
          BY <1>3, <3>2 DEF RowSafe
        <4>2. Submitting(j) => Submitting(j)' \/ lost'[j] \/ crashes' > 0
          BY <3>2, SubmitterLeaves DEF LoopSafe, Submitting, cur
        <4> QED
          BY <2>2, <4>1, <4>2
      <3> QED
        BY <1>1, <2>2, <2>7, <3>1, <3>2 DEF StopperSafe
    <2> QED
      BY <1>1, <2>1, <2>4, <2>5, <2>6, <2>7 DEF StatusWrite, Terminal, TERMINAL_STATUSES
  <1>4. CASE fleet[j] # "none" /\ status'[j] = status[j]
    <2>1. Unattended(j)
      <3>1. fleet[j] \in {"pending", "running"}
        BY <1>1, <1>4 DEF Grows, Ended, FleetStates, Types, FleetTypes
      <3> QED
        BY <1>1, <1>4, <3>1 DEF Unattended, Terminal
    <2>2. CASE Submitting(j)
      BY <1>1, <1>4, <2>2, SubmitterLeaves
    <2>3. CASE lost[j]
      BY <2>3, FleetWrites
    <2>4. CASE ~program[j] \/ "FLEET_LEFT_RUNNING" \in errors[j]
      BY <2>4 DEF Grows
    <2> QED
      BY <2>1, <2>2, <2>3, <2>4 DEF OrphanSafe
  <1> QED
    BY <1>2, <1>3, <1>4

-----------------------------------------------------------------------------
(* The loop of the scheduler. *)

\* An instance is right about its row when it is loaded.
LEMMA LoadHolds ==
    ASSUME Types, NEW j \in Jobs, RowSafe(j)
    PROVE  Holds(Load(j), j)
  BY DEF Holds, Load, RowSafe

\* What the loop knows of the jobs it has not reached.
BatchSafe ==
    \A j \in DOMAIN batch :
        /\ Holds(batch[j], j)
        /\ task = "ScheduleFleetsJobs" => status[j] \notin Started
        /\ task = "StopBlockedFleetsJobs" => batch[j].status \in Started

\* What it knows of the job it is working on.
JobSafe ==
    /\ pc[Scheduler] \in SubmitSteps => task = "ScheduleFleetsJobs" /\ status[cur] \notin Started
    /\ pc[Scheduler] \in {"pending", "orphan"} => fleetId[cur]
    /\ pc[Scheduler] = "orphan" => status[cur] # "QUEUED"
    /\ pc[Scheduler] = "end" => fleet[cur] \in Ended \/ cancelSent[cur]
    /\ pc[Scheduler] = "block" => inst.status \in Started
    /\ pc[Scheduler] = "tostopped" => ~inst.program \/ Terminal(cur)

\* A step of the scheduler keeps what it knows of its batch, in which its own
\* job never is.
LEMMA BatchStep ==
    ASSUME Types, EndsForGood, Safe, [Next]_vars, SchedulerStep \/ Crash
    PROVE  BatchSafe' /\ cur' \notin DOMAIN batch'
  <1> BatchSafe /\ cur \notin DOMAIN batch /\ (pc[Scheduler] \in {"fetch", "next"} => cur = NoJob)
    BY DEF Safe, LoopSafe, BatchSafe
  <1>1. \A j \in DOMAIN batch : j \in Jobs /\ status'[j] = status[j] /\ Grows(j)
    BY SchedulerFrames, EveryStepGrows DEF SchedulerFrame, RowKept, Types, LoopTypes
  <1>2. ASSUME DOMAIN batch' \subseteq DOMAIN batch, \A j \in DOMAIN batch' : batch'[j] = batch[j] /\ task' = task
        PROVE  BatchSafe'
    <2> SUFFICES ASSUME NEW j \in DOMAIN batch'
                 PROVE  /\ Holds(batch[j], j)'
                        /\ task' = "ScheduleFleetsJobs" => status'[j] \notin Started
                        /\ task' = "StopBlockedFleetsJobs" => batch'[j].status \in Started
      BY DEF BatchSafe
    <2>1. j \in DOMAIN batch /\ batch'[j] = batch[j] /\ task' = task
      BY <1>2
    <2>2. Holds(batch[j], j)'
      BY <1>1, <2>1 DEF BatchSafe, Holds, Grows
    <2> QED
      BY <1>1, <2>1, <2>2 DEF BatchSafe
  <1>3. CASE Rests
    <2>1. BatchSafe'
      BY <1>2, <1>3 DEF Rests
    <2> QED
      BY <1>3, <2>1 DEF Rests, cur, Types, ActorSets, LoopTypes
  <1>4. CASE FetchBatch
    <2>1. PICK S \in SUBSET Jobs :
              /\ batch' = [j \in S |-> Load(j)]
              /\ task = "ScheduleFleetsJobs" => \A j \in S : status[j] = "QUEUED"
              /\ task = "StopBlockedFleetsJobs" => \A j \in S : status[j] \in Started
      BY <1>4, Fetched
    <2>2. UNCHANGED <<status, fleetId, program, cancelSent, task, on>> /\ cur = NoJob
      BY <1>4 DEF FetchBatch, dbVars, envVars
    <2>3. \A j \in S : Holds(Load(j), j) /\ Load(j).status = status[j]
      BY LoadHolds DEF Safe, Load
    <2>4. \A j \in S : batch'[j] = Load(j) /\ Holds(batch[j], j)'
      BY <2>1, <2>2, <2>3 DEF Holds
    <2> QED
      BY <2>1, <2>2, <2>3, <2>4 DEF BatchSafe, Started, cur, Types, ActorSets
  <1>5. CASE TakeJob
    <2>1. PICK j \in DOMAIN batch : on' = [on EXCEPT ![Scheduler] = j] /\ batch' = [k \in DOMAIN batch \ {j} |-> batch[k]]
      BY ZenonT(60), <1>5 DEF TakeJob
    <2>2. BatchSafe'
      BY <1>2, <1>5 DEF TakeJob
    <2> QED
      BY <2>1, <2>2 DEF cur
  <1>6. CASE batch' = batch /\ task' = task /\ on'[Scheduler] = on[Scheduler]
    <2>1. BatchSafe'
      BY <1>2, <1>6
    <2> QED
      BY <1>6, <2>1 DEF cur
  <1>7. CASE RecordFleet
    BY <1>6, <1>7 DEF RecordFleet, schedVars
  <1> QED
    BY <1>3, <1>4, <1>5, <1>6, <1>7, Turns DEF Turn, Goes

\* A step of the scheduler keeps what it knows of its job.
LEMMA JobStep ==
    ASSUME Types, EndsForGood, Safe, [Next]_vars, SchedulerStep \/ Crash
    PROVE  JobSafe' /\ (pc'[Scheduler] \in {"fetch", "next"} => cur' = NoJob)
  <1> JobSafe /\ BatchSafe /\ StopperSafe(Scheduler) /\ (pc[Scheduler] \in {"fetch", "next"} => cur = NoJob)
    BY DEF Safe, LoopSafe, BatchSafe, JobSafe, Types, ActorSets
  <1> cur \in Jobs => Grows(cur)
    BY EveryStepGrows
  <1>1. CASE Rests
    BY <1>1 DEF Rests, JobSafe, SubmitSteps, cur
  <1>2. CASE FetchBatch
    <2>1. pc'[Scheduler] = "next" /\ on' = on /\ cur = NoJob
      BY <1>2 DEF FetchBatch, GoTo, Types, ActorSets, ActorTypes
    <2> QED
      BY <2>1 DEF JobSafe, SubmitSteps, cur
  <1>3. CASE TakeJob
    <2>1. PICK j \in DOMAIN batch : on' = [on EXCEPT ![Scheduler] = j] /\ mem' = [mem EXCEPT ![Scheduler] = batch[j]]
      BY ZenonT(60), <1>3 DEF TakeJob
    <2>2. cur' = j /\ inst' = batch[j] /\ UNCHANGED <<status, task>> /\ pc'[Scheduler] = FirstStep(task)
      BY <1>3, <2>1 DEF TakeJob, GoTo, cur, inst, dbVars, Types, ActorSets, ActorTypes
    <2> QED
      BY <2>2, FirstSteps DEF JobSafe, BatchSafe, SubmitSteps
  <1>4. CASE RecordFleet
    <2>1. cur \in Jobs /\ pc[Scheduler] = "record"
      BY <1>4 DEF RecordFleet, Resting, cur, Types, ActorSets, Handling
    <2>2. pc'[Scheduler] = "pending" /\ cur' = cur /\ fleetId'[cur] /\ UNCHANGED <<status, task>>
      BY <1>4, <2>1 DEF RecordFleet, GoTo, cur, schedVars, Types, ActorSets, ActorTypes, RowTypes
    <2> QED
      BY <2>1, <2>2 DEF JobSafe, SubmitSteps
  <1>5. CASE pc[Scheduler] = "submit" /\ status' = status /\ (Goes("record") \/ Goes("fail"))
    BY <1>5 DEF Goes, JobSafe, SubmitSteps, cur
  <1>6. CASE pc[Scheduler] = "pending" /\ status' = status /\ status[cur] # "QUEUED" /\ Goes("orphan")
    <2>1. cur \in Jobs
      BY <1>6 DEF Resting, cur, Types, ActorSets, Handling
    <2> QED
      BY <1>6, <2>1 DEF Goes, JobSafe, SubmitSteps, Grows, cur
  <1>7. CASE Goes("end") /\ cur \in Jobs /\ fleet' = fleet /\ (inst.status = "STOPPING" \/ fleet[cur] \in Ended)
    <2>1. inst.status = "STOPPING" => cancelSent[cur]
      BY <1>7 DEF StopperSafe, Holds, cur, inst
    <2> QED
      BY <1>7, <2>1 DEF Goes, JobSafe, SubmitSteps, Grows, cur
  <1>8. CASE Goes("torunning") \/ Goes("timeout") \/ Goes("cancel") \/ Goes("stopping") \/ Goes("stopped")
    BY <1>8 DEF Goes, JobSafe, SubmitSteps
  <1>9. CASE /\ Goes("tostopped") /\ cur \in Jobs
             /\ (pc[Scheduler] = "block" /\ ~(inst.fleet /\ inst.program)) \/ status'[cur] = "STOPPED"
    <2>1. pc[Scheduler] = "block" => inst.fleet
      BY <1>9 DEF StopperSafe, Holds, JobSafe, cur, inst
    <2>2. ~inst.program \/ status'[cur] \in TERMINAL_STATUSES
      BY <1>9, <2>1 DEF TERMINAL_STATUSES
    <2> QED
      BY <1>9, <2>2 DEF Goes, JobSafe, SubmitSteps, Terminal, cur, inst
  <1> QED
    BY <1>1, <1>2, <1>3, <1>4, <1>5, <1>6, <1>7, <1>8, <1>9, Turns DEF Turn

\* Every step keeps what the scheduler knows of its batch and of its job.
LEMMA LoopStep ==
    ASSUME Types, EndsForGood, Safe, [Next]_vars
    PROVE  LoopSafe'
  <1>1. CASE SchedulerStep \/ Crash
    BY <1>1, BatchStep, JobStep DEF LoopSafe, BatchSafe, JobSafe
  <1>2. ASSUME /\ UNCHANGED <<task, batch>> /\ ActorKept(Scheduler)
               /\ \A j \in Jobs : Grows(j) /\ status'[j] \in {status[j], "STOPPING", "STOPPED"}
        PROVE  LoopSafe'
    <2>1. cur' = cur /\ inst' = inst /\ pc'[Scheduler] = pc[Scheduler]
      BY <1>2 DEF ActorKept, cur, inst
    <2>2. \A j \in Jobs : status[j] \notin Started => status'[j] \notin Started
      BY <1>2 DEF Started
    <2>3. BatchSafe'
      BY <1>2, <2>2 DEF Safe, LoopSafe, BatchSafe, Holds, Grows, Types, LoopTypes
    <2>4. pc[Scheduler] \notin Resting => cur \in Jobs
      BY DEF cur, Types, ActorSets, Handling
    <2>5. JobSafe'
      BY <1>2, <2>1, <2>2, <2>4 DEF Safe, LoopSafe, JobSafe, Grows, Terminal, SubmitSteps, Resting
    <2>6. cur' \notin DOMAIN batch' /\ (pc'[Scheduler] \in {"fetch", "next"} => cur' = NoJob)
      BY <1>2, <2>1 DEF Safe, LoopSafe
    <2> QED
      BY <2>3, <2>5, <2>6 DEF LoopSafe, BatchSafe, JobSafe
  <1>3. ASSUME NEW a \in Requests, RequestStep(a) \/ RequestDies(a)
        PROVE  LoopSafe'
    <2>1. UNCHANGED <<task, batch>> /\ ActorKept(Scheduler) /\ \A j \in Jobs : status'[j] \in {status[j], "STOPPING", "STOPPED"}
      BY <1>3, RequestFrames DEF RequestFrame, Types, ActorSets
    <2> QED
      BY <1>2, <2>1, EveryStepGrows
  <1>4. CASE WorldFrame
    BY <1>2, <1>4, EveryStepGrows DEF WorldFrame, ActorKept
  <1> QED
    BY <1>1, <1>3, <1>4, StepKinds

-----------------------------------------------------------------------------
(* The stops and their answers. *)

\* An actor that is left alone stays right about its job.
LEMMA StopperKept ==
    ASSUME Types, NEW a \in Actors, StopperSafe(a), ActorKept(a), \A j \in Jobs : Grows(j)
    PROVE  StopperSafe(a)'
  <1>1. pc[a] \in {"stopping", "stopped"} => on[a] \in Jobs
    BY DEF Types, Resting, Handling
  <1>2. on'[a] \in Jobs => Holds(mem[a], on[a])'
    BY DEF StopperSafe, ActorKept, Holds, Grows
  <1> QED
    BY <1>1, <1>2 DEF StopperSafe, ActorKept, Grows

\* A request that asks again knows at least what it knew.
LEMMA RetryHolds ==
    ASSUME Types, NEW a \in Requests, on[a] \in Jobs, StopperSafe(a), UNCHANGED <<fleetId, program>>, Grows(on[a]),
           NEW v \in {mem[a].fleet, fleetId[on[a]]}, NotStopped(a, v)
    PROVE  StopperSafe(a)'
  <1>1. CASE mem' = [mem EXCEPT ![a].fleet = v] /\ GoTo(a, "cancel") /\ on' = on
    <2>1. mem[a] \in Instances /\ mem'[a] = [mem[a] EXCEPT !.fleet = v]
      BY <1>1 DEF Types, ActorSets, ActorTypes
    <2>2. mem'[a].status = mem[a].status /\ mem'[a].program = mem[a].program /\ mem'[a].fleet = v
      BY <2>1
    <2>3. mem[a].fleet \in BOOLEAN /\ fleetId[on[a]] \in BOOLEAN
      BY DEF Instances, Types, ActorSets, ActorTypes, RowTypes
    <2>4. Holds(mem[a], on[a])'
      BY <1>1 DEF StopperSafe, Holds, Grows
    <2>5. pc'[a] = "cancel"
      BY <1>1 DEF GoTo, Types, ActorSets, ActorTypes
    <2> QED
      BY <2>4, <2>5 DEF StopperSafe
  <1>2. CASE Answer(a, "retry")
    BY <1>2 DEF Answer, GoTo, Forget, Blank, StopperSafe, Holds, Started, Types, ActorSets, ActorTypes
  <1> QED
    BY <1>1, <1>2 DEF NotStopped, Types, ActorSets

\* A request stays right about its job through its own steps.
LEMMA StopperRequest ==
    ASSUME Types, EndsForGood, Safe, [Next]_vars, NEW a \in Requests, RequestStep(a) \/ RequestDies(a)
    PROVE  StopperSafe(a)'
  <1> StopperSafe(a) /\ \A j \in Jobs : Grows(j) /\ RowSafe(j)
    BY EveryStepGrows DEF Safe, Types, ActorSets
  <1>1. ASSUME NEW r, Answer(a, r) PROVE StopperSafe(a)'
    BY <1>1 DEF Answer, GoTo, Forget, Blank, StopperSafe, Holds, Started, Types, ActorSets, ActorTypes
  <1>2. ASSUME NEW j \in Jobs, ReadJob(a, j) PROVE StopperSafe(a)'
    <2>1. CASE mem' = [mem EXCEPT ![a] = Load(j)] /\ GoTo(a, "cancel")
      <3>1. mem'[a] = Load(j) /\ on'[a] = j /\ pc'[a] = "cancel" /\ UNCHANGED <<fleetId, program, cancelSent>>
        BY <1>2, <2>1 DEF ReadJob, GoTo, dbVars, envVars, Types, ActorSets, ActorTypes
      <3>2. Holds(Load(j), j)
        BY LoadHolds
      <3> QED
        BY <3>1, <3>2 DEF StopperSafe, Holds
    <2> QED
      BY <1>1, <1>2, <2>1 DEF ReadJob
  <1>3. CASE ReadAgain(a)
    BY <1>1, <1>3 DEF ReadAgain
  <1>4. CASE RequestDies(a)
    BY <1>4 DEF RequestDies, GoTo, Forget, Blank, StopperSafe, Holds, Started, Types, ActorSets, ActorTypes
  <1>5. CASE Stop(a)
    <2>a. pc[a] \in {"cancel", "stopping", "stopped"}
      BY <1>5 DEF Stop, CancelAccepted, NothingToCancel, CancelFailed, WriteStopping, WriteStopped
    <2> on[a] \in Jobs
      BY <2>a DEF Resting, Types, ActorSets, Handling
    <2>1. CASE CancelAccepted(a) \/ NothingToCancel(a)
      <3>1. /\ mem' = mem /\ on' = on /\ gone' = gone
            /\ \/ pc'[a] = "stopping" /\ cancelSent'[on[a]] /\ mem[a].fleet
               \/ pc'[a] = "stopped" /\ (~mem[a].fleet \/ ~mem[a].program \/ gone[on[a]])
        BY <2>1 DEF CancelAccepted, NothingToCancel, GoTo, envVars, Types, ActorSets, ActorTypes, FleetTypes
      <3>2. Holds(mem[a], on[a])'
        BY <3>1 DEF StopperSafe, Holds, Grows
      <3> QED
        BY <3>1, <3>2 DEF StopperSafe
    <2>2. CASE CancelFailed(a)
      BY ZenonT(60), <2>2, RetryHolds DEF CancelFailed, dbVars
    <2>3. ASSUME LostRace(a) PROVE StopperSafe(a)'
      <3>1. CASE GoTo(a, "lost") /\ UNCHANGED <<on, mem>>
        <4>1. on' = on /\ mem' = mem /\ pc'[a] \notin {"stopping", "stopped"}
          BY <3>1 DEF GoTo, Types, ActorSets, ActorTypes
        <4>2. Holds(mem[a], on[a])'
          BY <4>1 DEF StopperSafe, Holds, Grows
        <4> QED
          BY ZenonT(60), <4>1, <4>2 DEF StopperSafe
      <3> QED
        BY <1>1, <2>3, <3>1 DEF LostRace, Types, ActorSets
    <2>4. CASE WriteStopping(a)
      BY <1>1, <2>3, <2>4 DEF WriteStopping, Types, ActorSets
    <2>5. CASE WriteStopped(a)
      <3>1. UNCHANGED <<fleetId, program>>
        BY <2>5 DEF WriteStopped
      <3>2. CASE NotStopped(a, fleetId[on[a]])
        BY <3>1, <3>2, RetryHolds
      <3> QED
        BY <1>1, <2>3, <2>5, <3>2 DEF WriteStopped, Types, ActorSets
    <2> QED
      BY <1>5, <2>1, <2>2, <2>4, <2>5 DEF Stop
  <1> QED
    BY <1>2, <1>3, <1>4, <1>5 DEF RequestStep

\* So does the scheduler.
LEMMA StopperScheduler ==
    ASSUME Types, EndsForGood, Safe, [Next]_vars, SchedulerStep \/ Crash
    PROVE  StopperSafe(Scheduler)'
  <1> StopperSafe(Scheduler) /\ LoopSafe /\ \A j \in Jobs : Grows(j)
    BY EveryStepGrows DEF Safe, Types, ActorSets
  <1>1. CASE Rests
    BY <1>1 DEF Rests, StopperSafe, Types, ActorSets
  <1>2. CASE FetchBatch
    <2>1. pc'[Scheduler] = "next" /\ on' = on /\ cur = NoJob
      BY <1>2 DEF FetchBatch, GoTo, LoopSafe, Types, ActorSets, ActorTypes
    <2> QED
      BY <2>1 DEF StopperSafe, cur, Types, ActorSets
  <1>3. CASE TakeJob
    <2>1. PICK j \in DOMAIN batch : on' = [on EXCEPT ![Scheduler] = j] /\ mem' = [mem EXCEPT ![Scheduler] = batch[j]]
      BY ZenonT(60), <1>3 DEF TakeJob
    <2>2. on'[Scheduler] = j /\ mem'[Scheduler] = batch[j] /\ pc'[Scheduler] = FirstStep(task)
      BY <1>3, <2>1 DEF TakeJob, GoTo, Types, ActorSets, ActorTypes
    <2>3. Holds(mem[Scheduler], on[Scheduler])'
      BY <2>2 DEF LoopSafe, Holds, Grows, Types, LoopTypes
    <2> QED
      BY <2>2, <2>3, FirstSteps DEF StopperSafe
  <1>4. CASE RecordFleet
    <2>1. cur \in Jobs /\ on' = on /\ fleetId'[cur]
      BY <1>4 DEF RecordFleet, Resting, cur, Types, ActorSets, Handling, RowTypes
    <2>2. mem[Scheduler] \in Instances /\ mem'[Scheduler] = [mem[Scheduler] EXCEPT !.fleet = TRUE]
      BY <1>4 DEF RecordFleet, Types, ActorSets, ActorTypes
    <2>3. /\ mem'[Scheduler].status = mem[Scheduler].status /\ mem'[Scheduler].program = mem[Scheduler].program
          /\ mem'[Scheduler].fleet
      BY <2>2
    <2>4. Holds(mem[Scheduler], on[Scheduler])'
      BY <2>1, <2>3 DEF StopperSafe, Holds, Grows, cur
    <2>5. pc'[Scheduler] = "pending"
      BY <1>4 DEF RecordFleet, GoTo, Types, ActorSets, ActorTypes
    <2> QED
      BY <2>4, <2>5 DEF StopperSafe
  <1>5. ASSUME NEW t, Goes(t),
               t = "stopping" => cancelSent'[cur] /\ inst.fleet,
               t = "stopped" => ~inst.fleet \/ ~inst.program \/ gone'[cur]
        PROVE  StopperSafe(Scheduler)'
    BY <1>5 DEF Goes, StopperSafe, Holds, Grows, cur, inst
  <1>6. gone' = gone
    BY SchedulerFrames DEF SchedulerFrame
  <1> QED
    BY <1>1, <1>2, <1>3, <1>4, <1>5, <1>6, Turns DEF Turn

\* Every step leaves every actor right about its job.
LEMMA StopperStep ==
    ASSUME Types, EndsForGood, Safe, [Next]_vars, NEW a \in Actors
    PROVE  StopperSafe(a)'
  <1>1. ActorKept(a) => StopperSafe(a)'
    BY StopperKept, EveryStepGrows DEF Safe
  <1>2. CASE SchedulerStep \/ Crash
    BY <1>1, <1>2, StopperScheduler, SchedulerFrames DEF SchedulerFrame, Actors
  <1>3. ASSUME NEW b \in Requests, RequestStep(b) \/ RequestDies(b)
        PROVE  StopperSafe(a)'
    BY <1>1, <1>3, StopperRequest, RequestFrames DEF RequestFrame
  <1>4. CASE WorldFrame
    BY <1>1, <1>4 DEF WorldFrame, ActorKept
  <1> QED
    BY <1>2, <1>3, <1>4, StepKinds

\* A request that is left alone keeps what it was told.
LEMMA RequestKept ==
    ASSUME Types, NEW a \in Requests, RequestSafe(a), ActorKept(a), result'[a] = result[a],
           \A j \in Jobs : Grows(j)
    PROVE  RequestSafe(a)'
  <1>1. pc[a] = "lost" => on[a] \in Jobs
    BY DEF Types, Resting, ActorSets, Handling
  <1>2. ASSUME on[a] \in Jobs
        PROVE  /\ Terminal(on[a]) => Terminal(on[a])'
               /\ Settled(on[a]) => Settled(on[a])'
               /\ status[on[a]] = "STOPPED" => status'[on'[a]] = "STOPPED"
    BY <1>2 DEF ActorKept, Grows, Settled, Terminal, TERMINAL_STATUSES
  <1> QED
    BY <1>1, <1>2 DEF RequestSafe, ActorKept

\* An answer has to be true when it is given.
LEMMA Answered ==
    ASSUME Types, NEW a \in Requests, NEW r, Answer(a, r), on'[a] \in Jobs,
           r = "stopped" => status'[on'[a]] = "STOPPED",
           r = "terminal" => Terminal(on[a])',
           r \in {"stopping", "already", "left"} => Settled(on[a])'
    PROVE  RequestSafe(a)'
  <1>1. pc'[a] = "done" /\ result'[a] = r
    BY DEF Types, Answer, GoTo, ActorSets, ActorTypes
  <1> QED
    BY <1>1 DEF RequestSafe

\* What a request answers is true, through its own steps.
LEMMA RequestAnswers ==
    ASSUME Types, EndsForGood, Safe, [Next]_vars, NEW a \in Requests, RequestStep(a) \/ RequestDies(a)
    PROVE  RequestSafe(a)'
  <1> StopperSafe(a) /\ RequestSafe(a) /\ \A j \in Jobs : Grows(j) /\ RowSafe(j) /\ RowSafe(j)'
    BY EveryStepGrows, RowStep DEF Safe, Types, ActorSets
  <1>1. ASSUME NEW s, s # "lost", GoTo(a, s), result' = result, pc[a] # "done" PROVE RequestSafe(a)'
    BY <1>1 DEF GoTo, RequestSafe, Types, ActorSets, ActorTypes
  <1>2. ASSUME NEW j \in Jobs, ReadJob(a, j) PROVE RequestSafe(a)'
    <2>1. on'[a] = j /\ status' = status /\ cancelSent' = cancelSent /\ pc[a] = "idle"
      BY <1>2 DEF ReadJob, dbVars, envVars, Types, ActorSets, ActorTypes
    <2>2. CASE GoTo(a, "cancel") /\ UNCHANGED result
      BY <1>1, <2>1, <2>2
    <2>3. CASE Answer(a, "refused")
      BY <2>1, <2>3, Answered
    <2>4. CASE status[j] = "STOPPING" /\ Answer(a, "already")
      BY <2>1, <2>4, Answered DEF Settled, RowSafe
    <2>5. CASE Terminal(j) /\ Answer(a, "terminal")
      BY <2>1, <2>5, Answered DEF Terminal
    <2> QED
      BY <1>2, <2>2, <2>3, <2>4, <2>5 DEF ReadJob
  <1>3. CASE ReadAgain(a)
    <2>1. /\ on[a] \in Jobs /\ on' = on /\ status' = status /\ cancelSent' = cancelSent
          /\ Settled(on[a])
      BY <1>3 DEF ReadAgain, Resting, dbVars, envVars, RequestSafe, Types, ActorSets, Handling
    <2>2. CASE status[on[a]] = "STOPPING" /\ Answer(a, "stopping")
      BY <2>1, <2>2, Answered DEF Settled, Terminal
    <2>3. CASE status[on[a]] = "STOPPED" /\ Answer(a, "stopped")
      BY <2>1, <2>3, Answered
    <2>4. CASE status[on[a]] \notin {"STOPPING", "STOPPED"} /\ Answer(a, "terminal")
      BY <2>1, <2>4, Answered DEF Settled, Terminal
    <2> QED
      BY <1>3, <2>2, <2>3, <2>4 DEF ReadAgain
  <1>4. CASE RequestDies(a)
    BY <1>1, <1>4 DEF RequestDies
  <1>5. CASE Stop(a)
    <2>a. pc[a] \in {"cancel", "stopping", "stopped"}
      BY ZenonT(60), <1>5 DEF Stop, CancelAccepted, NothingToCancel, CancelFailed, WriteStopping, WriteStopped
    <2> on[a] \in Jobs /\ a # Scheduler /\ status \in [Jobs -> Statuses]
      BY <2>a DEF Types, Resting, ActorSets, Handling, RowTypes
    <2>1. CASE CancelAccepted(a) \/ NothingToCancel(a)
      BY <1>1, <2>1 DEF CancelAccepted, NothingToCancel
    <2>2. ASSUME NEW v, NotStopped(a, v) PROVE RequestSafe(a)'
      <3>1. CASE GoTo(a, "cancel") /\ UNCHANGED <<reading, on, result>>
        BY <1>1, <2>a, <3>1
      <3>2. CASE Answer(a, "retry") /\ UNCHANGED <<reading, on, tries>>
        BY <3>2, Answered
      <3> QED
        BY <2>2, <3>1, <3>2 DEF NotStopped
    <2>3. ASSUME LostRace(a), Settled(on[a]), UNCHANGED <<status, cancelSent>> PROVE RequestSafe(a)'
      <3>1. CASE GoTo(a, "lost") /\ UNCHANGED <<reading, on, mem, tries, result>>
        BY <2>3, <2>a, <3>1 DEF RequestSafe, Settled, Terminal
      <3>2. CASE Answer(a, "left") /\ UNCHANGED <<reading, on, tries>>
        BY <2>3, <3>2, Answered DEF Settled, Terminal
      <3> QED
        BY <2>3, <3>1, <3>2 DEF LostRace
    <2>4. CASE WriteStopping(a)
      <3>1. cancelSent' = cancelSent /\ cancelSent[on[a]]
        BY <2>4 DEF WriteStopping, envVars, StopperSafe
      <3>2. CASE ToIntermediate(on[a], "STOPPING") /\ Answer(a, "stopping") /\ on' = on
        <4>1. status'[on[a]] = "STOPPING"
          BY <3>2 DEF ToIntermediate, ChangeStatus
        <4> QED
          BY <3>1, <3>2, <4>1, Answered DEF Settled
      <3>3. CASE ~MayChange(on[a], "STOPPING") /\ LostRace(a) /\ UNCHANGED status
        <4>1. Settled(on[a])
          BY <3>1, <3>3, Moves DEF Settled
        <4> QED
          BY <2>3, <3>1, <3>3, <4>1
      <3> QED
        BY <2>4, <3>2, <3>3 DEF WriteStopping
    <2>5. CASE WriteStopped(a)
      <3>1. cancelSent' = cancelSent
        BY <2>5 DEF WriteStopped, envVars
      <3>2. CASE ToStoppedByStop(on[a]) /\ Answer(a, "stopped") /\ on' = on
        <4>1. status'[on[a]] = "STOPPED"
          BY <3>2 DEF ToStoppedByStop, ChangeStatus
        <4> QED
          BY <3>2, <4>1, Answered
      <3>3. CASE ~MayChange(on[a], "STOPPED") /\ LostRace(a) /\ UNCHANGED status
        <4>1. Settled(on[a])
          BY <3>3, Moves DEF Settled
        <4> QED
          BY <2>3, <3>1, <3>3, <4>1
      <3>4. CASE Answer(a, "error") /\ on' = on
        BY <3>4, Answered
      <3> QED
        BY <2>2, <2>5, <3>2, <3>3, <3>4 DEF WriteStopped
    <2> QED
      BY <1>5, <2>1, <2>2, <2>4, <2>5 DEF Stop, CancelFailed
  <1> QED
    BY <1>2, <1>3, <1>4, <1>5 DEF RequestStep

\* Every step keeps every answer true.
LEMMA AnswerStep ==
    ASSUME Types, EndsForGood, Safe, [Next]_vars, NEW a \in Requests
    PROVE  RequestSafe(a)'
  <1>1. ActorKept(a) /\ result'[a] = result[a] => RequestSafe(a)'
    BY RequestKept, EveryStepGrows DEF Safe
  <1>2. CASE SchedulerStep \/ Crash
    BY <1>1, <1>2, SchedulerFrames DEF SchedulerFrame
  <1>3. ASSUME NEW b \in Requests, RequestStep(b) \/ RequestDies(b)
        PROVE  RequestSafe(a)'
    <2>1. b # a => ActorKept(a) /\ result'[a] = result[a]
      BY <1>3, RequestFrames DEF Types, RequestFrame, ActorSets
    <2> QED
      BY <1>1, <1>3, <2>1, RequestAnswers
  <1>4. CASE WorldFrame
    BY <1>1, <1>4 DEF WorldFrame, ActorKept
  <1> QED
    BY <1>2, <1>3, <1>4, StepKinds

-----------------------------------------------------------------------------
(* The env_vars. *)

\* The env_vars of a row are wiped only by the scheduler, on its own job: before
\* it fails a refused submit, with the fleet it records, or with the end.
LEMMA EnvWrites ==
    ASSUME Types, EndsForGood, [Next]_vars, NEW j \in Jobs, envKept'[j] # envKept[j]
    PROVE  /\ cur = j
           /\ \/ cur' = j /\ pc'[Scheduler] \in {"fail", "pending"}
              \/ status'[j] # "QUEUED"
  <1>1. SchedulerStep \/ Crash
    BY StepKinds, RequestFrames DEF RequestFrame, WorldFrame
  <1>2. cur = j
    BY <1>1, SchedulerFrames DEF SchedulerFrame, RowKept
  <1>3. envKept' # envKept
    OBVIOUS
  <1>4. SubmitRefused \/ RecordFleet \/ EndJob
    <2>1. ~(FetchBatch \/ TakeJob \/ EndTask \/ Crash \/ StopBlocked \/ BlockedToStopped)
      BY DEF FetchBatch, TakeJob, EndTask, Crash, StopBlocked, BlockedToStopped, dbVars
    <2>2. ~(NoFreeFleet \/ SubmitRetryable \/ SubmitAnswerLost \/ SubmitCreated \/ FailSubmit \/ QueuedToPending \/ CancelOrphanFleet)
      BY DEF NoFreeFleet, SubmitRetryable, SubmitAnswerLost, SubmitCreated, FailSubmit, QueuedToPending, CancelOrphanFleet,
         dbVars
    <2>3. ~(ReadStatus \/ PendingToRunning \/ StopJobIfTimeout)
      BY DEF ReadStatus, PendingToRunning, StopJobIfTimeout, dbVars
    <2>4. ~Stop(Scheduler)
      BY DEF Stop, CancelAccepted, NothingToCancel, CancelFailed, WriteStopping, WriteStopped, dbVars
    <2> QED
      BY <1>1, <2>1, <2>2, <2>3, <2>4 DEF SchedulerStep, Submit, Poll
  <1>5. CASE SubmitRefused \/ RecordFleet
    BY <1>2, <1>5 DEF Types, SubmitRefused, RecordFleet, GoTo, cur, ActorSets, ActorTypes
  <1>6. CASE EndJob
    <2>1. ToTerminal(cur, reading, inst.program) /\ pc[Scheduler] = "end"
      BY <1>6 DEF EndJob
    <2>2. status'[j] = reading /\ reading \in TERMINAL_STATUSES
      BY <1>2, <2>1 DEF Types, ToTerminal, ChangeStatus, EndsForGood, RowTypes
    <2> QED
      BY <1>2, <2>2 DEF TERMINAL_STATUSES
  <1> QED
    BY <1>4, <1>5, <1>6

\* A submitter that wiped the env_vars of a QUEUED job moves it on, unless it
\* has no program to build the payload with.
LEMMA WipedLeaves ==
    ASSUME Types, SchedulerStep, cur \in Jobs, status[cur] = "QUEUED", pc[Scheduler] \in {"fail", "pending"}
    PROVE  status'[cur] # "QUEUED" \/ ~inst.program
  <1>1. FailSubmit \/ QueuedToPending
    <2>1. ~(FetchBatch \/ TakeJob \/ EndTask \/ StopBlocked \/ BlockedToStopped)
      BY DEF FetchBatch, TakeJob, EndTask, StopBlocked, BlockedToStopped
    <2>2. ~(NoFreeFleet \/ SubmitRetryable \/ SubmitAnswerLost \/ SubmitCreated \/ SubmitRefused \/ RecordFleet \/ CancelOrphanFleet)
      BY DEF NoFreeFleet, SubmitRetryable, SubmitAnswerLost, SubmitCreated, SubmitRefused, RecordFleet, CancelOrphanFleet
    <2>3. ~(ReadStatus \/ EndJob \/ PendingToRunning \/ StopJobIfTimeout)
      BY DEF ReadStatus, EndJob, PendingToRunning, StopJobIfTimeout
    <2>4. ~Stop(Scheduler)
      BY DEF Stop, CancelAccepted, NothingToCancel, CancelFailed, WriteStopping, WriteStopped
    <2> QED
      BY <2>1, <2>2, <2>3, <2>4 DEF SchedulerStep, Submit, Poll
  <1>2. CASE FailSubmit
    <2>1. MayChange(cur, "FAILED")
      BY Moves
    <2>2. CASE ToTerminal(cur, "FAILED", inst.program)
      BY <2>2 DEF Types, ToTerminal, ChangeStatus, RowTypes
    <2> QED
      BY <1>2, <2>1, <2>2 DEF FailSubmit, PayloadRejected
  <1>3. CASE QueuedToPending
    <2>1. MayChange(cur, "PENDING")
      BY Moves
    <2>2. CASE ToIntermediate(cur, "PENDING")
      BY <2>2 DEF Types, ToIntermediate, ChangeStatus, RowTypes
    <2> QED
      BY <1>3, <2>1, <2>2 DEF QueuedToPending
  <1> QED
    BY <1>1, <1>2, <1>3

\* A row that may still be submitted keeps its env_vars.
LEMMA EnvStep ==
    ASSUME Types, EndsForGood, Safe, [Next]_vars
    PROVE  EnvSafe'
  <1> SUFFICES ASSUME crashes' = 0
               PROVE  /\ \A j \in Jobs : status'[j] = "QUEUED" /\ ~envKept'[j] =>
                            (cur' = j /\ pc'[Scheduler] \in {"fail", "pending"}) \/ ~program'[j]
                      /\ task' = "ScheduleFleetsJobs" => \A j \in DOMAIN batch' : batch'[j].program => envKept'[j]
                      /\ pc'[Scheduler] = "submit" /\ inst'.program => envKept'[cur']
    BY DEF EnvSafe
  <1>1. crashes = 0
    BY CrashesGrow DEF Types, LoopTypes
  <1> DEFINE Wiped(j) == cur = j /\ pc[Scheduler] \in {"fail", "pending"}
  <1>2. /\ \A j \in Jobs : status[j] = "QUEUED" /\ ~envKept[j] => Wiped(j) \/ ~program[j]
        /\ task = "ScheduleFleetsJobs" => \A j \in DOMAIN batch : batch[j].program => envKept[j]
        /\ pc[Scheduler] = "submit" /\ inst.program => envKept[cur]
    BY <1>1 DEF Safe, EnvSafe
  <1>3. /\ cur \notin DOMAIN batch /\ DOMAIN batch \subseteq Jobs
        /\ pc[Scheduler] \in {"fetch", "next"} => cur = NoJob
        /\ cur \in Jobs /\ ~inst.program => ~program[cur]
    BY DEF Types, Safe, LoopSafe, StopperSafe, Holds, cur, inst, ActorSets, LoopTypes
  <1>4. \A j \in Jobs : Grows(j)
    BY EveryStepGrows
  <1>5. ASSUME NEW j \in Jobs, status'[j] = "QUEUED", ~envKept'[j]
        PROVE  Wiped(j)' \/ ~program'[j]
    <2>1. CASE envKept'[j] # envKept[j]
      BY <1>5, <2>1, EnvWrites
    <2>2. CASE program[j] /\ Wiped(j)
      <3>1. status[j] = "QUEUED"
        BY <1>4, <1>5 DEF Grows
      <3>2. CASE SchedulerStep
        <4>1. cur = j /\ cur \in Jobs /\ pc[Scheduler] \in {"fail", "pending"}
          BY ZenonT(60), <1>5, <2>2
        <4>2. status'[cur] # "QUEUED" \/ ~inst.program
          BY ZenonT(60), <3>1, <3>2, <4>1, WipedLeaves
        <4> QED
          BY ZenonT(60), <1>3, <1>5, <2>2, <4>1, <4>2
      <3>3. ~Crash
        BY <1>1 DEF Crash
      <3>4. ActorKept(Scheduler) => Wiped(j)'
        BY <2>2 DEF ActorKept, cur
      <3>5. CASE WorldFrame \/ \E a \in Requests : RequestStep(a) \/ RequestDies(a)
        BY <3>4, <3>5, RequestFrames DEF Types, RequestFrame, WorldFrame, ActorKept, ActorSets
      <3> QED
        BY <3>2, <3>3, <3>5, StepKinds
    <2> QED
      BY <1>2, <1>4, <1>5, <2>1, <2>2 DEF Grows
  <1>6. CASE WorldFrame \/ \E a \in Requests : RequestStep(a) \/ RequestDies(a)
    <2>1. ActorKept(Scheduler) /\ UNCHANGED <<envKept, task, batch>>
      BY <1>6, RequestFrames DEF Types, RequestFrame, WorldFrame, ActorKept, ActorSets
    <2> QED
      BY <1>2, <1>5, <2>1 DEF ActorKept, cur, inst
  <1>7. CASE SchedulerStep \/ Crash
    <2>1. \A j \in DOMAIN batch : envKept'[j] = envKept[j]
      BY <1>3, <1>7, SchedulerFrames DEF SchedulerFrame, RowKept
    <2>2. CASE Rests
      BY <1>2, <1>5, <2>1, <2>2 DEF Rests
    <2>3. CASE FetchBatch
      <3>1. PICK S \in Selections(task) : batch' = [j \in S |-> Load(j)]
        BY <2>3 DEF FetchBatch
      <3>2. task' = task /\ envKept' = envKept /\ pc[Scheduler] = "fetch" /\ pc'[Scheduler] = "next"
        BY <2>3 DEF Types, FetchBatch, dbVars, GoTo, ActorSets, ActorTypes
      <3>3. ASSUME task = "ScheduleFleetsJobs", NEW j \in S, Load(j).program PROVE envKept[j]
        <4>1. j \in Jobs /\ status[j] = "QUEUED"
          BY <3>3 DEF Selections, Candidates
        <4>2. program[j]
          BY <3>3 DEF Load
        <4> QED
          BY <1>2, <3>2, <4>1, <4>2
      <3> QED
        BY <1>5, <3>1, <3>2, <3>3
    <2>4. CASE TakeJob
      <3>1. PICK j \in DOMAIN batch :
              /\ on' = [on EXCEPT ![Scheduler] = j]
              /\ mem' = [mem EXCEPT ![Scheduler] = batch[j]]
              /\ batch' = [k \in DOMAIN batch \ {j} |-> batch[k]]
        BY ZenonT(60), <2>4 DEF TakeJob
      <3>2. cur' = j /\ inst' = batch[j] /\ task' = task /\ pc'[Scheduler] = FirstStep(task)
        BY <2>4, <3>1 DEF Types, TakeJob, GoTo, cur, inst, ActorSets, ActorTypes
      <3> QED
        BY <1>2, <1>5, <2>1, <3>1, <3>2, FirstSteps
    <2>5. CASE RecordFleet
      <3>1. batch' = batch /\ task' = task /\ pc'[Scheduler] = "pending"
        BY <2>5 DEF Types, RecordFleet, GoTo, schedVars, ActorSets, ActorTypes
      <3> QED
        BY <1>2, <1>5, <2>1, <3>1
    <2>6. ASSUME NEW s, s # "submit", Goes(s) PROVE EnvSafe'
      BY <1>2, <1>5, <2>1, <2>6 DEF Goes, EnvSafe
    <2> QED
      BY <1>7, <2>2, <2>3, <2>4, <2>5, <2>6, Turns DEF Turn, EnvSafe
  <1> QED
    BY <1>6, <1>7, StepKinds

-----------------------------------------------------------------------------
(* The invariant and the theorems. *)

\* It holds when the scheduler starts with every job QUEUED and without a fleet.
LEMMA SafeInit == Init => Safe
  <1> SUFFICES ASSUME Init
               PROVE  Safe
    OBVIOUS
  <1> Scheduler \in Actors /\ Scheduler \notin Requests /\ Requests \subseteq Actors /\ NoJob \notin Jobs
    BY ActorsAssumption DEF Actors
  <1>1. /\ \A a \in Actors : pc[a] \in {"fetch", "idle"} /\ on[a] = NoJob
        /\ \A a \in Requests : result[a] = "none"
        /\ pc[Scheduler] = "fetch" /\ cur = NoJob
    BY DEF Init, cur
  <1>2. /\ \A j \in Jobs : status[j] = "QUEUED" /\ ~fleetId[j] /\ envKept[j] /\ fleet[j] = "none"
        /\ DOMAIN batch = {}
    BY DEF Init, DBInit, NoBatch
  <1>3. /\ \A a \in Actors : StopperSafe(a)
        /\ \A a \in Requests : RequestSafe(a)
    BY <1>1 DEF StopperSafe, RequestSafe
  <1>4. LoopSafe
    BY <1>1, <1>2 DEF LoopSafe, SubmitSteps
  <1>5. \A j \in Jobs : RowSafe(j) /\ OrphanSafe(j)
    BY <1>2 DEF RowSafe, OrphanSafe, Unattended, Started
  <1>6. EnvSafe
    BY <1>1, <1>2 DEF EnvSafe
  <1> QED
    BY <1>3, <1>4, <1>5, <1>6 DEF Safe

\* Typed, EndsForGood and Safe are kept together by every step.
LEMMA SafeStep == Typed /\ EndsForGood /\ Safe /\ [Next]_vars => Safe'
  <1> SUFFICES ASSUME Types, EndsForGood, Safe, [Next]_vars
               PROVE  Safe'
    BY Facts
  <1>1. \A a \in Actors : StopperSafe(a)'
    BY StopperStep
  <1>2. \A a \in Requests : RequestSafe(a)'
    BY AnswerStep
  <1>3. \A j \in Jobs : RowSafe(j)' /\ OrphanSafe(j)'
    BY RowStep, OrphanStep
  <1>4. LoopSafe' /\ EnvSafe'
    BY LoopStep, EnvStep
  <1> QED
    BY <1>1, <1>2, <1>3, <1>4 DEF Safe

\* Without a crash a fleet is only created with the env_vars of its job.
LEMMA CreatesWithEnv ==
    ASSUME Types, EndsForGood, Safe, [Next]_vars, NEW j \in Jobs,
           crashes = 0, fleet[j] = "none", fleet'[j] # "none"
    PROVE  envKept[j]
  <1>1. cur = j /\ pc[Scheduler] = "submit" /\ inst.program
    BY FleetWrites
  <1> QED
    BY <1>1 DEF Safe, EnvSafe

=============================================================================
