-------------------------- MODULE FleetsProperties --------------------------
(***************************************************************************)
(* What FleetsJobs promises: the properties that TLC checks of it and that *)
(* the proofs establish.                                                   *)
(***************************************************************************)
EXTENDS FleetsJobs

Lifecycle == INSTANCE JobLifecycle WITH
                 Jobs <- Jobs, Mirrored <- Mirrored,
                 status <- status, events <- events, outbox <- outbox, mirror <- mirror

\* Whatever the scheduler, the requests, Code Engine and the crashes do, the
\* rows only ever change as JobLifecycle says: the contract of
\* JobTransitionService.
ImplementsLifecycle == Lifecycle!Spec

\* The events of a job strictly advance and end in its status, also when two
\* actors race to write it (_change_status).
HistoryAdvances == Lifecycle!HistoryAdvances

\* Each message is enqueued once and only at the end of the job, whichever of
\* the racing actors ends it (to_terminal, stop).
OutboxExact == Lifecycle!OutboxExact

\* A final status stays, with its events and its messages, whoever else was
\* about to move the job (_change_status).
TerminalIsFinal == Lifecycle!TerminalIsFinal

\* What a stop request was told stays true: "has been stopped" only of a job
\* that is STOPPED for good, "terminal" only of one that has ended, and "is
\* stopping" only once Code Engine took a cancel or lost the fleet
\* (StopJobUseCase.execute, also after it lost the race).
AnswersAreTrue ==
    \A a \in Requests :
        /\ result[a] = "stopped" => status[on[a]] = "STOPPED"
        /\ result[a] = "terminal" => Terminal(on[a])
        /\ result[a] \in {"stopping", "already", "left"} =>
              Terminal(on[a]) \/ (status[on[a]] = "STOPPING" /\ cancelSent[on[a]])

\* A stop that races the submit never leaves a fleet running in silence: the
\* submitter is still about to cancel it, or has said FLEET_LEFT_RUNNING.  The
\* exceptions are a create that was lost, a crash of the scheduler, and a
\* deleted program (stop's second read of fleet_id, _cancel_orphan_fleet).
NoSilentOrphan ==
    \A j \in Jobs :
        Unattended(j) => \/ Submitting(j)
                         \/ "FLEET_LEFT_RUNNING" \in errors[j]
                         \/ lost[j] \/ crashes > 0 \/ ~program[j]

\* A fleet is on its row as soon as the submit that created it is over; only a
\* create that was lost hides it, and then only until a submit finds it again
\* (FleetsJobSubmitter.submit, FleetHandler.submit_job).
FleetsAreRecorded ==
    \A j \in Jobs : fleet[j] # "none" /\ ~fleetId[j] => Submitting(j) \/ lost[j]

\* While the scheduler does not crash, the jobs that hold capacity never
\* exceed LIMITS_MAX_FLEETS, although stop requests move rows between the
\* count and the submits (ScheduleFleetsJobs._schedule_fleets_jobs).
SlotsRespected == crashes = 0 => Cardinality(Running) <= LIMITS_MAX_FLEETS

\* While the scheduler does not crash, a fleet is only created while the row
\* still holds the env_vars the user submitted (FleetsJobSubmitter.submit
\* clears them after a create and before it fails a refused job).
CreatedWithEnvVars ==
    [][\A j \in Jobs : crashes = 0 /\ fleet[j] = "none" /\ fleet'[j] # "none" => envKept[j]]_vars

\* The scheduler loop never stops, and time passes.
FairSpec ==
    /\ Spec
    /\ WF_vars(SchedulerStep)
    /\ \A j \in Jobs : WF_vars(TimePasses(j))

\* Every STOPPING job ends, even if Code Engine never confirms the cancel
\* (confirm_stop and its deadline), also across a crash of the scheduler.
StoppingEnds == \A j \in Jobs : status[j] = "STOPPING" ~> Terminal(j)

-----------------------------------------------------------------------------
(* What the repository says of the program, and the code does not do. *)

\* specs/OUTBOX.md:179: the final usage event "is always built on an eligible
\* terminal transition, whatever the outcome: even a job cancelled while still
\* queued gets one".  The STOPPED that stop() writes itself enqueues none.
UsageOwed == \A j \in Billable : Terminal(j) => outbox[j]["JOB_USAGE"] = 1

=============================================================================
