----------------------------- MODULE MCScheduler -----------------------------
(***************************************************************************)
(* How fleets are shared out, cleaned up and used by a job, on small       *)
(* instances, each from its own initial state: these parts do not          *)
(* interact, and are areas of one run.                                     *)
(***************************************************************************)
EXTENDS Capacity, FleetCleanup, JobWrapper, TLC

VARIABLE area   \* which part the behaviour is about
allVars == <<wrapperVars, capacityVars, cleanupVars, area>>

Areas == {"wrapper", "capacity", "cleanup"}

SomeLines == <<"[PUBLIC]", "[PUBLIC]", "", "[PUBLIC]", "[PRIVATE]">>

Filler(runner, disabled, project, profile) ==
    [runner |-> runner, disabled |-> disabled, project |-> project, profile |-> profile]
FillerFunctions == "f1" :> Filler("fleets", FALSE, "active", "warm") @@ "f2" :> Filler("fleets", FALSE, "active", "cold")
Setting(maintenance, on, slots, function, rows) ==
    [maintenance |-> maintenance, enabled |-> on, slots |-> slots, function |-> function, functions |-> rows]
SomeSettings == {Setting(TRUE, TRUE, 1, "f1", FillerFunctions), Setting(FALSE, FALSE, 1, "f1", FillerFunctions),
                 Setting(FALSE, TRUE, 1, "f1", FillerFunctions), Setting(FALSE, TRUE, 1, "f2", FillerFunctions),
                 Setting(FALSE, TRUE, 1, "f1", "f1" :> Filler("fleets", TRUE, "active", "warm"))}

InProject == <<"p", "p", "q", "p">>
InRegions == <<"west", "east", "east", "east">>

AnyInit ==
    /\ area \in Areas
    /\ WrapperInit /\ (area # "wrapper" => kind = "custom")
    /\ CapacityInit({Setting(FALSE, TRUE, 1, "f1", FillerFunctions)})
    /\ CleanupInit

AnyNext ==
    \/ area = "wrapper" /\ WrapperNext /\ UNCHANGED <<capacityVars, cleanupVars, area>>
    \/ area = "capacity" /\ CapacityNext /\ UNCHANGED <<wrapperVars, cleanupVars, area>>
    \/ area = "cleanup" /\ CleanupNext /\ UNCHANGED <<wrapperVars, capacityVars, area>>

\* The scheduler ticks, a breaker's pause ends, and the fleet of a job of a user or of a stopped one comes to an end.
CapacityFairness ==
    /\ WF_capacityVars(area = "capacity" /\ TickSteps) /\ WF_capacityVars(area = "capacity" /\ BreakerCloses)
    /\ \A id \in 1..MaxRows : SF_capacityVars(area = "capacity" /\ PollEnds(id))

\* The scheduler goes on with the cycle it began, and time ends the pause of a breaker.
CleanupFairness ==
    /\ WF_cleanupVars(area = "cleanup" /\ CycleSteps)
    /\ \A r \in FleetRegions : SF_cleanupVars(area = "cleanup" /\ CleanupPauseEnds(r))

\* Both threads of the wrapper are scheduled, and the user process ends (the platform kills it at the latest).
ContainerFairness ==
    /\ WF_wrapperVars(area = "wrapper" /\ MainNext) /\ WF_wrapperVars(area = "wrapper" /\ UploadNext)
    /\ WF_wrapperVars(area = "wrapper" /\ EmitLine) /\ WF_wrapperVars(area = "wrapper" /\ UserEnds)

\* Nothing waits for ever: the fillers yield, the users' jobs start and the old fleets are deleted.
FleetsMove == FillersYield /\ QueuedJobsStart /\ OldFleetsGo

AnySpec == AnyInit /\ [][AnyNext]_allVars /\ CapacityFairness /\ CleanupFairness /\ ContainerFairness
=============================================================================
