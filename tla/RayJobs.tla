------------------------------- MODULE RayJobs -------------------------------
(***************************************************************************)
(* The jobs of the Ray runner.  On every tick the scheduler submits queued *)
(* jobs, each to a cluster of its own (ScheduleRayJobs, execute_ray_job,   *)
(* RayRunner.submit), asks Ray for the status of the running ones          *)
(* (UpdateRayJobsStatuses) and deletes the clusters of the jobs that ended *)
(* (FreeRayResources), while requests to the gateway stop jobs             *)
(* (StopJobUseCase).                                                       *)
(*                                                                         *)
(* The scheduler writes statuses with Job.save_direct, without looking at  *)
(* the row, from a copy it read at the beginning of the pass; the request  *)
(* writes its own through JobTransitionService.  Every call to Kubernetes, *)
(* to Ray and to the database is a step, so the requests and the end of    *)
(* the process may come between any two.  A kill signal ends a pass        *)
(* between two jobs and is a Crash taken there.                            *)
(***************************************************************************)
EXTENDS JobStatuses, Integers, Sequences, FiniteSets

CONSTANTS Jobs,         \* rows with runner=ray, of one kind (CPU or GPU)
          MaxClusters,  \* LIMITS_MAX_CLUSTERS
          NoDelete,     \* RAY_CLUSTER_NO_DELETE_ON_COMPLETE
          MaxStops,     \* bound on the requests to stop a job
          MaxFaults     \* bound on failures and crashes

ASSUME RayAssumption ==
    /\ MaxClusters \in Nat \ {0} /\ NoDelete \in BOOLEAN /\ {MaxStops, MaxFaults} \subseteq Nat
    /\ IsFiniteSet(Jobs)

\* A cluster is named after its job and a fresh suffix: the number of the attempt.
Clusters == Jobs \X (1..(MaxFaults + 1))
NoCluster == <<>>
NoJob == 0
RayStatuses == {"none", "PENDING", "STARVED", "RUNNING", "STOPPED", "SUCCEEDED", "FAILED"}

VARIABLES
    \* the database
    status,          \* Job.status
    ran,             \* jobs with a RUNNING event, the start of their time limit
    resource,        \* Job.compute_resource
    rows,            \* ComputeResource rows: "active", "inactive" or "none"
    \* Kubernetes and Ray
    clusters,        \* the clusters that exist
    ray,             \* status of the Ray job on each cluster; STARVED: pending, with no node to run on
    attempts,        \* clusters ever created for each job
    \* the scheduler
    pc, todo, cur,   \* jobs left in the pass, and the one at hand
    copy,            \* status and compute_resource as the pass read them
    new,             \* the status about to be written
    hand,            \* cluster of the submit in progress
    \* requests to stop: where each is, and the copy it read
    stopAt, stopCopy, stops,
    faults

dbVars == <<status, ran, resource, rows>>
rayVars == <<clusters, ray, attempts>>
passVars == <<pc, todo, cur, copy, new, hand>>
stopVars == <<stopAt, stopCopy, stops>>
vars == <<dbVars, rayVars, passVars, stopVars, faults>>

Rows == {c \in Clusters : rows[c] = "active"}
Reads == [status : Statuses, resource : Clusters \cup {NoCluster}]

\* Type correctness of the rows, the clusters and the locals of the pass.
TypeOK ==
    /\ status \in [Jobs -> Statuses] /\ ran \subseteq Jobs
    /\ resource \in [Jobs -> Clusters \cup {NoCluster}]
    /\ rows \in [Clusters -> {"none", "active", "inactive"}]
    /\ clusters \subseteq Clusters /\ ray \in [Clusters -> RayStatuses]
    /\ attempts \in [Jobs -> 0..(MaxFaults + 1)]
    /\ pc \in {"submit", "send", "save_resource", "save_job", "submit_event",
               "ask", "act", "starved", "delete", "write", "update_event", "free"}
    /\ todo \subseteq Jobs /\ cur \in Jobs \cup {NoJob} /\ copy \in [Jobs -> Reads]
    /\ new \in Statuses /\ hand \in Clusters \cup {NoCluster}
    /\ stopAt \in [Jobs -> {"none", "write", "ray"}] /\ stopCopy \in [Jobs -> Reads] /\ stops \in 0..MaxStops
    /\ faults \in 0..MaxFaults

Row(j) == [status |-> status[j], resource |-> resource[j]]
NoRead == [status |-> "QUEUED", resource |-> NoCluster]
ReadRows(js) == [j \in Jobs |-> IF j \in js THEN Row(j) ELSE NoRead]

Init ==
    /\ status = [j \in Jobs |-> "QUEUED"] /\ ran = {}
    /\ resource = [j \in Jobs |-> NoCluster] /\ rows = [c \in Clusters |-> "none"]
    /\ clusters = {} /\ ray = [c \in Clusters |-> "none"] /\ attempts = [j \in Jobs |-> 0]
    /\ pc = "free" /\ todo = {} /\ cur = NoJob
    /\ copy = ReadRows({}) /\ new = "QUEUED" /\ hand = NoCluster
    /\ stopAt = [j \in Jobs |-> "none"] /\ stopCopy = ReadRows({}) /\ stops = 0
    /\ faults = 0

\* Nothing more to do with the job at hand.
Done(next) == pc' = next /\ cur' = NoJob /\ new' = "QUEUED" /\ copy' = [copy EXCEPT ![cur] = NoRead]

Fault == faults < MaxFaults /\ faults' = faults + 1

\* _kill_ray_cluster: deleted, or already gone; or the call fails, which is logged as an orphan.
Kill(c) ==
    \/ clusters' = clusters \ {c} /\ ray' = [ray EXCEPT ![c] = "none"] /\ UNCHANGED faults
    \/ Fault /\ UNCHANGED <<clusters, ray>>
-----------------------------------------------------------------------------
(* ScheduleRayJobs *)

\* Mutant: the jobs of a pass are not limited by the clusters that are up.
AllSlots == MaxClusters

FreeSlots == MaxClusters - Cardinality(Rows)

\* The queued jobs that fit into the free slots; in maintenance, none.
StartSchedule ==
    /\ pc = "free" /\ todo = {}
    /\ \E s \in SUBSET {j \in Jobs : status[j] = "QUEUED"} :
          /\ s # {} => Cardinality(s) <= FreeSlots
          /\ todo' = s
    /\ copy' = ReadRows(todo')
    /\ pc' = "submit"
    /\ UNCHANGED <<dbVars, rayVars, cur, new, hand, stopVars, faults>>

\* _create_k8s_cluster creates the cluster; a call that fails leaves the job FAILED.
CreateCluster ==
    /\ pc = "submit" /\ todo # {}
    /\ \E j \in todo :
          /\ cur' = j /\ todo' = todo \ {j}
          /\ \/ /\ hand' = <<j, attempts[j] + 1>>
                /\ attempts' = [attempts EXCEPT ![j] = @ + 1]
                /\ clusters' = clusters \cup {hand'}
                /\ pc' = "send"
                /\ UNCHANGED <<new, faults>>
             \/ /\ Fault
                /\ new' = "FAILED" /\ pc' = "save_job"
                /\ UNCHANGED <<hand, attempts, clusters>>
    /\ UNCHANGED <<dbVars, ray, copy, stopVars>>

\* Mutant: the cluster of a submit that failed is left behind.
LeavesCluster ==
    /\ UNCHANGED <<clusters, ray, faults>>
    /\ new' = "FAILED" /\ hand' = NoCluster /\ pc' = "save_job"

\* The submit fails after the cluster exists: it is deleted again, and the job fails.
AbandonCluster ==
    /\ Kill(hand)
    /\ new' = "FAILED" /\ hand' = NoCluster /\ pc' = "save_job"

\* The head node is ready in time and takes the job (_submit_to_ray), or one of the two fails.
SubmitToRay ==
    /\ pc = "send"
    /\ \/ /\ ray' = [ray EXCEPT ![hand] = "PENDING"]
          /\ new' = "PENDING" /\ pc' = "save_resource"
          /\ UNCHANGED <<clusters, hand, faults>>
       \/ AbandonCluster
    /\ UNCHANGED <<dbVars, attempts, todo, cur, copy, stopVars>>

\* execute_ray_job saves the ComputeResource, before the job refers to it.
SaveResource ==
    /\ pc = "save_resource"
    /\ rows' = [rows EXCEPT ![hand] = "active"]
    /\ pc' = "save_job"
    /\ UNCHANGED <<status, ran, resource, rayVars, todo, cur, copy, new, hand, stopVars, faults>>

\* save_direct: the status, the Ray job and the resource, whatever the row says by now ...
SaveJob ==
    /\ pc = "save_job"
    /\ status' = [status EXCEPT ![cur] = new]
    /\ resource' = [resource EXCEPT ![cur] = hand]
    /\ hand' = NoCluster
    /\ pc' = "submit_event"
    /\ UNCHANGED <<ran, rows, rayVars, todo, cur, copy, new, stopVars, faults>>

\* ... and its event, in a write of its own.
AddEvent(next) ==
    /\ ran' = IF new = "RUNNING" THEN ran \cup {cur} ELSE ran
    /\ Done(next)
    /\ UNCHANGED <<status, resource, rows, rayVars, todo, hand, stopVars, faults>>
SubmitEvent == pc = "submit_event" /\ AddEvent("submit")

-----------------------------------------------------------------------------
(* UpdateRayJobsStatuses *)

\* Mutant: the pass reads every row.
ReadsAll == Jobs

ToUpdate == {j \in Jobs : status[j] \in RUNNING_STATUSES}

ReadRunning ==
    /\ pc = "submit" /\ todo = {}
    /\ todo' = ToUpdate
    /\ copy' = ReadRows(todo')
    /\ pc' = "ask"
    /\ UNCHANGED <<dbVars, rayVars, cur, new, hand, stopVars, faults>>

\* Mutant: a stopped Ray job is taken for one that runs.
StoppedRuns(c) == IF ray[c] = "STARVED" THEN "PENDING" ELSE IF ray[c] = "STOPPED" THEN "RUNNING" ELSE ray[c]

\* _map_status
Reported(c) == IF ray[c] = "STARVED" THEN "PENDING" ELSE ray[c]

\* runner.status(): a job without a resource is skipped; no answer makes the job FAILED at once.
AskStatus ==
    /\ pc = "ask" /\ todo # {}
    /\ \E j \in todo :
          /\ todo' = todo \ {j}
          /\ LET c == copy[j].resource
             IN  \/ /\ c = NoCluster
                    /\ UNCHANGED <<pc, cur, new, faults>>
                 \/ /\ c # NoCluster /\ cur' = j /\ c \notin clusters
                    /\ new' = "FAILED" /\ pc' = "write"
                    /\ UNCHANGED faults
                 \/ /\ c # NoCluster /\ cur' = j /\ Fault
                    /\ new' = "FAILED" /\ pc' = "write"
                 \/ /\ c # NoCluster /\ cur' = j /\ c \in clusters
                    /\ new' \in {Reported(c)} \cup (IF j \in ran THEN {"STOPPED"} ELSE {})
                    /\ pc' = "act"
                    /\ UNCHANGED faults
    /\ UNCHANGED <<dbVars, rayVars, copy, hand, stopVars>>

\* The logs are fetched and, at the end of the job, stored; they may tell that no node can run it.  A
\* failure to store them skips the job in this pass.
ReadLogs ==
    /\ pc = "act"
    /\ LET changed == new # copy[cur].status
           starved == ray[copy[cur].resource] = "STARVED"
       IN  \/ /\ starved
              /\ pc' = IF NoDelete THEN "write" ELSE "starved"
              /\ new' = "FAILED"
              /\ UNCHANGED <<cur, copy, faults>>
           \/ /\ ~starved /\ changed
              /\ pc' = "write"
              /\ UNCHANGED <<cur, copy, new, faults>>
           \/ ~starved /\ ~changed /\ Done("ask") /\ UNCHANGED faults
           \/ changed /\ new \in TERMINAL_STATUSES /\ Fault /\ Done("ask")
    /\ UNCHANGED <<dbVars, rayVars, todo, hand, stopVars>>

\* fail_job_insufficient_resources: the cluster is deleted, and its row whether or not that worked.
KillStarved ==
    /\ pc = "starved"
    /\ Kill(copy[cur].resource)
    /\ pc' = "delete"
    /\ UNCHANGED <<dbVars, attempts, todo, cur, copy, new, hand, stopVars>>

DeleteResource ==
    /\ pc = "delete"
    /\ rows' = [rows EXCEPT ![copy[cur].resource] = "none"]
    /\ resource' = [j \in Jobs |-> IF resource[j] = copy[cur].resource THEN NoCluster ELSE resource[j]]
    /\ pc' = "write"
    /\ UNCHANGED <<status, ran, rayVars, todo, cur, copy, new, hand, stopVars, faults>>

WriteStatus ==
    /\ pc = "write"
    /\ status' = [status EXCEPT ![cur] = new]
    /\ pc' = "update_event"
    /\ UNCHANGED <<ran, resource, rows, rayVars, todo, cur, copy, new, hand, stopVars, faults>>
UpdateEvent == pc = "update_event" /\ AddEvent("ask")

-----------------------------------------------------------------------------
(* FreeRayResources *)

\* Mutant: the clusters of failed jobs are not looked for.
KeepsFailed == {j \in Jobs : status[j] \in {"SUCCEEDED", "STOPPED"} /\ resource[j] \in Rows}

ToFree == {j \in Jobs : status[j] \in TERMINAL_STATUSES /\ resource[j] \in Rows}

ReadToFree ==
    /\ pc = "ask" /\ todo = {}
    /\ todo' = ToFree
    /\ copy' = ReadRows(todo')
    /\ pc' = "free"
    /\ UNCHANGED <<dbVars, rayVars, cur, new, hand, stopVars, faults>>



\* free_resources, and active=False when it worked.
FreeCluster(c) ==
    /\ Kill(c)
    /\ rows' = IF c \in clusters' THEN rows ELSE [rows EXCEPT ![c] = "inactive"]

FreeJob ==
    /\ pc = "free" /\ todo # {}
    /\ \E j \in todo :
          /\ todo' = todo \ {j}
          /\ copy' = [copy EXCEPT ![j] = NoRead]
          /\ FreeCluster(copy[j].resource)
    /\ UNCHANGED <<status, ran, resource, attempts, pc, cur, new, hand, stopVars>>

\* The process ends anywhere, or a write fails and the rest of the task is given up: the scheduler
\* starts from the first task, with nothing in memory.
Crash ==
    /\ Fault
    /\ pc' = "free" /\ todo' = {} /\ hand' = NoCluster
    /\ cur' = NoJob /\ new' = "QUEUED" /\ copy' = ReadRows({})
    /\ UNCHANGED <<dbVars, rayVars, stopVars>>
-----------------------------------------------------------------------------
(* Ray, and the requests to stop a job *)

\* The Ray job of a cluster moves on by itself.
RayMoves(c) ==
    /\ c \in clusters
    /\ \/ ray[c] = "PENDING" /\ \E s \in {"RUNNING", "STARVED", "FAILED"} : ray' = [ray EXCEPT ![c] = s]
       \/ ray[c] = "RUNNING" /\ \E s \in {"SUCCEEDED", "FAILED"} : ray' = [ray EXCEPT ![c] = s]
    /\ UNCHANGED <<dbVars, clusters, attempts, passVars, stopVars, faults>>

\* StopJobUseCase.execute reads the job; a job that ended is left alone.
StopReads(j) ==
    /\ stopAt[j] = "none" /\ stops < MaxStops
    /\ status[j] \notin TERMINAL_STATUSES
    /\ stopCopy' = [stopCopy EXCEPT ![j] = Row(j)]
    /\ stopAt' = [stopAt EXCEPT ![j] = "write"]
    /\ stops' = stops + 1
    /\ UNCHANGED <<dbVars, rayVars, passVars, faults>>

\* to_stopped, validated under the lock of the row; a job that ended meanwhile ends the request
\* unless it was stopped.
StopWrites(j) ==
    /\ stopAt[j] = "write"
    /\ \/ /\ "STOPPED" \in VALID_TRANSITIONS[status[j]]
          /\ status' = [status EXCEPT ![j] = "STOPPED"]
          /\ stopAt' = [stopAt EXCEPT ![j] = "ray"]
       \/ /\ "STOPPED" \notin VALID_TRANSITIONS[status[j]]
          /\ stopAt' = [stopAt EXCEPT ![j] = IF status[j] = "STOPPED" THEN "ray" ELSE "none"]
          /\ UNCHANGED status
    /\ UNCHANGED <<ran, resource, rows, rayVars, passVars, stopCopy, stops, faults>>

\* _stop_ray_job_if_active, with the compute_resource read at the beginning; Ray may be out of reach.
StopsRay(j) ==
    /\ stopAt[j] = "ray"
    /\ LET c == stopCopy[j].resource
       IN  \/ /\ c # NoCluster /\ c \in clusters
              /\ ray' = IF ray[c] \in {"PENDING", "STARVED", "RUNNING"} THEN [ray EXCEPT ![c] = "STOPPED"] ELSE ray
              /\ UNCHANGED faults
           \/ /\ c = NoCluster \/ c \notin clusters
              /\ UNCHANGED <<ray, faults>>
           \/ c # NoCluster /\ Fault /\ UNCHANGED ray
    /\ stopAt' = [stopAt EXCEPT ![j] = "none"] /\ stopCopy' = [stopCopy EXCEPT ![j] = NoRead]
    /\ UNCHANGED <<dbVars, clusters, attempts, passVars, stops>>

SchedulerNext ==
    \/ StartSchedule \/ CreateCluster \/ SubmitToRay \/ SaveResource \/ SaveJob \/ SubmitEvent
    \/ ReadRunning \/ AskStatus \/ ReadLogs \/ KillStarved \/ DeleteResource \/ WriteStatus \/ UpdateEvent
    \/ ReadToFree \/ FreeJob

Next ==
    \/ SchedulerNext \/ Crash
    \/ \E c \in Clusters : RayMoves(c)
    \/ \E j \in Jobs : StopReads(j) \/ StopWrites(j) \/ StopsRay(j)

\* The scheduler ticks forever and a job on Ray ends at some time.
Fairness == WF_vars(SchedulerNext) /\ \A c \in Clusters : WF_vars(RayMoves(c))
Spec == Init /\ [][Next]_vars /\ Fairness
-----------------------------------------------------------------------------
(* Properties *)

\* The clusters up never exceed the limit, with resubmissions after a crash, clusters that could not be
\* deleted and jobs stopped meanwhile (_schedule_jobs_if_slots_available counts the active rows).
ClustersWithinLimit == Cardinality(Rows) <= MaxClusters

\* A cluster that exists is in an active row or in the hands of the submit, unless a call failed or the
\* process died (submit, free_resources and fail_job_insufficient_resources): nothing else leaks one.
NoSilentLeak == faults = 0 => clusters \subseteq Rows \cup {hand}

\* A final status that was there when a pass read the row is not changed by it: what save_direct can
\* overwrite is only a stop that came after that read.
FinalWhenRead ==
    [][\A j \in Jobs : status[j] \in TERMINAL_STATUSES /\ status'[j] # status[j] =>
          j = cur /\ copy[j].status \notin TERMINAL_STATUSES]_vars

\* "Every status transition, everywhere in the codebase, goes through JobTransitionService": a final
\* status is never overwritten.
TerminalIsFinal ==
    [][\A j \in Jobs : status[j] \in TERMINAL_STATUSES => status'[j] = status[j]]_vars

\* The cluster of a job that ended is deleted in the end, unless the status was overwritten.
ClustersFreed ==
    \A j \in Jobs : status[j] \in TERMINAL_STATUSES /\ resource[j] \in Rows
                        ~> resource[j] \notin Rows \/ status[j] \notin TERMINAL_STATUSES

\* Every submitted job ends, except the one whose ComputeResource was deleted just before a crash
\* (fail_job_insufficient_resources): no pass looks at it again.
SubmittedEnds ==
    \A j \in Jobs : status[j] \in RUNNING_STATUSES ~> status[j] \in TERMINAL_STATUSES \/ resource[j] = NoCluster

\* Clusters are accounted for: no more than the limit, and none that only Kubernetes knows of.
ClustersAreAccounted == TypeOK /\ ClustersWithinLimit /\ NoSilentLeak

\* Every job that was submitted comes to an end and its cluster is given back.
RayJobsSettle == ClustersFreed /\ SubmittedEnds
=============================================================================
