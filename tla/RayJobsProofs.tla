---------------------------- MODULE RayJobsProofs ----------------------------
(***************************************************************************)
(* The clusters of the Ray runner are accounted for, and a pass of the     *)
(* scheduler changes no final status it has read, for every set of jobs,   *)
(* every limit and any number of failures and requests.                    *)
(***************************************************************************)
EXTENDS RayJobs, TLAPS

\* The steps at which a job is at hand, and the steps of the two passes that write
\* statuses.
Busy == {"send", "save_resource", "save_job", "submit_event", "act", "starved", "delete", "write", "update_event"}
Submits == {"submit", "send", "save_resource", "save_job", "submit_event"}
Holds == {"send", "save_resource", "save_job"}

\* Where a pass is: the job at hand is not one that is left, neither had ended
\* when it was read, and no job is queued again.
PassInv ==
    /\ pc \in Busy => cur \in Jobs /\ cur \notin todo /\ copy[cur].status \notin TERMINAL_STATUSES
    /\ pc # "free" => \A j \in todo : copy[j].status \notin TERMINAL_STATUSES
    /\ pc \in Busy \ {"send"} => new # "QUEUED"
    /\ pc \in {"act", "starved", "delete"} => copy[cur].resource \in Clusters

\* The cluster in hand is the last one of the job at hand.
HandInv ==
    /\ pc \notin Holds => hand = NoCluster
    /\ hand # NoCluster => hand = <<cur, attempts[cur]>>
    /\ pc \in {"send", "save_resource"} => hand # NoCluster

\* The jobs that are left in the pass, and the cluster in hand, fit under the limit.
SlotInv ==
    /\ Cardinality(Rows) <= MaxClusters
    /\ pc \in Submits =>
          Cardinality(Rows) + Cardinality(todo) + (IF pc \in {"send", "save_resource"} THEN 1 ELSE 0) <= MaxClusters

\* Only a failure queues a job for another cluster.
TryInv ==
    \A j \in Jobs :
        /\ attempts[j] <= faults + 1
        /\ pc \in Submits /\ j \in todo => attempts[j] <= faults
        /\ status[j] = "QUEUED" /\ ~(cur = j /\ pc \in Holds) => attempts[j] <= faults

\* A cluster that was not created yet, or that Ray was not given a job for.
Unsent(c) == c[2] > attempts[c[1]] \/ (c \in clusters /\ ray[c] = "none")

\* No row and no copy of one refers to such a cluster.
UnsentInv ==
    \A c \in Clusters : Unsent(c) =>
        /\ \A j \in Jobs : resource[j] # c /\ copy[j].resource # c
        /\ c = hand => pc = "send"

\* A row is made before the cluster leaves the hand, and deleted after the cluster.
LeakInv ==
    /\ faults = 0 => clusters \subseteq Rows \cup {hand}
    /\ pc = "save_job" /\ hand # NoCluster => rows[hand] = "active"
    /\ pc = "delete" /\ faults = 0 => copy[cur].resource \notin clusters

RayInv == TypeOK /\ PassInv /\ HandInv /\ SlotInv /\ TryInv /\ UnsentInv /\ LeakInv

-----------------------------------------------------------------------------
(* Types. *)

\* The constants as the provers need them.
LEMMA Constants == MaxClusters \in Nat /\ MaxFaults \in Nat /\ MaxStops \in Nat /\ NoDelete \in BOOLEAN
  BY RayAssumption

\* A cluster is its job and the number of the attempt, and no cluster is none.
LEMMA ClusterFacts ==
    /\ NoCluster \notin Clusters
    /\ \A c \in Clusters : c[1] \in Jobs /\ c[2] \in 1..(MaxFaults + 1) /\ c = <<c[1], c[2]>>
    /\ \A j \in Jobs, n \in 1..(MaxFaults + 1) : <<j, n>> \in Clusters
    /\ \A j, n : <<j, n>>[1] = j /\ <<j, n>>[2] = n /\ <<j, n>> # NoCluster
  BY DEF Clusters, NoCluster

\* The database, Ray, the pass and the requests, each with its types.
DbTypes ==
    /\ status \in [Jobs -> Statuses] /\ ran \subseteq Jobs
    /\ resource \in [Jobs -> Clusters \cup {NoCluster}]
    /\ rows \in [Clusters -> {"none", "active", "inactive"}]
RayTypes ==
    /\ clusters \subseteq Clusters /\ ray \in [Clusters -> RayStatuses]
    /\ attempts \in [Jobs -> 0..(MaxFaults + 1)]
Pcs == {"submit", "send", "save_resource", "save_job", "submit_event",
        "ask", "act", "starved", "delete", "write", "update_event", "free"}
PassTypes ==
    /\ pc \in Pcs
    /\ todo \subseteq Jobs /\ cur \in Jobs \cup {NoJob} /\ copy \in [Jobs -> Reads]
    /\ new \in Statuses /\ hand \in Clusters \cup {NoCluster}
StopTypes ==
    /\ stopAt \in [Jobs -> {"none", "write", "ray"}] /\ stopCopy \in [Jobs -> Reads] /\ stops \in 0..MaxStops
FaultTypes == faults \in 0..MaxFaults

\* The groups make up the type invariant.
LEMMA TypeGroups == TypeOK <=> DbTypes /\ RayTypes /\ PassTypes /\ StopTypes /\ FaultTypes
  BY DEF TypeOK, DbTypes, RayTypes, PassTypes, StopTypes, FaultTypes, Pcs

\* The same after a step.
LEMMA TypeGroupsAfter == TypeOK' <=> DbTypes' /\ RayTypes' /\ PassTypes' /\ StopTypes' /\ FaultTypes'
  BY DEF TypeOK, DbTypes, RayTypes, PassTypes, StopTypes, FaultTypes, Pcs

\* A row as it is read.
LEMMA ReadTypes ==
    ASSUME DbTypes
    PROVE  /\ NoRead \in Reads /\ NoRead.status = "QUEUED" /\ NoRead.resource = NoCluster
           /\ \A j \in Jobs : Row(j) \in Reads /\ Row(j).status = status[j] /\ Row(j).resource = resource[j]
           /\ \A js : /\ ReadRows(js) \in [Jobs -> Reads]
                      /\ \A j \in Jobs : ReadRows(js)[j] = IF j \in js THEN Row(j) ELSE NoRead
  <1>1. NoRead \in Reads /\ NoRead.status = "QUEUED" /\ NoRead.resource = NoCluster
    BY DEF NoRead, Reads, Statuses
  <1>2. \A j \in Jobs : Row(j) \in Reads /\ Row(j).status = status[j] /\ Row(j).resource = resource[j]
    BY DEF DbTypes, Row, Reads
  <1>3. \A js : /\ ReadRows(js) \in [Jobs -> Reads]
                /\ \A j \in Jobs : ReadRows(js)[j] = IF j \in js THEN Row(j) ELSE NoRead
    BY <1>1, <1>2 DEF ReadRows
  <1> QED
    BY <1>1, <1>2, <1>3

\* A failure is counted, up to the bound.
LEMMA FaultType == ASSUME FaultTypes, Fault \/ UNCHANGED faults PROVE FaultTypes' /\ faults' >= faults
  BY Constants DEF FaultTypes, Fault

\* A fault is counted.
LEMMA FaultCounts == ASSUME FaultTypes, Fault PROVE faults' = faults + 1 /\ faults' # 0 /\ faults \in Nat
  BY Constants DEF FaultTypes, Fault

\* Deleting a cluster only takes it away.
LEMMA KillTypes ==
    ASSUME RayTypes, FaultTypes, NEW c, Kill(c), UNCHANGED attempts
    PROVE  RayTypes' /\ FaultTypes' /\ faults' >= faults /\ clusters' \subseteq clusters
  <1>1. ray' \in [Clusters -> RayStatuses] /\ clusters' \subseteq clusters
    BY DEF Kill, RayTypes, RayStatuses
  <1> QED
    BY <1>1, FaultType DEF Kill, RayTypes

\* The end of the work on a job.
LEMMA DoneTypes ==
    ASSUME PassTypes, DbTypes, NEW n \in Pcs, Done(n), UNCHANGED <<todo, hand>>
    PROVE  PassTypes' /\ \A j \in Jobs : copy'[j] \in {copy[j], NoRead}
  <1>1. copy' \in [Jobs -> Reads] /\ \A j \in Jobs : copy'[j] \in {copy[j], NoRead}
    BY ZenonT(60), ReadTypes DEF Done, PassTypes
  <1> QED
    BY <1>1 DEF Done, PassTypes, Statuses, NoJob

\* Ray knows the job of a cluster that is up and that a row refers to.
LEMMA ReportedStatus ==
    ASSUME TypeOK, UnsentInv, NEW j \in Jobs, copy[j].resource \in clusters
    PROVE  Reported(copy[j].resource) \in Statuses \ {"QUEUED"}
  <1>1. copy[j].resource \in Clusters
    BY DEF TypeOK
  <1>2. ray[copy[j].resource] # "none"
    BY <1>1 DEF UnsentInv, Unsent
  <1>3. ray[copy[j].resource] \in RayStatuses
    BY <1>1 DEF TypeOK
  <1> QED
    BY <1>2, <1>3 DEF Reported, RayStatuses, Statuses

\* The status a pass has asked for.
LEMMA AskTypes ==
    ASSUME TypeOK, UnsentInv, AskStatus
    PROVE  /\ PassTypes' /\ FaultTypes' /\ faults' >= faults
           /\ pc' \in {"write", "act"} => new' # "QUEUED"
  <1> USE TypeGroups
  <1>1. PICK j \in todo :
           /\ todo' = todo \ {j}
           /\ \/ UNCHANGED <<pc, cur, new, faults>> /\ pc = "ask"
              \/ cur' = j /\ new' = "FAILED" /\ pc' = "write" /\ UNCHANGED faults
              \/ cur' = j /\ Fault /\ new' = "FAILED" /\ pc' = "write"
              \/ /\ cur' = j /\ copy[j].resource \in clusters
                 /\ new' \in {Reported(copy[j].resource), "STOPPED"}
                 /\ pc' = "act" /\ UNCHANGED faults
    BY DEF AskStatus
  <1>2. j \in Jobs /\ UNCHANGED <<copy, hand>>
    BY DEF AskStatus, PassTypes
  <1>3. new' \in Statuses /\ (pc' \in {"write", "act"} => new' # "QUEUED")
    BY <1>1, <1>2, ReportedStatus DEF PassTypes, Statuses
  <1>4. FaultTypes' /\ faults' >= faults
    BY <1>1, FaultType
  <1>5. pc' \in Pcs /\ cur' \in Jobs \cup {NoJob} /\ todo' \subseteq Jobs
    BY <1>1, <1>2 DEF PassTypes, Pcs
  <1> QED
    BY <1>2, <1>3, <1>4, <1>5 DEF PassTypes

\* The next attempt is within the bound, and its cluster is a cluster.
LEMMA NextCluster ==
    ASSUME TypeOK, TryInv, pc = "submit", NEW j \in todo
    PROVE  /\ j \in Jobs /\ attempts[j] \in Nat /\ attempts[j] <= faults
           /\ attempts[j] + 1 \in 1..(MaxFaults + 1)
           /\ <<j, attempts[j] + 1>> \in Clusters
  <1>1. j \in Jobs /\ attempts[j] \in Nat /\ attempts[j] <= faults /\ faults \in 0..MaxFaults
    BY DEF TypeOK, TryInv, Submits
  <1>2. attempts[j] + 1 \in 1..(MaxFaults + 1)
    BY <1>1, Constants
  <1> QED
    BY <1>1, <1>2, ClusterFacts

\* Every step of the scheduler keeps the types.
LEMMA SchedulerTypes ==
    ASSUME TypeOK, PassInv, TryInv, UnsentInv, SchedulerNext \/ Crash
    PROVE  TypeOK'
  <1>0. DbTypes /\ RayTypes /\ PassTypes /\ StopTypes /\ FaultTypes
    BY TypeGroups
  <1>1. CASE StartSchedule \/ ReadRunning \/ ReadToFree
    <2>1. todo' \subseteq Jobs /\ pc' \in Pcs
      BY <1>0, <1>1 DEF StartSchedule, ReadRunning, ReadToFree, ToUpdate, ToFree, PassTypes, Pcs
    <2>2. copy' \in [Jobs -> Reads]
      BY <1>0, <1>1, ReadTypes DEF StartSchedule, ReadRunning, ReadToFree
    <2>3. UNCHANGED <<dbVars, rayVars, cur, new, hand, stopVars, faults>>
      BY <1>1 DEF StartSchedule, ReadRunning, ReadToFree
    <2>4. PassTypes'
      BY <1>0, <2>1, <2>2, <2>3 DEF PassTypes
    <2>5. DbTypes' /\ RayTypes' /\ StopTypes' /\ FaultTypes'
      BY <1>0, <2>3 DEF DbTypes, RayTypes, StopTypes, FaultTypes, dbVars, rayVars, stopVars
    <2> QED
      BY <2>4, <2>5, TypeGroupsAfter
  <1>2. CASE CreateCluster
    <2>1. PICK j \in todo :
             /\ cur' = j /\ todo' = todo \ {j}
             /\ \/ /\ hand' = <<j, attempts[j] + 1>>
                   /\ attempts' = [attempts EXCEPT ![j] = attempts[j] + 1]
                   /\ clusters' = clusters \cup {hand'}
                   /\ pc' = "send" /\ UNCHANGED <<new, faults>>
                \/ Fault /\ new' = "FAILED" /\ pc' = "save_job" /\ UNCHANGED <<hand, attempts, clusters>>
      BY ZenonT(60), <1>2 DEF CreateCluster
    <2>2. UNCHANGED <<dbVars, ray, copy, stopVars>> /\ pc = "submit"
      BY <1>2 DEF CreateCluster
    <2>3. j \in Jobs /\ attempts[j] + 1 \in 0..(MaxFaults + 1) /\ <<j, attempts[j] + 1>> \in Clusters
      BY <2>2, NextCluster, Constants
    <2>4. PassTypes'
      BY <1>0, <2>1, <2>2, <2>3 DEF PassTypes, Pcs, Statuses
    <2>5. RayTypes'
      BY <1>0, <2>1, <2>2, <2>3 DEF RayTypes
    <2>6. FaultTypes'
      BY <1>0, <2>1, FaultType
    <2>7. DbTypes' /\ StopTypes'
      BY <1>0, <2>2 DEF DbTypes, StopTypes, dbVars, stopVars
    <2> QED
      BY <2>4, <2>5, <2>6, <2>7, TypeGroupsAfter
  <1>3. CASE SubmitToRay
    <2>1. UNCHANGED <<dbVars, attempts, todo, cur, copy, stopVars>>
      BY <1>3 DEF SubmitToRay
    <2>2. /\ new' \in {"PENDING", "FAILED"} /\ pc' \in {"save_resource", "save_job"}
          /\ hand' \in {hand, NoCluster}
      BY <1>3 DEF SubmitToRay, AbandonCluster
    <2>3. PassTypes'
      BY <1>0, <2>1, <2>2 DEF PassTypes, Pcs, Statuses
    <2>4. ASSUME Kill(hand) PROVE RayTypes' /\ FaultTypes'
      BY <1>0, <2>1, <2>4, KillTypes
    <2>5. ASSUME ray' = [ray EXCEPT ![hand] = "PENDING"], UNCHANGED <<clusters, faults>>
          PROVE  RayTypes' /\ FaultTypes'
      BY ZenonT(60), <1>0, <2>1, <2>5 DEF RayTypes, RayStatuses, FaultTypes
    <2>6. RayTypes' /\ FaultTypes'
      BY <1>3, <2>4, <2>5 DEF SubmitToRay, AbandonCluster
    <2>7. DbTypes' /\ StopTypes'
      BY <1>0, <2>1 DEF DbTypes, StopTypes, dbVars, stopVars
    <2> QED
      BY <2>3, <2>6, <2>7, TypeGroupsAfter
  <1>4. CASE SaveResource
    <2>1. UNCHANGED <<status, ran, resource, rayVars, todo, cur, copy, new, hand, stopVars, faults>> /\ pc' = "save_job"
      BY <1>4 DEF SaveResource
    <2>2. DbTypes'
      BY ZenonT(60), <1>0, <1>4, <2>1 DEF DbTypes, SaveResource
    <2>3. PassTypes' /\ RayTypes' /\ StopTypes' /\ FaultTypes'
      BY <1>0, <2>1 DEF PassTypes, RayTypes, StopTypes, FaultTypes, rayVars, stopVars, Pcs
    <2> QED
      BY <2>2, <2>3, TypeGroupsAfter
  <1>5. CASE SaveJob
    <2>1. UNCHANGED <<ran, rows, rayVars, todo, cur, copy, new, stopVars, faults>> /\ pc' = "submit_event" /\ hand' = NoCluster
      BY <1>5 DEF SaveJob
    <2>2. status' \in [Jobs -> Statuses]
      BY ZenonT(60), <1>0, <1>5 DEF DbTypes, PassTypes, SaveJob
    <2>3. resource' \in [Jobs -> Clusters \cup {NoCluster}]
      BY ZenonT(60), <1>0, <1>5 DEF DbTypes, PassTypes, SaveJob
    <2>4. DbTypes'
      BY <1>0, <2>1, <2>2, <2>3 DEF DbTypes
    <2>5. PassTypes' /\ RayTypes' /\ StopTypes' /\ FaultTypes'
      BY <1>0, <2>1 DEF PassTypes, RayTypes, StopTypes, FaultTypes, rayVars, stopVars, Pcs
    <2> QED
      BY <2>4, <2>5, TypeGroupsAfter
  <1>6. CASE SubmitEvent \/ UpdateEvent
    <2>1. PICK n \in {"submit", "ask"} : AddEvent(n) /\ pc \in {"submit_event", "update_event"}
      BY <1>6 DEF SubmitEvent, UpdateEvent
    <2>2. UNCHANGED <<status, resource, rows, rayVars, todo, hand, stopVars, faults>> /\ Done(n)
      BY <2>1 DEF AddEvent
    <2>3. PassTypes'
      BY <1>0, <2>2, DoneTypes DEF Pcs
    <2>4. ran' \subseteq Jobs
      <3>1. cur \in Jobs
        BY <2>1 DEF PassInv, Busy
      <3> QED
        BY <1>0, <2>1, <3>1 DEF AddEvent, DbTypes
    <2>5. DbTypes' /\ RayTypes' /\ StopTypes' /\ FaultTypes'
      BY <1>0, <2>2, <2>4 DEF DbTypes, RayTypes, StopTypes, FaultTypes, rayVars, stopVars
    <2> QED
      BY <2>3, <2>5, TypeGroupsAfter
  <1>7. CASE AskStatus
    <2>1. PassTypes' /\ FaultTypes'
      BY <1>7, AskTypes
    <2>2. DbTypes' /\ RayTypes' /\ StopTypes'
      BY <1>0, <1>7 DEF AskStatus, DbTypes, RayTypes, StopTypes, dbVars, rayVars, stopVars
    <2> QED
      BY <2>1, <2>2, TypeGroupsAfter
  <1>8. CASE ReadLogs
    <2>1. UNCHANGED <<dbVars, rayVars, todo, hand, stopVars>>
      BY <1>8 DEF ReadLogs
    <2>2. \/ pc' \in {"write", "starved"} /\ new' \in {new, "FAILED"} /\ UNCHANGED <<cur, copy, faults>>
          \/ Done("ask") /\ (Fault \/ UNCHANGED faults)
      BY <1>8 DEF ReadLogs
    <2>3. PassTypes'
      BY <1>0, <2>1, <2>2, DoneTypes DEF PassTypes, Pcs, Statuses
    <2>4. FaultTypes'
      BY <1>0, <2>2, FaultType
    <2>5. DbTypes' /\ RayTypes' /\ StopTypes'
      BY <1>0, <2>1 DEF DbTypes, RayTypes, StopTypes, dbVars, rayVars, stopVars
    <2> QED
      BY <2>3, <2>4, <2>5, TypeGroupsAfter
  <1>9. CASE KillStarved
    <2>1. UNCHANGED <<dbVars, attempts, todo, cur, copy, new, hand, stopVars>> /\ pc' = "delete" /\ Kill(copy[cur].resource)
      BY <1>9 DEF KillStarved
    <2>2. RayTypes' /\ FaultTypes'
      BY <1>0, <2>1, KillTypes
    <2>3. DbTypes' /\ PassTypes' /\ StopTypes'
      BY <1>0, <2>1 DEF DbTypes, PassTypes, StopTypes, dbVars, stopVars, Pcs
    <2> QED
      BY <2>2, <2>3, TypeGroupsAfter
  <1>10. CASE DeleteResource
    <2>1. UNCHANGED <<status, ran, rayVars, todo, cur, copy, new, hand, stopVars, faults>> /\ pc' = "write"
      BY <1>10 DEF DeleteResource
    <2>2. rows' \in [Clusters -> {"none", "active", "inactive"}]
      BY ZenonT(60), <1>0, <1>10 DEF DbTypes, DeleteResource
    <2>3. resource' \in [Jobs -> Clusters \cup {NoCluster}]
      BY <1>0, <1>10 DEF DbTypes, DeleteResource
    <2>4. DbTypes'
      BY <1>0, <2>1, <2>2, <2>3 DEF DbTypes
    <2>5. PassTypes' /\ RayTypes' /\ StopTypes' /\ FaultTypes'
      BY <1>0, <2>1 DEF PassTypes, RayTypes, StopTypes, FaultTypes, rayVars, stopVars, Pcs
    <2> QED
      BY <2>4, <2>5, TypeGroupsAfter
  <1>11. CASE WriteStatus
    <2>1. UNCHANGED <<ran, resource, rows, rayVars, todo, cur, copy, new, hand, stopVars, faults>> /\ pc' = "update_event"
      BY <1>11 DEF WriteStatus
    <2>2. status' \in [Jobs -> Statuses]
      BY ZenonT(60), <1>0, <1>11 DEF DbTypes, PassTypes, WriteStatus
    <2>3. DbTypes'
      BY <1>0, <2>1, <2>2 DEF DbTypes
    <2>4. PassTypes' /\ RayTypes' /\ StopTypes' /\ FaultTypes'
      BY <1>0, <2>1 DEF PassTypes, RayTypes, StopTypes, FaultTypes, rayVars, stopVars, Pcs
    <2> QED
      BY <2>3, <2>4, TypeGroupsAfter
  <1>12. CASE FreeJob
    <2>1. UNCHANGED <<status, ran, resource, attempts, pc, cur, new, hand, stopVars>>
      BY <1>12 DEF FreeJob
    <2>2. PICK j \in todo : todo' = todo \ {j} /\ copy' = [copy EXCEPT ![j] = NoRead] /\ FreeCluster(copy[j].resource)
      BY ZenonT(60), <1>12 DEF FreeJob
    <2>3. copy' \in [Jobs -> Reads]
      BY <1>0, <2>2, ReadTypes DEF PassTypes
    <2>4. PassTypes'
      BY <1>0, <2>1, <2>2, <2>3 DEF PassTypes
    <2>5. rows' \in [Clusters -> {"none", "active", "inactive"}]
      BY ZenonT(60), <1>0, <2>2 DEF FreeCluster, DbTypes
    <2>6. RayTypes' /\ FaultTypes'
      BY <1>0, <2>1, <2>2, KillTypes DEF FreeCluster
    <2>7. DbTypes' /\ StopTypes'
      BY <1>0, <2>1, <2>5 DEF DbTypes, StopTypes, stopVars
    <2> QED
      BY <2>4, <2>6, <2>7, TypeGroupsAfter
  <1>13. CASE Crash
    <2>1. UNCHANGED <<dbVars, rayVars, stopVars>> /\ Fault
      BY <1>13 DEF Crash
    <2>2. PassTypes'
      BY <1>0, <1>13, ReadTypes DEF Crash, PassTypes, Pcs, Statuses, NoJob
    <2>3. FaultTypes'
      BY <1>0, <2>1, FaultType
    <2>4. DbTypes' /\ RayTypes' /\ StopTypes'
      BY <1>0, <2>1 DEF DbTypes, RayTypes, StopTypes, dbVars, rayVars, stopVars
    <2> QED
      BY <2>2, <2>3, <2>4, TypeGroupsAfter
  <1> QED
    BY <1>1, <1>2, <1>3, <1>4, <1>5, <1>6, <1>7, <1>8, <1>9, <1>10, <1>11, <1>12, <1>13 DEF SchedulerNext

\* Ray and the requests keep the types.
LEMMA OtherTypes ==
    ASSUME TypeOK,
           \/ \E c \in Clusters : RayMoves(c)
           \/ \E j \in Jobs : StopReads(j) \/ StopWrites(j) \/ StopsRay(j)
           \/ UNCHANGED vars
    PROVE  TypeOK'
  <1>0. DbTypes /\ RayTypes /\ PassTypes /\ StopTypes /\ FaultTypes
    BY TypeGroups
  <1>1. ASSUME NEW c \in Clusters, RayMoves(c) PROVE TypeOK'
    <2>1. UNCHANGED <<dbVars, clusters, attempts, passVars, stopVars, faults>>
      BY <1>1 DEF RayMoves
    <2>2. ray' \in [Clusters -> RayStatuses]
      BY <1>0, <1>1 DEF RayMoves, RayTypes, RayStatuses
    <2>3. DbTypes' /\ RayTypes' /\ StopTypes' /\ FaultTypes'
      BY <1>0, <2>1, <2>2 DEF DbTypes, RayTypes, StopTypes, FaultTypes, dbVars, stopVars
    <2>4. PassTypes'
      BY <1>0, <2>1 DEF PassTypes, passVars
    <2> QED
      BY <2>3, <2>4, TypeGroupsAfter
  <1>2. ASSUME NEW j \in Jobs, StopReads(j) PROVE TypeOK'
    <2>1. UNCHANGED <<dbVars, rayVars, passVars, faults>>
      BY <1>2 DEF StopReads
    <2>2. stopAt' \in [Jobs -> {"none", "write", "ray"}]
      BY <1>0, <1>2 DEF StopReads, StopTypes
    <2>3. stopCopy' \in [Jobs -> Reads]
      BY <1>0, <1>2, ReadTypes DEF StopReads, StopTypes
    <2>4. stops' \in 0..MaxStops
      BY <1>0, <1>2, Constants DEF StopReads, StopTypes
    <2>5. DbTypes' /\ RayTypes' /\ PassTypes' /\ FaultTypes'
      BY <1>0, <2>1 DEF DbTypes, RayTypes, PassTypes, FaultTypes, dbVars, rayVars, passVars
    <2> QED
      BY <2>2, <2>3, <2>4, <2>5, TypeGroupsAfter DEF StopTypes
  <1>3. ASSUME NEW j \in Jobs, StopWrites(j) PROVE TypeOK'
    <2>1. UNCHANGED <<ran, resource, rows, rayVars, passVars, stopCopy, stops, faults>>
      BY <1>3 DEF StopWrites
    <2>2. stopAt' \in [Jobs -> {"none", "write", "ray"}]
      BY <1>0, <1>3 DEF StopWrites, StopTypes
    <2>3. status' \in [Jobs -> Statuses]
      BY <1>0, <1>3 DEF StopWrites, DbTypes, Statuses
    <2>4. RayTypes' /\ PassTypes' /\ FaultTypes'
      BY <1>0, <2>1 DEF RayTypes, PassTypes, FaultTypes, rayVars, passVars
    <2>5. DbTypes' /\ StopTypes'
      BY <1>0, <2>1, <2>2, <2>3 DEF DbTypes, StopTypes
    <2> QED
      BY <2>4, <2>5, TypeGroupsAfter
  <1>4. ASSUME NEW j \in Jobs, StopsRay(j) PROVE TypeOK'
    <2>1. UNCHANGED <<dbVars, clusters, attempts, passVars, stops>>
      BY <1>4 DEF StopsRay
    <2>2. ray' \in [Clusters -> RayStatuses]
      BY <1>0, <1>4 DEF StopsRay, RayTypes, RayStatuses
    <2>3. FaultTypes'
      BY <1>0, <1>4, FaultType DEF StopsRay
    <2>4. stopAt' \in [Jobs -> {"none", "write", "ray"}]
      BY <1>0, <1>4 DEF StopsRay, StopTypes
    <2>5. stopCopy' \in [Jobs -> Reads]
      BY <1>0, <1>4, ReadTypes DEF StopsRay, StopTypes
    <2>6. DbTypes' /\ RayTypes' /\ PassTypes' /\ StopTypes'
      BY <1>0, <2>1, <2>2, <2>4, <2>5 DEF DbTypes, RayTypes, PassTypes, StopTypes, dbVars, passVars
    <2> QED
      BY <2>3, <2>6, TypeGroupsAfter
  <1>5. CASE UNCHANGED vars
    BY <1>0, <1>5, TypeGroupsAfter
       DEF vars, dbVars, rayVars, passVars, stopVars, DbTypes, RayTypes, PassTypes, StopTypes, FaultTypes
  <1> QED
    BY <1>1, <1>2, <1>3, <1>4, <1>5

-----------------------------------------------------------------------------
(* The pass and the cluster in hand. *)

\* Every step keeps PassInv.
LEMMA PassStep ==
    ASSUME RayInv, TypeOK', [Next]_vars
    PROVE  PassInv'
  <1>0. TypeOK /\ PassInv /\ UnsentInv /\ DbTypes /\ PassTypes
    BY TypeGroups DEF RayInv
  <1>1. CASE StartSchedule \/ ReadRunning
    <2>1. pc' \in {"submit", "ask"} /\ \A j \in todo' : j \in Jobs /\ status[j] \notin TERMINAL_STATUSES
      BY <1>0, <1>1 DEF StartSchedule, ReadRunning, ToUpdate, RUNNING_STATUSES, TERMINAL_STATUSES
    <2>2. \A j \in todo' : copy'[j].status = status[j]
      BY <1>0, <1>1, <2>1, ReadTypes DEF StartSchedule, ReadRunning
    <2> QED
      BY <2>1, <2>2 DEF PassInv, Busy
  <1>2. CASE ReadToFree \/ Crash
    BY <1>2 DEF ReadToFree, Crash, PassInv, Busy
  <1>3. CASE FreeJob
    BY <1>3 DEF FreeJob, PassInv, Busy
  <1>4. CASE CreateCluster
    <2>1. PICK j \in todo : cur' = j /\ todo' = todo \ {j} /\ (pc' = "send" \/ (pc' = "save_job" /\ new' = "FAILED"))
      BY ZenonT(60), <1>4 DEF CreateCluster
    <2>2. copy' = copy /\ pc = "submit"
      BY <1>4 DEF CreateCluster
    <2>3. j \in Jobs
      BY <1>0 DEF PassTypes
    <2> QED
      BY <1>0, <2>1, <2>2, <2>3 DEF PassInv, Busy
  <1>5. CASE SubmitToRay
    <2>1. UNCHANGED <<todo, cur, copy>> /\ pc = "send"
      BY <1>5 DEF SubmitToRay
    <2>2. new' \in {"PENDING", "FAILED"} /\ pc' \in {"save_resource", "save_job"}
      BY <1>5 DEF SubmitToRay, AbandonCluster
    <2> QED
      BY <1>0, <2>1, <2>2 DEF PassInv, Busy
  <1>6. CASE SaveResource \/ SaveJob \/ KillStarved \/ DeleteResource \/ WriteStatus
    <2>1. UNCHANGED <<todo, cur, copy, new>>
      BY <1>6 DEF SaveResource, SaveJob, KillStarved, DeleteResource, WriteStatus
    <2>2. \/ pc = "starved" /\ pc' = "delete"
          \/ pc \in Busy \ {"send"} /\ pc' \in {"save_job", "submit_event", "write", "update_event"}
      BY <1>6 DEF SaveResource, SaveJob, KillStarved, DeleteResource, WriteStatus, Busy
    <2> QED
      BY <1>0, <2>1, <2>2 DEF PassInv, Busy
  <1>7. ASSUME NEW n \in {"submit", "ask"}, Done(n), UNCHANGED <<todo, hand>>, pc \in Busy PROVE PassInv'
    <2>1. \A j \in Jobs : copy'[j] \in {copy[j], NoRead}
      BY <1>0, <1>7, DoneTypes DEF Pcs
    <2>2. \A j \in todo : copy'[j].status \notin TERMINAL_STATUSES
      BY <1>0, <1>7, <2>1, ReadTypes DEF PassInv, PassTypes, TERMINAL_STATUSES, Busy
    <2> QED
      BY <1>7, <2>2 DEF PassInv, Done, Busy
  <1>8. CASE SubmitEvent \/ UpdateEvent
    BY <1>7, <1>8 DEF SubmitEvent, UpdateEvent, AddEvent, Busy
  <1>9. CASE AskStatus
    <2>1. PICK j \in todo :
             /\ todo' = todo \ {j}
             /\ \/ pc' = "ask"
                \/ cur' = j /\ pc' = "write"
                \/ cur' = j /\ pc' = "act" /\ copy[j].resource \in clusters
      BY <1>9 DEF AskStatus
    <2>2. copy' = copy /\ pc = "ask"
      BY <1>9 DEF AskStatus
    <2>3. pc' \in {"write", "act"} => new' # "QUEUED"
      BY <1>0, <1>9, AskTypes
    <2>4. j \in Jobs /\ clusters \subseteq Clusters
      BY <1>0 DEF TypeOK
    <2> QED
      BY <1>0, <2>1, <2>2, <2>3, <2>4 DEF PassInv, Busy
  <1>10. CASE ReadLogs
    <2>1. UNCHANGED <<todo, hand>> /\ pc = "act"
      BY <1>10 DEF ReadLogs
    <2>2. \/ pc' \in {"write", "starved"} /\ new' \in {new, "FAILED"} /\ UNCHANGED <<cur, copy>>
          \/ Done("ask")
      BY <1>10 DEF ReadLogs
    <2>3. CASE pc' \in {"write", "starved"} /\ new' \in {new, "FAILED"} /\ UNCHANGED <<cur, copy>>
      BY <1>0, <2>1, <2>3 DEF PassInv, Busy
    <2> QED
      BY <1>7, <2>1, <2>2, <2>3 DEF Busy
  <1>11. CASE \/ \E c \in Clusters : RayMoves(c)
              \/ \E j \in Jobs : StopReads(j) \/ StopWrites(j) \/ StopsRay(j)
              \/ UNCHANGED vars
    <2>1. UNCHANGED passVars
      BY <1>11 DEF RayMoves, StopReads, StopWrites, StopsRay, vars
    <2> QED
      BY <1>0, <2>1 DEF PassInv, passVars
  <1> QED
    BY <1>1, <1>2, <1>3, <1>4, <1>5, <1>6, <1>8, <1>9, <1>10, <1>11 DEF Next, SchedulerNext

\* Every step keeps HandInv.
LEMMA HandStep ==
    ASSUME RayInv, [Next]_vars
    PROVE  HandInv'
  <1>0. TypeOK /\ HandInv /\ TryInv
    BY DEF RayInv
  <1>1. CASE CreateCluster
    <2>1. PICK j \in todo :
             /\ cur' = j
             /\ \/ /\ hand' = <<j, attempts[j] + 1>>
                   /\ attempts' = [attempts EXCEPT ![j] = attempts[j] + 1]
                   /\ pc' = "send"
                \/ pc' = "save_job" /\ UNCHANGED <<hand, attempts>>
      BY ZenonT(60), <1>1 DEF CreateCluster
    <2>2. pc = "submit"
      BY <1>1 DEF CreateCluster
    <2>3. hand = NoCluster
      BY <1>0, <2>2 DEF HandInv, Holds
    <2>4. j \in Jobs /\ attempts \in [Jobs -> 0..(MaxFaults + 1)]
      BY <1>0 DEF TypeOK
    <2> QED
      BY <2>1, <2>3, <2>4, ClusterFacts DEF HandInv, Holds
  <1>2. CASE SubmitToRay
    BY <1>0, <1>2 DEF SubmitToRay, AbandonCluster, HandInv, Holds
  <1>3. CASE SaveResource
    BY <1>0, <1>3 DEF SaveResource, HandInv, Holds, rayVars
  <1>4. CASE SaveJob \/ Crash
    BY <1>4 DEF SaveJob, Crash, HandInv, Holds
  <1>5. CASE \/ StartSchedule \/ SubmitEvent \/ ReadRunning \/ AskStatus \/ ReadLogs \/ KillStarved \/ DeleteResource
             \/ WriteStatus \/ UpdateEvent \/ ReadToFree \/ FreeJob
    <2>1. hand' = hand /\ pc \notin Holds
      BY <1>5 DEF StartSchedule, SubmitEvent, ReadRunning, AskStatus, ReadLogs, KillStarved, DeleteResource, WriteStatus,
         UpdateEvent, ReadToFree, FreeJob, AddEvent, Holds
    <2>2. pc' \notin Holds
      BY <1>5, <2>1 DEF StartSchedule, SubmitEvent, ReadRunning, AskStatus, ReadLogs, KillStarved, DeleteResource,
         WriteStatus, UpdateEvent, ReadToFree, FreeJob, AddEvent, Done, Holds
    <2> QED
      BY <1>0, <2>1, <2>2 DEF HandInv, Holds
  <1>6. CASE \/ \E c \in Clusters : RayMoves(c)
             \/ \E j \in Jobs : StopReads(j) \/ StopWrites(j) \/ StopsRay(j)
             \/ UNCHANGED vars
    <2>1. UNCHANGED <<pc, cur, hand, attempts>>
      BY <1>6 DEF RayMoves, StopReads, StopWrites, StopsRay, vars, passVars, rayVars
    <2> QED
      BY <1>0, <2>1 DEF HandInv
  <1> QED
    BY <1>1, <1>2, <1>3, <1>4, <1>5, <1>6 DEF Next, SchedulerNext

-----------------------------------------------------------------------------
(* The limit and the attempts. *)

\* The rest counts.
INSTANCE FiniteSetTheorems

\* There are finitely many clusters and finitely many jobs in a pass.
LEMMA Finite ==
    ASSUME TypeOK
    PROVE  /\ IsFiniteSet(Rows) /\ Cardinality(Rows) \in Nat
           /\ IsFiniteSet(todo) /\ Cardinality(todo) \in Nat
  <1>1. IsFiniteSet(Jobs) /\ MaxFaults + 1 \in Int /\ 1 \in Int
    BY RayAssumption
  <1>2. IsFiniteSet(1..(MaxFaults + 1))
    BY <1>1, FS_Interval
  <1>3. IsFiniteSet(Clusters)
    BY <1>1, <1>2, FS_Product DEF Clusters
  <1>4. IsFiniteSet(Rows)
    BY <1>3, FS_Subset DEF Rows
  <1>5. IsFiniteSet(todo)
    BY <1>1, FS_Subset DEF TypeOK
  <1> QED
    BY <1>4, <1>5, FS_CardinalityType

\* Fewer rows count for less.
LEMMA FewerRows ==
    ASSUME TypeOK, Rows' \subseteq Rows
    PROVE  Cardinality(Rows') \in Nat /\ Cardinality(Rows') <= Cardinality(Rows)
  BY Finite, FS_Subset, FS_CardinalityType

\* Every step keeps SlotInv.
LEMMA SlotStep ==
    ASSUME RayInv, [Next]_vars
    PROVE  SlotInv'
  <1>0. TypeOK /\ SlotInv /\ HandInv
    BY DEF RayInv
  <1>1. CASE StartSchedule
    <2>1. Rows' = Rows /\ pc' = "submit"
      BY <1>1 DEF StartSchedule, dbVars, Rows
    <2>2. todo' = {} \/ Cardinality(todo') <= MaxClusters - Cardinality(Rows)
      BY <1>1 DEF StartSchedule, FreeSlots
    <2>3. Cardinality(todo') \in Nat /\ (todo' = {} => Cardinality(todo') = 0)
      <3>1. todo' \subseteq Jobs
        BY <1>1 DEF StartSchedule
      <3> QED
        BY <3>1, RayAssumption, FS_Subset, FS_CardinalityType, FS_EmptySet
    <2> QED
      BY <1>0, <2>1, <2>2, <2>3, Finite, Constants DEF SlotInv, Submits
  <1>2. CASE CreateCluster
    <2>1. PICK j \in todo : todo' = todo \ {j} /\ pc' \in {"send", "save_job"}
      BY ZenonT(60), <1>2 DEF CreateCluster
    <2>2. Rows' = Rows /\ pc = "submit"
      BY <1>2 DEF CreateCluster, dbVars, Rows
    <2>3. Cardinality(todo') = Cardinality(todo) - 1
      BY ZenonT(60), <1>0, <2>1, Finite, FS_RemoveElement
    <2> QED
      BY <1>0, <2>1, <2>2, <2>3, Finite, Constants DEF SlotInv, Submits
  <1>3. CASE SubmitToRay \/ SaveJob \/ SubmitEvent
    <2>1. Rows' = Rows /\ todo' = todo /\ pc \in Submits
      BY <1>3 DEF SubmitToRay, SaveJob, SubmitEvent, AddEvent, dbVars, Rows, Submits
    <2>2. pc = "send" \/ pc' \in {"submit_event", "submit"}
      BY <1>3 DEF SubmitToRay, SaveJob, SubmitEvent, AddEvent, Done
    <2> QED
      BY <1>0, <2>1, <2>2, Finite, Constants DEF SlotInv
  <1>4. CASE SaveResource
    <2>1. Rows' \subseteq Rows \cup {hand}
      BY <1>0, <1>4 DEF SaveResource, Rows, TypeOK
    <2>2. todo' = todo /\ pc = "save_resource" /\ pc' = "save_job"
      BY <1>4 DEF SaveResource
    <2>3. /\ IsFiniteSet(Rows \cup {hand})
          /\ Cardinality(Rows \cup {hand}) = IF hand \in Rows THEN Cardinality(Rows) ELSE Cardinality(Rows) + 1
      BY ZenonT(60), <1>0, Finite, FS_AddElement
    <2>4. Cardinality(Rows') <= Cardinality(Rows) + 1 /\ Cardinality(Rows') \in Nat
      <3>1. Cardinality(Rows') <= Cardinality(Rows \cup {hand}) /\ IsFiniteSet(Rows')
        BY <2>1, <2>3, FS_Subset
      <3>2. Cardinality(Rows') \in Nat /\ Cardinality(Rows) \in Nat
        BY <1>0, <3>1, Finite, FS_CardinalityType
      <3> QED
        BY <2>3, <3>1, <3>2
    <2> QED
      BY <1>0, <2>2, <2>4, Finite, Constants DEF SlotInv, Submits
  <1>5. ASSUME Rows' \subseteq Rows, pc' \notin Submits PROVE SlotInv'
    BY <1>0, <1>5, FewerRows, Finite, Constants DEF SlotInv
  <1>6. CASE ReadRunning \/ AskStatus \/ ReadLogs \/ KillStarved \/ WriteStatus \/ UpdateEvent \/ ReadToFree \/ Crash
    <2>1. Rows' = Rows
      BY <1>6 DEF ReadRunning, AskStatus, ReadLogs, KillStarved, WriteStatus, UpdateEvent, ReadToFree, Crash, AddEvent,
         dbVars, Rows
    <2>2. pc' \notin Submits
      BY <1>6 DEF ReadRunning, AskStatus, ReadLogs, KillStarved, WriteStatus, UpdateEvent, ReadToFree, Crash, AddEvent,
         Done, Submits
    <2> QED
      BY <1>5, <2>1, <2>2
  <1>7. CASE DeleteResource
    <2>1. Rows' \subseteq Rows
      BY <1>0, <1>7 DEF DeleteResource, Rows, TypeOK
    <2>2. pc' \notin Submits
      BY <1>7 DEF DeleteResource, Submits
    <2> QED
      BY <1>5, <2>1, <2>2
  <1>8. CASE FreeJob
    <2>1. Rows' \subseteq Rows
      BY <1>0, <1>8 DEF FreeJob, FreeCluster, Rows, TypeOK
    <2>2. pc' \notin Submits
      BY <1>8 DEF FreeJob, Submits
    <2> QED
      BY <1>5, <2>1, <2>2
  <1>9. CASE \/ \E c \in Clusters : RayMoves(c)
             \/ \E j \in Jobs : StopReads(j) \/ StopWrites(j) \/ StopsRay(j)
             \/ UNCHANGED vars
    <2>1. UNCHANGED <<pc, todo>> /\ Rows' = Rows
      BY <1>9 DEF RayMoves, StopReads, StopWrites, StopsRay, vars, passVars, dbVars, Rows
    <2> QED
      BY <1>0, <2>1 DEF SlotInv
  <1> QED
    BY <1>1, <1>2, <1>3, <1>4, <1>6, <1>7, <1>8, <1>9 DEF Next, SchedulerNext

\* Failures are never forgotten.
LEMMA FaultsGrow ==
    ASSUME TypeOK, [Next]_vars
    PROVE  faults \in Nat /\ faults' \in Nat /\ faults' >= faults
  <1>1. faults \in Nat
    BY DEF TypeOK
  <1>2. UNCHANGED faults \/ Fault
    <2>1. CASE SchedulerNext \/ Crash
      BY <2>1 DEF SchedulerNext, StartSchedule, CreateCluster, SubmitToRay, AbandonCluster, Kill, SaveResource, SaveJob,
         SubmitEvent, AddEvent, ReadRunning, AskStatus, ReadLogs, KillStarved, DeleteResource, WriteStatus, UpdateEvent,
         ReadToFree, FreeJob, FreeCluster, Crash
    <2>2. CASE ~(SchedulerNext \/ Crash)
      BY <2>2 DEF Next, RayMoves, StopReads, StopWrites, StopsRay, vars
    <2> QED
      BY <2>1, <2>2
  <1> QED
    BY <1>1, <1>2 DEF Fault

\* Every step keeps TryInv.
LEMMA TryStep ==
    ASSUME RayInv, [Next]_vars
    PROVE  TryInv'
  <1>0. TypeOK /\ TryInv /\ PassInv
    BY DEF RayInv
  <1>1. faults \in Nat /\ faults' \in Nat /\ faults' >= faults /\ \A j \in Jobs : attempts[j] \in Nat
    BY <1>0, FaultsGrow DEF TypeOK
  <1>a. \A j \in Jobs : /\ attempts[j] <= faults => attempts[j] <= faults'
                        /\ attempts[j] <= faults + 1 => attempts[j] <= faults' + 1
    BY <1>1
  <1>2. CASE StartSchedule
    <2>1. /\ \A j \in todo' : j \in Jobs /\ status[j] = "QUEUED"
          /\ UNCHANGED <<status, attempts>> /\ pc = "free" /\ pc' = "submit"
      BY <1>2 DEF StartSchedule, dbVars, rayVars
    <2> QED
      <3>1. pc \notin Holds /\ pc' \notin Holds
        BY <2>1 DEF Holds
      <3> QED
        BY ZenonT(60), <1>0, <1>a, <2>1, <3>1 DEF TryInv
  <1>3. CASE CreateCluster
    <2>1. PICK j \in todo :
             /\ cur' = j /\ todo' = todo \ {j} /\ pc' \in Holds
             /\ attempts' = [attempts EXCEPT ![j] = attempts[j] + 1] \/ attempts' = attempts
      BY ZenonT(60), <1>3 DEF CreateCluster, Holds
    <2>2. pc = "submit" /\ status' = status
      BY <1>3 DEF CreateCluster, dbVars
    <2>3. j \in Jobs /\ attempts[j] <= faults
      BY ZenonT(60), <1>0, <2>2, NextCluster
    <2>4. attempts'[j] <= faults + 1 /\ \A k \in Jobs \ {j} : attempts'[k] = attempts[k]
      BY <1>0, <1>1, <2>1, <2>3 DEF TypeOK
    <2>5. ASSUME NEW k \in Jobs
          PROVE  /\ attempts'[k] <= faults' + 1
                 /\ k # j => (k \in todo => attempts'[k] <= faults') /\ (status[k] = "QUEUED" => attempts'[k] <= faults')
      <3>1. attempts'[k] \in Nat
        BY <1>0, <1>1, <2>1 DEF TypeOK
      <3> QED
        BY <1>0, <1>1, <2>2, <2>4, <3>1 DEF TryInv, Submits, Holds
    <2> QED
      BY <2>1, <2>2, <2>5 DEF TryInv
  <1>4. CASE SubmitToRay \/ SaveResource
    <2>1. UNCHANGED <<status, attempts, todo, cur>> /\ pc \in Holds \cap Submits /\ pc' \in Holds
      BY <1>4 DEF SubmitToRay, AbandonCluster, SaveResource, dbVars, rayVars, Holds, Submits
    <2> QED
      <3>1. pc \in Holds /\ pc \in Submits
        BY ZenonT(60), <2>1
      <3> QED
        BY ZenonT(60), <1>0, <1>a, <2>1, <3>1 DEF TryInv
  <1>5. CASE SaveJob
    <2>1. UNCHANGED <<attempts, todo, cur>> /\ pc = "save_job" /\ pc' = "submit_event"
      BY <1>5 DEF SaveJob, rayVars
    <2>2. \A j \in Jobs : status'[j] = "QUEUED" => j # cur /\ status[j] = "QUEUED"
      BY <1>0, <1>5 DEF SaveJob, PassInv, Busy, TypeOK
    <2> QED
      BY <1>0, <1>1, <2>1, <2>2 DEF TryInv, Holds, Submits
  <1>6. CASE SubmitEvent
    <2>1. UNCHANGED <<status, attempts, todo>> /\ pc = "submit_event"
      BY <1>6 DEF SubmitEvent, AddEvent, rayVars
    <2> QED
      BY <1>0, <1>1, <2>1 DEF TryInv, Holds, Submits
  <1>7. CASE ReadRunning \/ AskStatus \/ ReadLogs \/ KillStarved \/ DeleteResource \/ UpdateEvent \/ ReadToFree \/ FreeJob
    <2>1. UNCHANGED <<status, attempts>> /\ pc \notin Holds
      BY <1>7 DEF ReadRunning, AskStatus, ReadLogs, KillStarved, DeleteResource, UpdateEvent, ReadToFree, FreeJob, AddEvent,
         dbVars, rayVars, Holds
    <2>2. pc' \notin Submits
      BY <1>7 DEF ReadRunning, AskStatus, ReadLogs, KillStarved, DeleteResource, UpdateEvent, ReadToFree, FreeJob, AddEvent,
         Done, Submits
    <2> QED
      BY ZenonT(60), <1>0, <1>a, <2>1, <2>2 DEF TryInv
  <1>8. CASE WriteStatus
    <2>1. attempts' = attempts /\ pc = "write" /\ pc' = "update_event"
      BY <1>8 DEF WriteStatus, rayVars
    <2>2. \A j \in Jobs : status'[j] = "QUEUED" => status[j] = "QUEUED"
      BY <1>0, <1>8 DEF WriteStatus, PassInv, Busy, TypeOK
    <2> QED
      BY <1>0, <1>1, <2>1, <2>2 DEF TryInv, Holds, Submits
  <1>9. CASE Crash
    <2>1. attempts' = attempts /\ faults' = faults + 1
      BY <1>9 DEF Crash, Fault, rayVars
    <2> QED
      <3>1. \A j \in Jobs : attempts[j] <= faults + 1 => attempts[j] <= faults' /\ attempts[j] <= faults' + 1
        BY <1>1, <2>1
      <3> QED
        BY ZenonT(60), <1>0, <2>1, <3>1 DEF TryInv
  <1>10. CASE \/ \E c \in Clusters : RayMoves(c)
              \/ \E j \in Jobs : StopReads(j) \/ StopWrites(j) \/ StopsRay(j)
              \/ UNCHANGED vars
    <2>1. UNCHANGED <<attempts, pc, todo, cur>>
      BY <1>10 DEF RayMoves, StopReads, StopWrites, StopsRay, vars, passVars, rayVars
    <2>2. \A j \in Jobs : status'[j] = "QUEUED" => status[j] = "QUEUED"
      BY <1>0, <1>10 DEF RayMoves, StopReads, StopWrites, StopsRay, vars, dbVars, TypeOK
    <2> QED
      BY ZenonT(60), <1>0, <1>a, <2>1, <2>2 DEF TryInv
  <1> QED
    BY <1>2, <1>3, <1>4, <1>5, <1>6, <1>7, <1>8, <1>9, <1>10 DEF Next, SchedulerNext

-----------------------------------------------------------------------------
(* The clusters Ray has no job for. *)

\* Deleting a cluster leaves no new one without a job.
LEMMA KillUnsent ==
    ASSUME TypeOK, NEW k, Kill(k), UNCHANGED attempts, NEW c \in Clusters, Unsent(c)'
    PROVE  Unsent(c)
  <1>1. CASE UNCHANGED <<clusters, ray>>
    BY <1>1 DEF Unsent
  <1>2. CASE clusters' = clusters \ {k} /\ ray' = [ray EXCEPT ![k] = "none"]
    <2>1. c # k => ray'[c] = ray[c]
      BY <1>2 DEF TypeOK
    <2> QED
      BY <1>2, <2>1 DEF Unsent
  <1> QED
    BY <1>1, <1>2 DEF Kill

\* A step that brings no reference to a cluster Ray has no job for.
LEMMA UnsentFrame ==
    ASSUME RayInv,
           \A c \in Clusters : Unsent(c)' => Unsent(c),
           \A j \in Jobs : resource'[j] \in {resource[j], NoCluster},
           \A j \in Jobs : copy'[j].resource \in {copy[j].resource, resource[j], NoCluster},
           hand' = NoCluster \/ (hand' = hand /\ (pc = "send" => pc' = "send"))
    PROVE  UnsentInv'
  <1>1. UnsentInv
    BY DEF RayInv
  <1>2. ASSUME NEW c \in Clusters, Unsent(c)'
        PROVE  (\A j \in Jobs : resource'[j] # c /\ copy'[j].resource # c) /\ (c = hand' => pc' = "send")
    <2>1. Unsent(c) /\ c # NoCluster
      BY <1>2, ClusterFacts
    <2> QED
      BY <1>1, <2>1 DEF UnsentInv
  <1> QED
    BY <1>2 DEF UnsentInv

\* Every step keeps UnsentInv.
LEMMA UnsentStep ==
    ASSUME RayInv, [Next]_vars
    PROVE  UnsentInv'
  <1>0. TypeOK /\ UnsentInv /\ HandInv /\ PassInv /\ DbTypes /\ PassTypes /\ TryInv
    BY TypeGroups DEF RayInv
  <1>1. ASSUME UNCHANGED <<clusters, ray, attempts>> PROVE \A c \in Clusters : Unsent(c)' => Unsent(c)
    BY <1>1 DEF Unsent
  <1>2. CASE StartSchedule \/ ReadRunning \/ ReadToFree
    <2>1. UNCHANGED <<clusters, ray, attempts, resource, hand>> /\ pc # "send"
      BY <1>2 DEF StartSchedule, ReadRunning, ReadToFree, dbVars, rayVars
    <2>2. \A j \in Jobs : copy'[j].resource \in {resource[j], NoCluster}
      <3>1. \E js : copy' = ReadRows(js)
        BY ZenonT(60), <1>2 DEF StartSchedule, ReadRunning, ReadToFree
      <3> QED
        BY <1>0, <3>1, ReadTypes
    <2> QED
      BY <1>1, <2>1, <2>2, UnsentFrame
  <1>3. CASE CreateCluster
    <2>1. PICK j \in todo :
             \/ /\ hand' = <<j, attempts[j] + 1>>
                /\ attempts' = [attempts EXCEPT ![j] = attempts[j] + 1]
                /\ clusters' = clusters \cup {hand'}
                /\ pc' = "send"
             \/ UNCHANGED <<hand, attempts, clusters>>
      BY ZenonT(60), <1>3 DEF CreateCluster
    <2>2. UNCHANGED <<resource, ray, copy>> /\ pc = "submit"
      BY <1>3 DEF CreateCluster, dbVars
    <2>3. ASSUME UNCHANGED <<hand, attempts, clusters>> PROVE UnsentInv'
      BY <1>1, <2>2, <2>3, UnsentFrame
    <2>4. ASSUME hand' = <<j, attempts[j] + 1>>, attempts' = [attempts EXCEPT ![j] = attempts[j] + 1],
                 clusters' = clusters \cup {hand'}, pc' = "send"
          PROVE  UnsentInv'
      <3>1. j \in Jobs /\ attempts[j] \in Nat /\ hand' \in Clusters /\ hand'[1] = j /\ hand'[2] = attempts[j] + 1
        BY <1>0, <2>2, <2>4, NextCluster, ClusterFacts
      <3>2. Unsent(hand')
        BY <3>1 DEF Unsent
      <3>3. \A i \in Jobs : attempts[i] \in Nat /\ attempts'[i] >= attempts[i] /\ attempts'[i] \in Nat
        BY <1>0, <2>4, <3>1 DEF TypeOK
      <3>4. ASSUME NEW c \in Clusters, Unsent(c)' PROVE Unsent(c)
        <4>1. CASE c = hand'
          BY <3>2, <4>1
        <4>2. CASE c # hand'
          <5>1. c[1] \in Jobs /\ c[2] \in Nat
            BY ClusterFacts
          <5>2. c \in clusters' <=> c \in clusters
            BY <2>4, <4>2
          <5> QED
            BY <2>2, <3>3, <3>4, <5>1, <5>2 DEF Unsent
        <4> QED
          BY <4>1, <4>2
      <3> QED
        BY <1>0, <2>2, <2>4, <3>4 DEF UnsentInv
    <2> QED
      BY <2>1, <2>3, <2>4
  <1>4. CASE SubmitToRay
    <2>1. UNCHANGED <<resource, copy, attempts>> /\ pc = "send"
      BY <1>4 DEF SubmitToRay, dbVars
    <2>2. ASSUME AbandonCluster PROVE UnsentInv'
      <3>1. Kill(hand) /\ hand' = NoCluster
        BY <2>2 DEF AbandonCluster
      <3>2. \A c \in Clusters : Unsent(c)' => Unsent(c)
        BY <1>0, <2>1, <3>1, KillUnsent
      <3> QED
        BY <2>1, <3>1, <3>2, UnsentFrame
    <2>3. ASSUME ray' = [ray EXCEPT ![hand] = "PENDING"], UNCHANGED <<clusters, hand>>
          PROVE  UnsentInv'
      <3>1. hand = <<cur, attempts[cur]>> /\ cur \in Jobs /\ hand \in Clusters
        BY <1>0, <2>1 DEF HandInv, PassInv, Busy, PassTypes
      <3>2. ray'[hand] = "PENDING" /\ \A c \in Clusters : c # hand => ray'[c] = ray[c]
        BY <1>0, <2>3, <3>1 DEF TypeOK
      <3>3. hand[1] = cur /\ hand[2] = attempts[cur] /\ attempts[cur] \in Nat
        BY <1>0, <3>1, ClusterFacts DEF TypeOK
      <3>4. ~(Unsent(hand)')
        BY <2>1, <2>3, <3>2, <3>3 DEF Unsent
      <3>5. ASSUME NEW c \in Clusters, Unsent(c)' PROVE Unsent(c) /\ c # hand'
        BY <2>1, <2>3, <3>2, <3>4, <3>5 DEF Unsent
      <3> QED
        BY <1>0, <2>1, <3>5 DEF UnsentInv
    <2> QED
      BY <1>4, <2>2, <2>3 DEF SubmitToRay
  <1>5. CASE SaveJob
    <2>1. UNCHANGED <<clusters, ray, attempts, copy>> /\ pc = "save_job" /\ hand' = NoCluster
      BY <1>5 DEF SaveJob, rayVars
    <2>2. \A j \in Jobs : resource'[j] \in {resource[j], hand}
      BY <1>0, <1>5 DEF SaveJob, DbTypes
    <2>3. ASSUME NEW c \in Clusters, Unsent(c)'
          PROVE  (\A j \in Jobs : resource'[j] # c /\ copy'[j].resource # c) /\ (c = hand' => pc' = "send")
      <3>1. Unsent(c) /\ c # NoCluster
        BY <1>1, <2>1, <2>3, ClusterFacts
      <3>2. c # hand /\ \A j \in Jobs : resource[j] # c /\ copy[j].resource # c
        BY <1>0, <2>1, <3>1 DEF UnsentInv
      <3> QED
        BY <2>1, <2>2, <3>1, <3>2
    <2> QED
      BY <2>3 DEF UnsentInv
  <1>6. CASE SaveResource \/ AskStatus \/ WriteStatus
    <2>1. UNCHANGED <<clusters, ray, attempts, resource, copy, hand>> /\ pc # "send"
      BY <1>6 DEF SaveResource, AskStatus, WriteStatus, dbVars, rayVars
    <2> QED
      BY <1>1, <2>1, UnsentFrame
  <1>7. CASE SubmitEvent \/ UpdateEvent \/ ReadLogs
    <2>1. UNCHANGED <<clusters, ray, attempts, resource, hand>> /\ pc # "send"
      BY <1>7 DEF SubmitEvent, UpdateEvent, ReadLogs, AddEvent, dbVars, rayVars
    <2>2. copy' = copy \/ copy' = [copy EXCEPT ![cur] = NoRead]
      BY <1>7 DEF SubmitEvent, UpdateEvent, ReadLogs, AddEvent, Done
    <2>3. \A j \in Jobs : copy'[j].resource \in {copy[j].resource, NoCluster}
      BY <1>0, <2>2, ReadTypes DEF PassTypes
    <2> QED
      BY <1>1, <2>1, <2>3, UnsentFrame
  <1>8. CASE KillStarved
    <2>1. UNCHANGED <<resource, attempts, copy, hand>> /\ pc # "send" /\ Kill(copy[cur].resource)
      BY <1>8 DEF KillStarved, dbVars
    <2>2. \A c \in Clusters : Unsent(c)' => Unsent(c)
      BY <1>0, <2>1, KillUnsent
    <2> QED
      BY <2>1, <2>2, UnsentFrame
  <1>9. CASE DeleteResource
    <2>1. UNCHANGED <<clusters, ray, attempts, copy, hand>> /\ pc # "send"
      BY <1>9 DEF DeleteResource, rayVars
    <2>2. \A j \in Jobs : resource'[j] \in {resource[j], NoCluster}
      BY <1>9 DEF DeleteResource
    <2> QED
      BY <1>1, <2>1, <2>2, UnsentFrame
  <1>10. CASE FreeJob
    <2>1. PICK j \in todo : copy' = [copy EXCEPT ![j] = NoRead] /\ Kill(copy[j].resource)
      BY ZenonT(60), <1>10 DEF FreeJob, FreeCluster
    <2>2. UNCHANGED <<resource, attempts, hand>> /\ pc # "send"
      BY <1>10 DEF FreeJob
    <2>3. \A c \in Clusters : Unsent(c)' => Unsent(c)
      BY <1>0, <2>1, <2>2, KillUnsent
    <2>4. \A k \in Jobs : copy'[k].resource \in {copy[k].resource, NoCluster}
      BY <1>0, <2>1, ReadTypes DEF PassTypes
    <2> QED
      BY <2>2, <2>3, <2>4, UnsentFrame
  <1>11. CASE Crash
    <2>1. UNCHANGED <<clusters, ray, attempts, resource>> /\ hand' = NoCluster
      BY <1>11 DEF Crash, dbVars, rayVars
    <2>2. \A j \in Jobs : copy'[j].resource \in {resource[j], NoCluster}
      BY <1>0, <1>11, ReadTypes DEF Crash
    <2> QED
      BY <1>1, <2>1, <2>2, UnsentFrame
  <1>12. ASSUME NEW k \in Clusters, RayMoves(k) PROVE UnsentInv'
    <2>1. UNCHANGED <<clusters, attempts, resource, copy, hand, pc>>
      BY <1>12 DEF RayMoves, dbVars, passVars
    <2>2. \A c \in Clusters : ray'[c] = "none" => ray[c] = "none"
      BY <1>0, <1>12 DEF RayMoves, TypeOK
    <2>3. \A c \in Clusters : Unsent(c)' => Unsent(c)
      BY <2>1, <2>2 DEF Unsent
    <2> QED
      BY <2>1, <2>3, UnsentFrame
  <1>13. ASSUME NEW j \in Jobs, StopReads(j) \/ StopWrites(j) \/ StopsRay(j) PROVE UnsentInv'
    <2>1. UNCHANGED <<clusters, attempts, resource, copy, hand, pc>>
      BY <1>13 DEF StopReads, StopWrites, StopsRay, dbVars, rayVars, passVars
    <2>2. \A c \in Clusters : ray'[c] = "none" => ray[c] = "none"
      BY <1>0, <1>13 DEF StopReads, StopWrites, StopsRay, rayVars, TypeOK
    <2>3. \A c \in Clusters : Unsent(c)' => Unsent(c)
      BY <2>1, <2>2 DEF Unsent
    <2> QED
      BY <2>1, <2>3, UnsentFrame
  <1>14. CASE UNCHANGED vars
    <2>1. UNCHANGED <<clusters, ray, attempts, resource, copy, hand, pc>>
      BY <1>14 DEF vars, dbVars, rayVars, passVars
    <2> QED
      BY <1>1, <2>1, UnsentFrame
  <1> QED
    BY <1>2, <1>3, <1>4, <1>5, <1>6, <1>7, <1>8, <1>9, <1>10, <1>11, <1>12, <1>13, <1>14 DEF Next, SchedulerNext

-----------------------------------------------------------------------------
(* No cluster is lost sight of, and no final status that was read is changed. *)

\* A call that worked has deleted the cluster.
LEMMA KillWorks ==
    ASSUME TypeOK, NEW c, Kill(c), faults' = 0
    PROVE  faults = 0 /\ clusters' = clusters \ {c}
  <1>1. ~Fault
    BY FaultCounts, TypeGroups
  <1> QED
    BY <1>1 DEF Kill

\* Every step keeps LeakInv.
LEMMA LeakStep ==
    ASSUME RayInv, [Next]_vars
    PROVE  LeakInv'
  <1>0. TypeOK /\ LeakInv /\ HandInv /\ PassInv
    BY DEF RayInv
  <1>1. faults' = 0 => faults = 0 /\ ~Fault
    BY <1>0, FaultsGrow, FaultCounts, TypeGroups
  <1>2. clusters \subseteq Clusters /\ NoCluster \notin clusters
    BY <1>0, ClusterFacts DEF TypeOK
  <1>3. CASE CreateCluster
    <2>1. \/ clusters' = clusters \cup {hand'} /\ pc' = "send"
          \/ Fault /\ pc' = "save_job" /\ hand' = hand
      BY <1>3 DEF CreateCluster
    <2>2. Rows' = Rows /\ hand = NoCluster
      BY <1>0, <1>3 DEF CreateCluster, dbVars, Rows, HandInv, Holds
    <2> QED
      BY <1>0, <1>1, <1>2, <2>1, <2>2 DEF LeakInv
  <1>4. CASE SubmitToRay
    <2>1. Rows' = Rows
      BY <1>4 DEF SubmitToRay, dbVars, Rows
    <2>2. ASSUME AbandonCluster PROVE LeakInv'
      <3>1. Kill(hand) /\ hand' = NoCluster /\ pc' = "save_job"
        BY <2>2 DEF AbandonCluster
      <3>2. faults' = 0 => faults = 0 /\ clusters' = clusters \ {hand}
        BY <1>0, <3>1, KillWorks
      <3> QED
        BY <1>0, <2>1, <3>1, <3>2 DEF LeakInv
    <2>3. ASSUME pc' = "save_resource", UNCHANGED <<clusters, hand, faults>> PROVE LeakInv'
      BY <1>0, <2>1, <2>3 DEF LeakInv
    <2> QED
      BY <1>4, <2>2, <2>3 DEF SubmitToRay
  <1>5. CASE SaveResource
    <2>1. UNCHANGED <<clusters, hand, faults>> /\ pc' = "save_job" /\ hand \in Clusters
      BY <1>0, <1>5 DEF SaveResource, rayVars, HandInv, TypeOK
    <2>2. rows'[hand] = "active" /\ Rows \subseteq Rows'
      BY <1>0, <1>5, <2>1 DEF SaveResource, Rows, TypeOK
    <2> QED
      BY <1>0, <2>1, <2>2 DEF LeakInv
  <1>6. CASE SaveJob
    <2>1. UNCHANGED <<clusters, faults>> /\ Rows' = Rows /\ pc = "save_job" /\ pc' = "submit_event"
      BY <1>6 DEF SaveJob, rayVars, Rows
    <2>2. hand = NoCluster \/ hand \in Rows
      BY <1>0, <2>1 DEF LeakInv, Rows, TypeOK
    <2> QED
      BY <1>0, <1>2, <2>1, <2>2 DEF LeakInv
  <1>7. CASE KillStarved
    <2>1. Rows' = Rows /\ UNCHANGED <<hand, cur, copy>> /\ Kill(copy[cur].resource) /\ pc' = "delete"
      BY <1>7 DEF KillStarved, dbVars, Rows
    <2>2. faults' = 0 => faults = 0 /\ clusters' = clusters \ {copy[cur].resource}
      BY <1>0, <2>1, KillWorks
    <2> QED
      BY <1>0, <2>1, <2>2 DEF LeakInv
  <1>8. CASE DeleteResource
    <2>1. UNCHANGED <<clusters, hand, faults>> /\ pc = "delete" /\ pc' = "write"
      BY <1>8 DEF DeleteResource, rayVars
    <2>2. \A c \in Rows : c # copy[cur].resource => c \in Rows'
      BY <1>0, <1>8 DEF DeleteResource, Rows, TypeOK
    <2> QED
      BY <1>0, <2>1, <2>2 DEF LeakInv
  <1>9. CASE FreeJob
    <2>1. PICK j \in todo : FreeCluster(copy[j].resource)
      BY ZenonT(60), <1>9 DEF FreeJob
    <2>2. hand' = hand /\ pc = "free" /\ pc' = "free"
      BY <1>9 DEF FreeJob
    <2>3. faults' = 0 => faults = 0 /\ clusters' = clusters \ {copy[j].resource}
      BY <1>0, <2>1, KillWorks DEF FreeCluster
    <2>4. \A c \in Rows : c # copy[j].resource => c \in Rows'
      BY <1>0, <2>1 DEF FreeCluster, Rows, TypeOK
    <2> QED
      BY <1>0, <2>2, <2>3, <2>4 DEF LeakInv
  <1>10. CASE Crash
    BY <1>1, <1>10 DEF Crash, LeakInv
  <1>11. CASE \/ StartSchedule \/ SubmitEvent \/ ReadRunning \/ AskStatus \/ ReadLogs \/ WriteStatus \/ UpdateEvent
              \/ ReadToFree
    <2>1. UNCHANGED <<clusters, hand>> /\ Rows' = Rows
      BY <1>11 DEF StartSchedule, SubmitEvent, ReadRunning, AskStatus, ReadLogs, WriteStatus, UpdateEvent, ReadToFree,
         AddEvent, rayVars, dbVars, Rows
    <2>2. pc' \notin {"save_job", "delete"}
      BY <1>11 DEF StartSchedule, SubmitEvent, ReadRunning, AskStatus, ReadLogs, WriteStatus, UpdateEvent, ReadToFree,
         AddEvent, Done
    <2> QED
      BY <1>0, <1>1, <2>1, <2>2 DEF LeakInv
  <1>12. CASE \/ \E c \in Clusters : RayMoves(c)
              \/ \E j \in Jobs : StopReads(j) \/ StopWrites(j) \/ StopsRay(j)
              \/ UNCHANGED vars
    <2>1. UNCHANGED <<clusters, rows, pc, cur, copy, hand>>
      BY <1>12 DEF RayMoves, StopReads, StopWrites, StopsRay, vars, passVars, rayVars, dbVars
    <2> QED
      BY <1>0, <1>1, <2>1 DEF LeakInv, Rows
  <1> QED
    BY <1>3, <1>4, <1>5, <1>6, <1>7, <1>8, <1>9, <1>10, <1>11, <1>12 DEF Next, SchedulerNext

\* Initially there is nothing to account for.
LEMMA RayInit == ASSUME Init PROVE RayInv
  <1>1. TypeOK
    <2>1. DbTypes /\ RayTypes /\ StopTypes /\ FaultTypes
      <3>1. DbTypes /\ RayTypes /\ FaultTypes
        BY Constants DEF Init, DbTypes, RayTypes, FaultTypes, RayStatuses, Statuses
      <3> QED
        BY <3>1, Constants, ReadTypes DEF Init, StopTypes
    <2>2. PassTypes
      BY <2>1, ReadTypes DEF Init, PassTypes, Pcs, Statuses, NoJob
    <2> QED
      BY <2>1, <2>2, TypeGroups
  <1>2. PassInv /\ HandInv /\ LeakInv
    BY DEF Init, PassInv, HandInv, LeakInv, Busy, Holds
  <1>3. SlotInv
    <2>1. Rows = {}
      BY DEF Init, Rows
    <2> QED
      BY <2>1, FS_EmptySet, Constants DEF SlotInv, Init, Submits
  <1>4. TryInv
    BY DEF Init, TryInv
  <1>5. UnsentInv
    <2>1. \A j \in Jobs : copy[j].resource = NoCluster /\ resource[j] = NoCluster
      BY <1>1, ReadTypes, TypeGroups DEF Init
    <2> QED
      BY <2>1, ClusterFacts DEF Init, UnsentInv
  <1> QED
    BY <1>1, <1>2, <1>3, <1>4, <1>5 DEF RayInv

\* Every step keeps the invariant.
LEMMA RayStep == ASSUME RayInv, [Next]_vars PROVE RayInv'
  <1>1. TypeOK'
    BY SchedulerTypes, OtherTypes DEF RayInv, Next
  <1> QED
    BY <1>1, PassStep, HandStep, SlotStep, TryStep, UnsentStep, LeakStep DEF RayInv

\* RayInv holds in every reachable state.
THEOREM RayCorrect == Spec => []RayInv
  BY RayInit, RayStep, PTL DEF Spec

\* The clusters stay within the limit, and without a failure there is none that
\* only Kubernetes knows of, for any number of jobs, stops and failures.
THEOREM RayClustersAreAccounted == Spec => []ClustersAreAccounted
  <1>1. RayInv => ClustersAreAccounted
    BY DEF RayInv, SlotInv, LeakInv, ClustersAreAccounted, ClustersWithinLimit, NoSilentLeak
  <1> QED
    BY <1>1, RayCorrect, PTL

\* A step that changes a final status writes the job at hand, which had not ended
\* when the pass read it.
LEMMA FinalStep ==
    ASSUME RayInv, [Next]_vars, NEW j \in Jobs, status[j] \in TERMINAL_STATUSES, status'[j] # status[j]
    PROVE  j = cur /\ copy[j].status \notin TERMINAL_STATUSES
  <1>0. TypeOK /\ PassInv
    BY DEF RayInv
  <1>1. CASE SaveJob \/ WriteStatus
    <2>1. status' = [status EXCEPT ![cur] = new] /\ pc \in Busy
      BY <1>1 DEF SaveJob, WriteStatus, Busy
    <2>2. j = cur
      BY <1>0, <2>1 DEF TypeOK
    <2> QED
      BY <1>0, <2>1, <2>2 DEF PassInv
  <1>2. ASSUME NEW k \in Jobs, StopWrites(k) PROVE FALSE
    <2>1. "STOPPED" \in VALID_TRANSITIONS[status[k]] /\ status' = [status EXCEPT ![k] = "STOPPED"]
      BY <1>2 DEF StopWrites
    <2>2. k = j
      BY <1>0, <2>1 DEF TypeOK
    <2> QED
      BY <2>1, <2>2 DEF VALID_TRANSITIONS, Statuses, TERMINAL_STATUSES
  <1>3. CASE \/ StartSchedule \/ CreateCluster \/ SubmitToRay \/ SaveResource \/ SubmitEvent \/ ReadRunning \/ AskStatus
             \/ ReadLogs \/ KillStarved \/ DeleteResource \/ UpdateEvent \/ ReadToFree \/ FreeJob \/ Crash
    BY <1>3 DEF StartSchedule, CreateCluster, SubmitToRay, SaveResource, SubmitEvent, ReadRunning, AskStatus, ReadLogs,
       KillStarved, DeleteResource, UpdateEvent, ReadToFree, FreeJob, Crash, AddEvent, dbVars
  <1>4. CASE (\E c \in Clusters : RayMoves(c)) \/ (\E k \in Jobs : StopReads(k) \/ StopsRay(k)) \/ UNCHANGED vars
    BY <1>4 DEF RayMoves, StopReads, StopsRay, vars, dbVars
  <1> QED
    BY <1>1, <1>2, <1>3, <1>4 DEF Next, SchedulerNext

\* What the unchecked writes of the scheduler can overwrite is only a stop that
\* came after its pass had read the row.
THEOREM RayFinalWhenRead == Spec => FinalWhenRead
  <1>1. RayInv /\ [Next]_vars =>
           [\A j \in Jobs : status[j] \in TERMINAL_STATUSES /\ status'[j] # status[j] =>
               j = cur /\ copy[j].status \notin TERMINAL_STATUSES]_vars
    BY FinalStep
  <1> QED
    BY <1>1, RayCorrect, PTL DEF Spec, FinalWhenRead

=============================================================================
