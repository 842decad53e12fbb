---------------------------- MODULE FleetCleanup -----------------------------
(***************************************************************************)
(* The fleets of ended jobs are deleted, so that they stop counting        *)
(* against the project's limit (scheduler/tasks/free_fleets_resources.py,  *)
(* FleetsFleetDeleter, FleetsRunner.free_resources).  A cycle first takes  *)
(* the oldest fleets of the projects that are close to their quota, then   *)
(* the fleets past the retention window, and spends a bounded number of    *)
(* deletes.  What the task remembers of its failures is lost with the      *)
(* process.  Code Engine is external.                                      *)
(***************************************************************************)
EXTENDS Integers, Sequences, FiniteSets, SequencesExt

CONSTANTS FleetProject,       \* ce_project_name of the jobs with a fleet, in the order of `updated`
          FleetRegion,        \* fleet_region of each
          UNASSIGNED_PROJECT,
          Quota, ForceAtPercent, MaxDeletes,    \* Config
          MaxAttempts,        \* MAX_ATTEMPTS_PER_FLEET
          MaxTracked,         \* MAX_TRACKED_FAILURES
          Lifeless,           \* regions Code Engine never answers from
          Refused,            \* fleets Code Engine refuses to delete
          Elsewhere,          \* fleets that are not in the project the row names
          MaxMishaps          \* bound on the lost answers, crashes and switches

VARIABLES
    ended, aged,         \* jobs in a terminal status, and those past the window
    stamped,             \* fleet_deleted_at is set
    exists,              \* fleets Code Engine holds
    cleanup_enabled,     \* Config FLEETS_CLEANUP_ENABLED
    candidates,          \* the rest of the cycle, as read
    tried,            \* a row of this cycle has been handled
    failed_regions, answered_regions,
    cleanup_open,        \* regions whose cleanup breaker is open
    failed_attempts,     \* jobs in the order of their first failure
    attempts,            \* the failures of each of them
    given_up,            \* jobs in the order they were given up
    phase, mishaps

cleanupVars == <<ended, aged, stamped, exists, cleanup_enabled, candidates, tried, failed_regions, answered_regions,
                 cleanup_open, failed_attempts, attempts, given_up, phase, mishaps>>
FleetRows == DOMAIN FleetProject
rowVars == <<ended, aged, stamped, exists>>
memoryVars == <<failed_attempts, attempts, given_up>>

FleetRegions == {FleetRegion[j] : j \in FleetRows}
Mishap == mishaps < MaxMishaps /\ mishaps' = mishaps + 1

CleanupInit ==
    /\ ended = {} /\ aged = {} /\ stamped = {}
    /\ exists = FleetRows
    /\ cleanup_enabled = TRUE
    /\ candidates = <<>> /\ tried = FALSE
    /\ failed_regions = {} /\ answered_regions = {} /\ cleanup_open = {}
    /\ failed_attempts = <<>> /\ attempts = [j \in FleetRows |-> 0] /\ given_up = <<>>
    /\ phase = "idle" /\ mishaps = 0

-----------------------------------------------------------------------------
(* What a cycle takes. *)

held_fleets == FleetRows \ stamped

_count_held_fleets == [p \in {FleetProject[j] : j \in held_fleets} |->
                           Cardinality({j \in held_fleets : FleetProject[j] = p})]

Threshold == (Quota * ForceAtPercent) \div 100

\* Mutant: the project is brought to the threshold, where it counts as full again.
StopsAtTheThreshold(counts) ==
    [p \in {q \in DOMAIN counts : q # UNASSIGNED_PROJECT /\ counts[q] >= Threshold} |-> counts[p] - Threshold]

_projects_over_quota(counts) ==
    IF ~(1 <= ForceAtPercent /\ ForceAtPercent < 100) \/ Quota < 1 THEN [p \in {} |-> 0]
    ELSE [p \in {q \in DOMAIN counts : q # UNASSIGNED_PROJECT /\ counts[q] >= Threshold} |-> counts[p] - Threshold + 1]

deletable == {j \in held_fleets \cap ended : FleetRegion[j] \notin cleanup_open /\ j \notin ToSet(given_up)}

_past_the_window(rows) == rows \cap aged

\* The n oldest rows of a set.
Oldest(rows, n) ==
    LET sorted == SelectSeq([j \in FleetRows |-> j], LAMBDA j : j \in rows)
    IN SubSeq(sorted, 1, IF Len(sorted) < n THEN Len(sorted) ELSE n)

\* The forced deletes of the projects, in the order of the counts, and then the ones past the window.
_jobs_to_clean(over) ==
    LET names == SelectSeq(FleetProject, LAMBDA p : p \in DOMAIN over)
        take(rows, p) == IF over[p] < MaxDeletes - Len(rows) THEN over[p] ELSE MaxDeletes - Len(rows)
        add(rows, p) == rows \o Oldest({j \in deletable : FleetProject[j] = p}, take(rows, p))
        forced == FoldLeft(LAMBDA rows, i : IF names[i] \in {names[k] : k \in 1..(i - 1)} THEN rows ELSE add(rows, names[i]),
                           <<>>, [i \in DOMAIN names |-> i])
    IN forced \o Oldest(_past_the_window(deletable) \ ToSet(forced), MaxDeletes - Len(forced))

-----------------------------------------------------------------------------
(* FreeFleetsResources.run *)

StartCleanup ==
    /\ phase = "idle" /\ cleanup_enabled
    /\ candidates' = _jobs_to_clean(_projects_over_quota(_count_held_fleets))
    /\ tried' = FALSE /\ failed_regions' = {} /\ answered_regions' = {}
    /\ phase' = "cycle"
    /\ UNCHANGED <<rowVars, cleanup_enabled, cleanup_open, memoryVars, mishaps>>

Current == Head(candidates)
AtWork == phase = "cycle" /\ candidates # <<>>
Advance == candidates' = Tail(candidates) /\ tried' = TRUE

SkipFailedRegion ==
    /\ AtWork /\ FleetRegion[Current] \in failed_regions
    /\ Advance
    /\ UNCHANGED <<rowVars, cleanup_enabled, failed_regions, answered_regions, cleanup_open, memoryVars, phase, mishaps>>

Tries == AtWork /\ FleetRegion[Current] \notin failed_regions

\* FleetsRunner.free_resources: a fleet is deleted only when its job is terminal.
_may_delete_fleet(j) == j \in ended

Forgotten(j) == SelectSeq(failed_attempts, LAMBDA k : k # j)

\* Mutant: the row is stamped when the delete is sent, and not only when it is confirmed.
StampsWhenSent ==
    /\ Tries /\ _may_delete_fleet(Current) /\ FleetRegion[Current] \notin Lifeless
    /\ exists' = IF Current \in Elsewhere \cup Refused THEN exists ELSE exists \ {Current}
    /\ stamped' = stamped \cup {Current}
    /\ failed_attempts' = Forgotten(Current) /\ attempts' = [attempts EXCEPT ![Current] = 0]
    /\ answered_regions' = answered_regions \cup {FleetRegion[Current]}
    /\ Advance
    /\ UNCHANGED <<ended, aged, cleanup_enabled, failed_regions, cleanup_open, given_up, phase, mishaps>>

\* The fleet is deleted, or is not there (404): both stamp the row.
_delete_and_stamp ==
    /\ Tries /\ _may_delete_fleet(Current) /\ FleetRegion[Current] \notin Lifeless /\ Current \notin Refused
    /\ exists' = IF Current \in Elsewhere THEN exists ELSE exists \ {Current}
    /\ stamped' = stamped \cup {Current}
    /\ failed_attempts' = Forgotten(Current) /\ attempts' = [attempts EXCEPT ![Current] = 0]
    /\ answered_regions' = answered_regions \cup {FleetRegion[Current]}
    /\ Advance
    /\ UNCHANGED <<ended, aged, cleanup_enabled, failed_regions, cleanup_open, given_up, phase, mishaps>>

\* The tracked failures once the oldest makes room for a new one.
Tracked(j) ==
    IF j \in ToSet(failed_attempts) THEN failed_attempts
    ELSE Append(IF Len(failed_attempts) >= MaxTracked THEN SubSeq(failed_attempts, 2, Len(failed_attempts)) ELSE failed_attempts, j)

\* Mutant: a fleet that cannot be deleted is tried for ever.
NeverGivesUp ==
    /\ Tries /\ FleetRegion[Current] \notin Lifeless /\ Current \in Refused
    /\ Advance
    /\ UNCHANGED <<rowVars, cleanup_enabled, failed_regions, answered_regions, cleanup_open, memoryVars, phase, mishaps>>

\* The delete is refused in a way a retry will not fix.
_count_failure ==
    /\ Tries /\ FleetRegion[Current] \notin Lifeless /\ Current \in Refused
    /\ LET tracked == Tracked(Current)
           failures == attempts[Current] + 1
           gave_up == failures >= MaxAttempts
       IN /\ failed_attempts' = IF gave_up THEN SelectSeq(tracked, LAMBDA k : k # Current) ELSE tracked
          /\ attempts' = [j \in FleetRows |-> IF j \notin ToSet(tracked) \/ (j = Current /\ gave_up) THEN 0
                                              ELSE IF j = Current THEN failures ELSE attempts[j]]
          /\ given_up' = IF ~gave_up THEN given_up
                         ELSE Append(IF Len(given_up) >= MaxTracked THEN SubSeq(given_up, 2, Len(given_up)) ELSE given_up, Current)
    /\ Advance
    /\ UNCHANGED <<rowVars, cleanup_enabled, failed_regions, answered_regions, cleanup_open, phase, mishaps>>

\* Code Engine does not answer: the delete may have been done.  The breaker counts the cycle (it may open),
\* and the other fleets of the region wait for a later one.
Unanswered ==
    /\ Tries
    /\ \/ FleetRegion[Current] \in Lifeless /\ UNCHANGED <<exists, mishaps>> /\ cleanup_open' = cleanup_open \cup {FleetRegion[Current]}
       \/ FleetRegion[Current] \notin Lifeless /\ Mishap /\ cleanup_open' \in {cleanup_open, cleanup_open \cup {FleetRegion[Current]}}
          /\ exists' \in {exists, IF Current \in Elsewhere \cup Refused THEN exists ELSE exists \ {Current}}
    /\ failed_regions' = failed_regions \cup {FleetRegion[Current]}
    /\ Advance
    /\ UNCHANGED <<ended, aged, stamped, cleanup_enabled, answered_regions, memoryVars, phase>>

\* The loop ends, or its time budget is spent: the first delete always goes.  The regions that answered
\* close their breaker.
EndCleanup ==
    /\ phase = "cycle" /\ (candidates = <<>> \/ tried = TRUE)
    /\ cleanup_open' = cleanup_open \ (answered_regions \ failed_regions)
    /\ candidates' = <<>> /\ tried' = FALSE /\ failed_regions' = {} /\ answered_regions' = {}
    /\ phase' = "idle"
    /\ UNCHANGED <<rowVars, cleanup_enabled, memoryVars, mishaps>>

-----------------------------------------------------------------------------
(* The jobs, time, operators and crashes. *)

JobEnds(j) == j \notin ended /\ ended' = ended \cup {j} /\ UNCHANGED <<aged, stamped, exists>>
WindowPasses(j) == j \in ended \ aged /\ aged' = aged \cup {j} /\ UNCHANGED <<ended, stamped, exists>>

World ==
    /\ \E j \in FleetRows : JobEnds(j) \/ WindowPasses(j)
    /\ UNCHANGED <<cleanup_enabled, candidates, tried, failed_regions, answered_regions, cleanup_open, memoryVars, phase, mishaps>>

\* A breaker's pause is over.  It outlasts the tick it began in: a tick takes a second, a pause many.
CleanupPauseEnds(r) ==
    /\ r \in cleanup_open \ failed_regions /\ phase = "cycle"
    /\ cleanup_open' = cleanup_open \ {r}
    /\ UNCHANGED <<rowVars, cleanup_enabled, candidates, tried, failed_regions, answered_regions, memoryVars, phase, mishaps>>

SwitchCleanup ==
    /\ Mishap /\ cleanup_enabled' = ~cleanup_enabled
    /\ UNCHANGED <<rowVars, candidates, tried, failed_regions, answered_regions, cleanup_open, memoryVars, phase>>

\* The scheduler is killed, perhaps after a delete and before its stamp, and starts with an empty memory.
CleanupRestart ==
    /\ Mishap
    /\ exists' \in {exists, IF Tries /\ Current \in ended \ (Elsewhere \cup Refused) THEN exists \ {Current} ELSE exists}
    /\ candidates' = <<>> /\ tried' = FALSE /\ failed_regions' = {} /\ answered_regions' = {} /\ cleanup_open' = {}
    /\ failed_attempts' = <<>> /\ attempts' = [j \in FleetRows |-> 0] /\ given_up' = <<>>
    /\ phase' = "idle"
    /\ UNCHANGED <<ended, aged, stamped, cleanup_enabled>>

CycleSteps == StartCleanup \/ SkipFailedRegion \/ _delete_and_stamp \/ _count_failure \/ Unanswered \/ EndCleanup

CleanupNext == CycleSteps \/ World \/ SwitchCleanup \/ CleanupRestart \/ \E r \in FleetRegions : CleanupPauseEnds(r)

-----------------------------------------------------------------------------
(* Properties *)

\* A fleet is never deleted under a job that has not ended, a row is stamped only when its project holds the
\* fleet no more, whatever answer was lost, and the memory of the failures stays within its bound.
DeletesAreTrue ==
    /\ FleetRows \ ended \subseteq exists
    /\ stamped \cap exists \subseteq Elsewhere
    /\ Len(failed_attempts) <= MaxTracked /\ Len(given_up) <= MaxTracked
    /\ ToSet(failed_attempts) \cap ToSet(given_up) = {}

\* A cycle that deletes all it takes leaves every project under its threshold, unless the cycle's deletes are
\* spent or nothing of the project can be deleted; it takes the oldest first; and a project that is not over
\* the threshold only loses fleets past the window.
QuotaIsRestored ==
    LET counts == _count_held_fleets
        taken == ToSet(_jobs_to_clean(_projects_over_quota(counts)))
        of(p, rows) == {j \in rows : FleetProject[j] = p}
    IN \A p \in DOMAIN counts \ {UNASSIGNED_PROJECT} :
           /\ counts[p] >= Threshold =>
                  \/ counts[p] - Cardinality(of(p, taken)) < Threshold
                  \/ of(p, deletable) \subseteq taken
                  \/ Cardinality(taken) = MaxDeletes
           /\ counts[p] < Threshold => of(p, taken) \subseteq aged
           /\ counts[p] >= Threshold => \A j \in of(p, taken), k \in of(p, deletable \ taken) : j < k

\* The cleanup deletes what it should and no more.
CleanupIsSafe == DeletesAreTrue /\ QuotaIsRestored

\* The fleet of an ended job past the window is deleted or given up, while the cleanup is on: neither a region
\* that never answers nor the fleets that are refused keep the others waiting.
OldFleetsGo ==
    \A j \in FleetRows : FleetRegion[j] \notin Lifeless =>
        (j \in aged ~> (j \in stamped \/ j \in ToSet(given_up) \/ ~cleanup_enabled))
=============================================================================
