--------------------------- MODULE JobTransitions ---------------------------
(***************************************************************************)
(* JobTransitionService (gateway/core/services/job_transitions.py): the    *)
(* job rows of the database and the transactions that change a status.     *)
(* Each transition runs under the row lock of its job, so one transition   *)
(* is one atomic step; what its caller read before it may be stale.        *)
(*                                                                         *)
(* A job is a model value.  The message payloads are left out: an Outbox   *)
(* row is counted per channel.  The best-effort sends that follow a        *)
(* commit leave the database alone and are left out.                       *)
(***************************************************************************)
EXTENDS JobStatuses, Naturals, Sequences, FiniteSets

CONSTANTS Jobs,        \* the Fleets job rows
          Filler,      \* rows with filler=True
          Billable,    \* rows that carry an instance_crn and are not fillers
          FeeBillable, \* billable rows whose program has a provider, with a size
          Mirrored     \* rows created with a WorkloadMirror row

ASSUME JobsAssumption ==
    /\ IsFiniteSet(Jobs)
    /\ Filler \subseteq Jobs
    /\ Billable \subseteq Jobs \ Filler
    /\ FeeBillable \subseteq Billable
    /\ Mirrored \subseteq Billable

VARIABLES status,   \* Job.status
          fleetId,  \* whether Job.fleet_id is set
          envKept,  \* whether Job.env_vars still holds the submitted values
          events,   \* the STATUS_CHANGE JobEvents of the row, oldest first
          errors,   \* the codes of its ERROR JobEvents
          outbox,   \* Outbox rows ever created for the row, per channel
          mirror    \* whether its WorkloadMirror row exists

dbVars == <<status, fleetId, envKept, events, errors, outbox, mirror>>

ErrorCodes == {"FLEET_SUBMIT_FAILED", "FLEET_LEFT_RUNNING", "BLOCKED_RESOURCE"}

DBTypeOK ==
    /\ status \in [Jobs -> Statuses]
    /\ fleetId \in [Jobs -> BOOLEAN]
    /\ envKept \in [Jobs -> BOOLEAN]
    /\ events \in [Jobs -> Seq(Statuses)]
    /\ errors \in [Jobs -> SUBSET ErrorCodes]
    /\ outbox \in [Jobs -> [Channels -> Nat]]
    /\ mirror \in [Jobs -> BOOLEAN]

\* A row as the run use case commits it: QUEUED, with its QUEUED event.
DBInit ==
    /\ status = [j \in Jobs |-> "QUEUED"]
    /\ fleetId = [j \in Jobs |-> FALSE]
    /\ envKept = [j \in Jobs |-> TRUE]
    /\ events = [j \in Jobs |-> <<"QUEUED">>]
    /\ errors = [j \in Jobs |-> {}]
    /\ outbox = [j \in Jobs |-> [c \in Channels |-> 0]]
    /\ mirror = [j \in Jobs |-> j \in Mirrored]

Terminal(j) == status[j] \in TERMINAL_STATUSES

\* JobEvent.objects.first_running_at(job) is not None.
HasRun(j) == \E i \in DOMAIN events[j] : events[j][i] = "RUNNING"

\* The validation _change_status makes on the status it reads under the lock.
MayChange(j, s) == s \in VALID_TRANSITIONS[status[j]]

\* The two writes of _change_status, once validated.
ChangeStatus(j, s) ==
    /\ status' = [status EXCEPT ![j] = s]
    /\ events' = [events EXCEPT ![j] = Append(@, s)]

\* build_workload_payload raises ValueError for a mirrored job whose instance
\* has lost its program, and the whole transaction rolls back.
PayloadRejected(j, program) == mirror[j] /\ ~program

\* Outbox.objects.create for each of the channels.
Enqueue(j, channels) ==
    outbox' = [outbox EXCEPT ![j] = [c \in Channels |-> IF c \in channels THEN @[c] + 1 ELSE @[c]]]

\* _enqueue_workload: the row of the final status, and the end of the mirror.
WorkloadChannel(j) == IF mirror[j] THEN {"WORKLOAD"} ELSE {}
LeaveMirror(j) == mirror' = [mirror EXCEPT ![j] = FALSE]

\* Mutant: the license fee is owed whether the job ran or not.
UsageChannelsUnrun(j, s, program) ==
    (IF j \in Billable THEN {"JOB_USAGE"} ELSE {}) \cup (IF j \in FeeBillable /\ program THEN {"LICENSE_FEE"} ELSE {})

\* to_succeeded and to_stopped_or_failed: a success always owes the license
\* fee, a failure or a stop only when the job was seen in RUNNING.
UsageChannels(j, s, program) ==
    (IF j \in Billable THEN {"JOB_USAGE"} ELSE {})
        \cup (IF j \in FeeBillable /\ program /\ (s = "SUCCEEDED" \/ HasRun(j)) THEN {"LICENSE_FEE"} ELSE {})

\* to_terminal, for the caller that only knows the final status.
ToTerminal(j, s, program) ==
    /\ ChangeStatus(j, s)
    /\ Enqueue(j, UsageChannels(j, s, program) \cup WorkloadChannel(j))
    /\ LeaveMirror(j)

\* Mutant: _enqueue_workload is forgotten.
ToStoppedInSilence(j) == ChangeStatus(j, "STOPPED") /\ UNCHANGED <<outbox, mirror>>

\* The transaction of stop() that ends a job with nothing left to cancel.
ToStoppedByStop(j) ==
    /\ ChangeStatus(j, "STOPPED")
    /\ Enqueue(j, WorkloadChannel(j))
    /\ LeaveMirror(j)

\* queued_to_pending, pending_to_running and the STOPPING write of stop().
ToIntermediate(j, s) ==
    /\ ChangeStatus(j, s)
    /\ UNCHANGED <<outbox, mirror>>

=============================================================================
