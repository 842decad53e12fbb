---------------------------- MODULE JobLifecycle ----------------------------
(***************************************************************************)
(* What JobTransitionService promises of a job, whoever calls it and in    *)
(* whatever order: the abstract specification that FleetsJobs implements.  *)
(* A job moves along VALID_TRANSITIONS, each move leaves one JobEvent, and *)
(* the move that ends the job also enqueues everything it owes.            *)
(***************************************************************************)
EXTENDS JobStatuses, Naturals, Sequences

CONSTANTS Jobs,
          Mirrored  \* jobs created with a WorkloadMirror row

VARIABLES status,  \* Job.status
          events,  \* the STATUS_CHANGE JobEvents, oldest first
          outbox,  \* Outbox rows ever created, per channel
          mirror   \* whether the WorkloadMirror row exists

lifecycleVars == <<status, events, outbox, mirror>>

Ended(j) == status[j] \in TERMINAL_STATUSES
WasRunning(j) == \E i \in DOMAIN events[j] : events[j][i] = "RUNNING"

Init ==
    /\ status = [j \in Jobs |-> "QUEUED"]
    /\ events = [j \in Jobs |-> <<"QUEUED">>]
    /\ outbox = [j \in Jobs |-> [c \in Channels |-> 0]]
    /\ mirror = [j \in Jobs |-> j \in Mirrored]

\* _change_status: validated under the row lock, recorded with its event.
Move(j, s) ==
    /\ s \in VALID_TRANSITIONS[status[j]]
    /\ status' = [status EXCEPT ![j] = s]
    /\ events' = [events EXCEPT ![j] = Append(@, s)]

\* A transition to PENDING, RUNNING or STOPPING owes nothing.
Advance(j, s) ==
    /\ s \notin TERMINAL_STATUSES
    /\ Move(j, s)
    /\ UNCHANGED <<outbox, mirror>>

\* The messages an end may owe: the final status exactly when the job is
\* mirrored, the license fee only when the job ran.
MayOwe(j, s, owed) ==
    /\ "WORKLOAD" \in owed <=> mirror[j]
    /\ "LICENSE_FEE" \in owed => s = "SUCCEEDED" \/ WasRunning(j)

\* A transition to a terminal status, with all it owes, in one transaction.
End(j, s) ==
    /\ s \in TERMINAL_STATUSES
    /\ Move(j, s)
    /\ \E owed \in SUBSET Channels :
          /\ MayOwe(j, s, owed)
          /\ outbox' = [outbox EXCEPT ![j] = [c \in Channels |-> IF c \in owed THEN @[c] + 1 ELSE @[c]]]
    /\ mirror' = [mirror EXCEPT ![j] = FALSE]

Next == \E j \in Jobs, s \in Statuses : Advance(j, s) \/ End(j, s)

Spec == Init /\ [][Next]_lifecycleVars

-----------------------------------------------------------------------------
(* Properties. *)

\* The state is well formed.
LifecycleTypeOK ==
    /\ status \in [Jobs -> Statuses]
    /\ events \in [Jobs -> Seq(Statuses)]
    /\ outbox \in [Jobs -> [Channels -> Nat]]
    /\ mirror \in [Jobs -> BOOLEAN]

\* A final status is never overwritten, and nothing more is recorded or
\* enqueued for the job, whoever else was about to move it (_change_status).
TerminalIsFinal ==
    [][\A j \in Jobs : Ended(j) =>
          /\ status'[j] = status[j]
          /\ events'[j] = events[j]
          /\ outbox'[j] = outbox[j]]_lifecycleVars

Rank(s) == IF s = "QUEUED" THEN 0 ELSE IF s = "PENDING" THEN 1 ELSE IF s = "RUNNING" THEN 2
           ELSE IF s = "STOPPING" THEN 3 ELSE 4

\* Along the history of a job every status is new, RUNNING included ("A job
\* reaches RUNNING only once", pending_to_running), and the last event is the
\* row's status.
HistoryAdvances ==
    \A j \in Jobs :
        /\ Len(events[j]) > 0
        /\ events[j][Len(events[j])] = status[j]
        /\ \A i, k \in 1..Len(events[j]) : i < k => Rank(events[j][i]) < Rank(events[j][k])

\* Each message is enqueued at most once and only at the end of the job; the
\* final status of a mirrored job is always enqueued with it and its
\* WorkloadMirror row lives exactly as long as the job is active; and a
\* license fee is owed only by a job that succeeded or was seen in RUNNING
\* (to_succeeded, to_stopped_or_failed, _enqueue_workload).
OutboxExact ==
    \A j \in Jobs :
        /\ \A c \in Channels : outbox[j][c] = 0 \/ (outbox[j][c] = 1 /\ Ended(j))
        /\ outbox[j]["WORKLOAD"] = 1 <=> j \in Mirrored /\ Ended(j)
        /\ mirror[j] <=> j \in Mirrored /\ ~Ended(j)
        /\ outbox[j]["LICENSE_FEE"] = 1 => status[j] = "SUCCEEDED" \/ WasRunning(j)

=============================================================================
