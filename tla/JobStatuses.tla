----------------------------- MODULE JobStatuses -----------------------------
(***************************************************************************)
(* The statuses of a job (core/models.py) and the moves between them that  *)
(* JobTransitionService allows (core/services/job_transitions.py).         *)
(***************************************************************************)

Statuses == {"QUEUED", "PENDING", "RUNNING", "STOPPING", "SUCCEEDED", "FAILED", "STOPPED"}
TERMINAL_STATUSES == {"SUCCEEDED", "FAILED", "STOPPED"}
RUNNING_STATUSES == {"RUNNING", "PENDING", "STOPPING"}
ACTIVE_STATUSES == {"QUEUED", "PENDING", "RUNNING", "STOPPING"}

\* The Outbox channels of the messages a job owes when it ends.
Channels == {"JOB_USAGE", "LICENSE_FEE", "WORKLOAD"}

\* The statuses a row may move to, by its current status.
VALID_TRANSITIONS ==
    [s \in Statuses |->
        CASE s = "QUEUED"   -> {"PENDING", "FAILED", "STOPPED", "STOPPING"}
          [] s = "PENDING"  -> TERMINAL_STATUSES \cup {"STOPPING", "RUNNING"}
          [] s = "RUNNING"  -> TERMINAL_STATUSES \cup {"STOPPING"}
          [] s = "STOPPING" -> TERMINAL_STATUSES
          [] s \in TERMINAL_STATUSES -> {}]

=============================================================================
