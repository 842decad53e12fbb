-------------------------- MODULE MCOutboxDelivery --------------------------
(***************************************************************************)
(* Small instances of OutboxDelivery for TLC.  A unit of time is half a    *)
(* second.                                                                 *)
(***************************************************************************)
EXTENDS OutboxDelivery, TLC

Three == {1, 2, 3}
Four == {1, 2, 3, 4}
\* OutboxTask drains the channels in this order; the billing channels share Kafka.
AllChannels == <<"LICENSE_FEE", "JOB_USAGE", "WORKLOAD">>
SharedKafka == "LICENSE_FEE" :> "kafka" @@ "JOB_USAGE" :> "kafka" @@ "WORKLOAD" :> "runtime"

\* Two usage messages, a license fee and a final status.
Mixed == <<"JOB_USAGE", "JOB_USAGE", "LICENSE_FEE", "WORKLOAD">>
\* Final statuses only.
Workloads == <<"WORKLOAD", "WORKLOAD", "WORKLOAD">>

OneRegion == <<"east", "east", "east", "east">>
\* A bad row alone in a region, and another beside the healthy row.
DeadEast == <<"east", "south", "south">>

=============================================================================
