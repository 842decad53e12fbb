---------------------------- MODULE AccountEvents ----------------------------
(***************************************************************************)
(* The mirror of the blocked accounts: ConsumeBlockedAccountEvents drains  *)
(* the billing service's topics on every tick of the scheduler through     *)
(* KafkaRegionalConsumer (core/ibm_cloud/event_streams/kafka_consumer.py), *)
(* and BlockedAccountEventsService upserts or deletes a row of             *)
(* BlockedCloudResource for each event.                                    *)
(*                                                                         *)
(* A queue is one partition of a topic in one region.  The broker keeps    *)
(* its events, the committed offset and the commit still under way; the    *)
(* consumer keeps a position, taken from the committed offset whenever the *)
(* partition is assigned.  Every message is a step, so a kill signal, a    *)
(* rebalance, a failure of the database and the end of the process may     *)
(* come between any two.                                                   *)
(***************************************************************************)
EXTENDS Integers, Sequences, FiniteSets

CONSTANTS Queues,     \* the partitions of every topic in every region
          RegionOf,   \* Event Streams region of each queue
          ReasonOf,   \* the reason topic_reasons gives to the topic of each queue
          EventLog,        \* the payloads billing-service publishes to each queue, in order
          Regions,    \* region_configs(), in order
          DownRegions,       \* regions whose consumer can never be built
          Crns,       \* instance CRNs of the jobs, as sequences of segments
          MaxBatch,   \* MAX_MESSAGES_PER_REGION_PER_TICK
          MaxEventFaults   \* bound on failures, rebalances and kills

RegionSet == {Regions[i] : i \in DOMAIN Regions}

\* The regions are listed and have names; the outcomes of a fetch that are no messages are no queues.
\* Two queues of one topic and region never carry the same resource: it is the key of its events.
ASSUME AccountEventsAssumption ==
    /\ MaxBatch \in Nat \ {0} /\ MaxEventFaults \in Nat
    /\ Regions \in Seq(RegionSet) /\ {"none", ""} \cap RegionSet = {}
    /\ {"error", "fatal"} \cap Queues = {} /\ Crns \subseteq Seq(STRING)
    /\ \A q \in Queues : EventLog[q] \in Seq([resource : {EventLog[q][i].resource : i \in DOMAIN EventLog[q]},
                                         form : {"bare", "prefixed", "unusable"},
                                         deleted : {"absent", "false", "true", "unusable"}])
    /\ \A p, q \in Queues : p # q /\ RegionOf[p] = RegionOf[q] /\ ReasonOf[p] = ReasonOf[q] =>
          \A i \in DOMAIN EventLog[p], k \in DOMAIN EventLog[q] : EventLog[p][i].resource # EventLog[q][k].resource

BlockedResources == UNION {{EventLog[q][i].resource : i \in DOMAIN EventLog[q]} : q \in Queues}
QueuesOf(region) == {q \in Queues : RegionOf[q] = region}

VARIABLES
    \* the broker: messages so far, committed offset, and the commit on its way (0: none)
    published, committed, commits,
    \* the BlockedCloudResource table
    blocked,
    \* the scheduler process
    consumers,     \* _consumers
    fatal,         \* _fatal_regions
    assigned, position,
    drainPc, todo,      \* regions left in this drain
    batch, done,   \* messages left of the region's batch, and the finished offsets (0: none)
    killed, faults

brokerVars == <<published, committed, commits>>
consumerVars == <<consumers, fatal, assigned, position>>
drainVars == <<drainPc, todo, batch, done>>
eventVars == <<brokerVars, blocked, consumerVars, drainVars, killed, faults>>

EventMessages == [queue : Queues, offset : Nat, error : {"none"}] \cup [error : {"error", "fatal"}]
NoOffsets == [q \in Queues |-> 0]

\* Type correctness of the broker, the table and the locals of the drain.
EventsTypeOK ==
    /\ published \in [Queues -> Nat] /\ committed \in [Queues -> Nat] /\ commits \in [Queues -> Nat]
    /\ blocked \subseteq BlockedResources \X {ReasonOf[q] : q \in Queues} \X RegionSet
    /\ consumers \subseteq RegionSet /\ fatal \subseteq RegionSet
    /\ assigned \subseteq Queues /\ position \in [Queues -> Nat]
    /\ drainPc \in {"idle", "region", "consume", "handle"} /\ todo \in Seq(RegionSet)
    /\ batch \in Seq(EventMessages) /\ done \in [Queues -> Nat]
    /\ killed \in BOOLEAN /\ faults \in 0..MaxEventFaults

EventsInit ==
    /\ published = NoOffsets /\ committed = NoOffsets /\ commits = NoOffsets
    /\ blocked = {}
    /\ consumers = {} /\ fatal = {} /\ assigned = {} /\ position = NoOffsets
    /\ drainPc = "idle" /\ todo = <<>> /\ batch = <<>> /\ done = NoOffsets
    /\ killed = FALSE /\ faults = 0

EventFault == faults < MaxEventFaults /\ faults' = faults + 1
-----------------------------------------------------------------------------
(* The payload of an event *)

\* Mutant: the prefix of the account is kept.
KeepsPrefix(payload) ==
    [invalid  |-> payload.form = "unusable" \/ payload.deleted = "unusable",
     resource |-> IF payload.form = "prefixed" THEN <<"a/", payload.resource>> ELSE payload.resource,
     deleted  |-> payload.deleted = "true"]

\* The account loses its a/ prefix.  "unusable": a field is missing, empty, not a string or too long,
\* the payload is no JSON object, or deleted is not a boolean.
ParseEvent(payload) ==
    [invalid  |-> payload.form = "unusable" \/ payload.deleted = "unusable",
     resource |-> payload.resource,
     deleted  |-> payload.deleted = "true"]

BlockedRow(q, resource) == <<resource, ReasonOf[q], RegionOf[q]>>

\* The table after the event at this offset of the queue: get_or_create, or delete, of one row.
Handled(q, offset) ==
    LET event == ParseEvent(EventLog[q][offset + 1])
        row == BlockedRow(q, event.resource)
    IN  IF event.invalid THEN blocked ELSE IF event.deleted THEN blocked \ {row} ELSE blocked \cup {row}
-----------------------------------------------------------------------------
(* The billing service and the broker *)

Publish(q) ==
    /\ published[q] < Len(EventLog[q])
    /\ published' = [published EXCEPT ![q] = @ + 1]
    /\ UNCHANGED <<committed, commits, blocked, consumerVars, drainVars, killed, faults>>

\* A commit that lands, or that the broker refuses: reported to _on_commit, which only counts it.
CommitLands(q) ==
    /\ commits[q] > 0
    /\ committed' = [committed EXCEPT ![q] = commits[q]]
    /\ commits' = [commits EXCEPT ![q] = 0]
    /\ UNCHANGED <<published, blocked, consumerVars, drainVars, killed, faults>>

CommitFails(q) ==
    /\ commits[q] > 0 /\ EventFault
    /\ commits' = [commits EXCEPT ![q] = 0]
    /\ UNCHANGED <<published, committed, blocked, consumerVars, drainVars, killed>>

\* The group coordinator takes a partition away, which fences the commit under way.
Revoke(q) ==
    /\ q \in assigned /\ EventFault
    /\ assigned' = assigned \ {q}
    /\ commits' = [commits EXCEPT ![q] = 0]
    /\ UNCHANGED <<published, committed, blocked, consumers, fatal, position, drainVars, killed>>

\* It gives a partition to the member inside consume(), where the callbacks are served.
Assign(q) ==
    /\ drainPc = "consume" /\ RegionOf[q] = Head(todo) /\ q \notin assigned
    /\ assigned' = assigned \cup {q}
    /\ position' = [position EXCEPT ![q] = committed[q]]
    /\ UNCHANGED <<brokerVars, blocked, consumers, fatal, drainVars, killed, faults>>
-----------------------------------------------------------------------------
(* KafkaRegionalConsumer.drain *)

StartDrain ==
    /\ drainPc = "idle" /\ ~killed
    /\ todo' = Regions /\ drainPc' = "region"
    /\ UNCHANGED <<brokerVars, blocked, consumerVars, batch, done, killed, faults>>

\* The last region, or the kill signal, ends the drain; a transient failure is raised here.
EndDrain ==
    /\ drainPc = "region" /\ (todo = <<>> \/ killed)
    /\ drainPc' = "idle" /\ todo' = <<>>
    /\ UNCHANGED <<brokerVars, blocked, consumerVars, batch, done, killed, faults>>

\* Mutant: a region that is done with ends the drain.
DropsRegions == drainPc' = "region" /\ todo' = <<>>

NextRegion == drainPc' = "region" /\ todo' = Tail(todo)

\* Closing a consumer gives its partitions up; what it had committed is awaited or lost.
Closed(region) ==
    /\ assigned' = assigned \ QueuesOf(region)
    /\ commits' = [q \in Queues |-> IF q \in QueuesOf(region) THEN 0 ELSE commits[q]]

\* _drain_region up to consume(): the consumer of a region with a fatal error is closed and built again.
GetConsumer ==
    /\ drainPc = "region" /\ todo # <<>> /\ ~killed
    /\ LET region == Head(todo)
           open == region \in consumers /\ region \notin fatal
       IN  /\ fatal' = fatal \ {region}
           /\ IF region \in fatal THEN Closed(region) ELSE UNCHANGED <<assigned, commits>>
           /\ \/ /\ open \/ region \notin DownRegions
                 /\ consumers' = consumers \cup {region}
                 /\ drainPc' = "consume"
                 /\ UNCHANGED <<todo, faults>>
              \/ /\ ~open /\ region \in DownRegions
                 /\ consumers' = consumers \ {region}
                 /\ NextRegion
                 /\ UNCHANGED faults
              \/ /\ ~open /\ region \notin DownRegions /\ EventFault
                 /\ consumers' = consumers \ {region}
                 /\ NextRegion
    /\ UNCHANGED <<published, committed, blocked, position, batch, done, killed>>

\* consume() raises.  A fatal error has the consumer rebuilt by the next drain.
ConsumeRaises ==
    /\ drainPc = "consume" /\ EventFault
    /\ fatal' \in {fatal, fatal \cup {Head(todo)}}
    /\ NextRegion
    /\ UNCHANGED <<brokerVars, blocked, consumers, assigned, position, batch, done, killed>>

CountOf(s, q) == Cardinality({i \in DOMAIN s : s[i] = q})

\* What consume() may return: messages of the assigned partitions, each from its position on, in any
\* interleaving, with errors among them.
Fetches(region) ==
    {s \in UNION {[1..n -> (QueuesOf(region) \cap assigned) \cup {"error", "fatal"}] : n \in 0..MaxBatch} :
        /\ \A q \in QueuesOf(region) : CountOf(s, q) <= published[q] - position[q]
        /\ CountOf(s, "error") + CountOf(s, "fatal") <= MaxEventFaults - faults
        /\ CountOf(s, "error") + CountOf(s, "fatal") <= 1}

\* A fetch leaves out messages only when the batch is full.
Complete(region, s) ==
    \/ Len(s) = MaxBatch
    \/ \A q \in QueuesOf(region) \cap assigned : CountOf(s, q) = published[q] - position[q]

Consume ==
    /\ drainPc = "consume"
    /\ LET region == Head(todo)
       IN  \E s \in Fetches(region) :
              /\ Complete(region, s)
              /\ batch' = [i \in DOMAIN s |->
                    IF s[i] \in Queues
                    THEN [queue |-> s[i], offset |-> position[s[i]] + CountOf(SubSeq(s, 1, i - 1), s[i]), error |-> "none"]
                    ELSE [error |-> s[i]]]
              /\ position' = [q \in Queues |-> position[q] + CountOf(s, q)]
              /\ faults' = faults + CountOf(s, "error") + CountOf(s, "fatal")
    /\ done' = NoOffsets
    /\ drainPc' = "handle"
    /\ UNCHANGED <<brokerVars, blocked, consumers, fatal, assigned, todo, killed>>

\* A message that carries an error: a fatal one ends the batch.
ErrorMessage ==
    /\ drainPc = "handle" /\ batch # <<>> /\ ~killed
    /\ Head(batch).error # "none"
    /\ IF Head(batch).error = "fatal"
       THEN batch' = <<>> /\ fatal' = fatal \cup {Head(todo)}
       ELSE batch' = Tail(batch) /\ UNCHANGED fatal
    /\ UNCHANGED <<brokerVars, blocked, consumers, assigned, position, drainPc, todo, done, killed, faults>>

\* _handle returns None: the event is applied, or it can never be.
HandleMessage ==
    /\ drainPc = "handle" /\ batch # <<>> /\ ~killed
    /\ Head(batch).error = "none"
    /\ blocked' = Handled(Head(batch).queue, Head(batch).offset)
    /\ done' = [done EXCEPT ![Head(batch).queue] = Head(batch).offset + 1]
    /\ batch' = Tail(batch)
    /\ UNCHANGED <<brokerVars, consumerVars, drainPc, todo, killed, faults>>

\* The first offset of each queue in the messages that are left.
FirstOffset(q) ==
    LET first == CHOOSE i \in DOMAIN batch :
                    /\ batch[i].error = "none" /\ batch[i].queue = q
                    /\ \A k \in 1..(i - 1) : batch[k].error = "none" => batch[k].queue # q
    IN  batch[first].offset
InBatch == {batch[i].queue : i \in {k \in DOMAIN batch : batch[k].error = "none"}}

\* Mutant: only the commit is held back.
RewindsNothing == UNCHANGED position

\* _rewind: a seek fails for a partition that was revoked.
Rewind == position' = [q \in Queues |-> IF q \in InBatch \cap assigned THEN FirstOffset(q) ELSE position[q]]

\* _handle returns a failure worth a retry; what is left of the batch is fetched again.
HandleFails ==
    /\ drainPc = "handle" /\ batch # <<>> /\ ~killed /\ EventFault
    /\ Head(batch).error = "none" /\ ~ParseEvent(EventLog[Head(batch).queue][Head(batch).offset + 1]).invalid
    /\ Rewind
    /\ batch' = <<>>
    /\ UNCHANGED <<brokerVars, blocked, consumers, fatal, assigned, drainPc, todo, done, killed>>

\* _commit, asynchronous and of the finished offsets only; the kill signal leaves the rest of the batch.
\* A commit for a revoked partition is refused, and commit() itself may raise.
CommitOffsets ==
    /\ drainPc = "handle" /\ (batch = <<>> \/ killed)
    /\ \/ /\ commits' = [q \in Queues |-> IF done[q] > 0 /\ q \in assigned THEN done[q] ELSE commits[q]]
          /\ UNCHANGED faults
       \/ /\ done # NoOffsets /\ EventFault
          /\ UNCHANGED commits
    /\ batch' = <<>> /\ done' = NoOffsets
    /\ NextRegion
    /\ UNCHANGED <<published, committed, blocked, consumerVars, killed>>
-----------------------------------------------------------------------------
(* The process *)

KillDrain ==
    /\ ~killed /\ EventFault
    /\ killed' = TRUE
    /\ UNCHANGED <<brokerVars, blocked, consumerVars, drainVars>>

FreshDrain ==
    /\ consumers' = {} /\ fatal' = {} /\ assigned' = {}
    /\ drainPc' = "idle" /\ todo' = <<>> /\ batch' = <<>> /\ done' = NoOffsets
    /\ killed' = FALSE
    /\ commits' = NoOffsets
    /\ UNCHANGED <<published, committed, blocked, position>>

\* After the kill signal the task closes its consumers; a new process takes over.
RestartDrain == killed /\ drainPc = "idle" /\ FreshDrain /\ UNCHANGED faults

\* The process dies anywhere.
CrashDrain == EventFault /\ FreshDrain

SchedulerNext ==
    StartDrain \/ EndDrain \/ GetConsumer \/ ConsumeRaises \/ Consume \/ ErrorMessage \/ HandleMessage
    \/ HandleFails \/ CommitOffsets \/ RestartDrain

EventsNext ==
    \/ SchedulerNext \/ KillDrain \/ CrashDrain
    \/ \E q \in Queues : Publish(q) \/ CommitLands(q) \/ CommitFails(q) \/ Revoke(q) \/ Assign(q)

EventsSpec == EventsInit /\ [][EventsNext]_eventVars
-----------------------------------------------------------------------------
(* The gate the table feeds *)

\* Crn.parse: the region needs six colons, and is not empty; the values are the segments.
NoRegion == "none"
RegionOfCrn(crn) == IF Len(crn) <= 6 \/ crn[6] = "" THEN NoRegion ELSE crn[6]

\* Mutant: the regex stops at the region.
MatchesPrefix(crn, region) == Len(crn) >= 6 /\ crn[6] = region

\* region_crn_regex: five segments, then the region followed by a colon.
MatchesRegion(crn, region) == Len(crn) > 6 /\ crn[6] = region

\* BlockedCloudResource.blocks, asked with the region of the instance, while blocks are enforced.
Blocks(resource, crn, regional) ==
    \E row \in blocked : row[1] = resource /\ (regional => row[3] = RegionOfCrn(crn))

\* BlockedCloudResource.blocked_jobs_filter: one condition per distinct resource, and region.
BlockedJobsFilter(resource, crn, regional) ==
    IF regional
    THEN \E row \in {<<r[1], r[3]>> : r \in blocked} : row[1] = resource /\ MatchesRegion(crn, row[2])
    ELSE resource \in {r[1] : r \in blocked}
-----------------------------------------------------------------------------
(* Properties *)

\* What billing-service says of a resource in the first n events of a queue.
SaysBlocked(q, resource, n) ==
    \E k \in 1..n :
        /\ EventLog[q][k].form # "unusable" /\ EventLog[q][k].deleted \in {"absent", "false"}
        /\ EventLog[q][k].resource = resource
        /\ \A i \in (k + 1)..n :
              EventLog[q][i].resource = resource => EventLog[q][i].form = "unusable" \/ EventLog[q][i].deleted = "unusable"

\* The committed offset never passes an event the table has not taken: for every resource, limit and
\* region the row is what billing-service said at some point at or after the committed offset, whatever
\* was retried, redelivered, rewound or lost (_drain_region, _rewind and _commit of the consumer, and the
\* unblock that lifts only its own row).
CommittedWasApplied ==
    \A q \in Queues : \A resource \in {EventLog[q][i].resource : i \in DOMAIN EventLog[q]} :
        \E n \in committed[q]..published[q] : BlockedRow(q, resource) \in blocked <=> SaysBlocked(q, resource, n)

\* The gateway's warning at submission and the scheduler's selection of jobs agree on every job, with
\* and without regional matching: blocks() and blocked_jobs_filter() read the CRN in different ways.
GatesAgree ==
    \A resource \in BlockedResources, crn \in Crns, regional \in BOOLEAN :
        Blocks(resource, crn, regional) <=> BlockedJobsFilter(resource, crn, regional)

\* The table follows the events that were committed, and the two gates read it alike.
BlocksAreKept == EventsTypeOK /\ CommittedWasApplied /\ GatesAgree

\* Once billing-service has published everything, the table becomes and stays its blocked set in every
\* region that can be reached, also when another region is down for good (the retries of the drain).
Converges ==
    <>(\A q \in Queues : published[q] = Len(EventLog[q])) =>
    <>[](\A q \in Queues : RegionOf[q] \notin DownRegions =>
            \A resource \in {EventLog[q][i].resource : i \in DOMAIN EventLog[q]} :
                BlockedRow(q, resource) \in blocked <=> SaysBlocked(q, resource, Len(EventLog[q])))
=============================================================================
