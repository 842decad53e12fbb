--------------------------- MODULE OutboxDelivery ---------------------------
(***************************************************************************)
(* The delivery of the outbox: OutboxTask (scheduler/tasks/outbox.py),     *)
(* which drains the channels one after the other on every tick of the      *)
(* scheduler, and Destination (scheduler/tasks/outbox_destination.py),     *)
(* which finds the rows of a channel that are due, region by region, sends *)
(* them, and deletes them, puts them into a wait or parks them.            *)
(*                                                                         *)
(* Time is counted in units.  It passes while a send is in progress and    *)
(* between two ticks; next_attempt_at is kept as the time that is left.    *)
(* Every send and every write to the database is a step of its own, so     *)
(* the process may die, and the database may fail, between any two.  A     *)
(* kill signal stops the drain at the same checks and ends the process: it *)
(* is a Restart taken there.                                               *)
(***************************************************************************)
EXTENDS CircuitBreaker, Integers, Sequences, FiniteSets

CONSTANTS Rows,        \* the messages, as the primary keys of their rows, in order of created
          ChannelOf,   \* channel of each row
          RegionOf,    \* region of each row
          Channels,    \* the channels, in the order OutboxTask drains them
          DestinationOf, \* the Destination of each channel
          BatchSenders,  \* the destinations whose sender is a BatchSender
          BATCH_SIZE,
          MIN_RETRY_WAIT,
          MAX_RETRY_DOUBLINGS,
          MAX_RETRY_WAIT,
          RetryBase, RetryMax,  \* Config: the wait after the first failure, and the cap
          Budget,      \* Config: time a channel may take in a tick
          Thresholds,  \* Config: the failure thresholds the operators may set
          Pause,       \* Config: how long a breaker stays open
          Gap,         \* time between two runs of OutboxTask
          SendTimes,   \* how long a send may take
          Healthy,     \* rows the destination takes ...
          Grace,       \* ... once they have failed this many times
          MaxAttempts, \* bound: attempts are counted up to here
          MaxFaults    \* bound on restarts and database errors

Destinations == {DestinationOf[c] : c \in DOMAIN DestinationOf}
Regions == {RegionOf[r] : r \in Rows}

ASSUME OutboxAssumption ==
    /\ Rows \subseteq Nat
    /\ Healthy \subseteq Rows
    /\ {BATCH_SIZE, Grace, MaxAttempts} \subseteq Nat \ {0}
    /\ {MIN_RETRY_WAIT, MAX_RETRY_WAIT, MAX_RETRY_DOUBLINGS, RetryBase, RetryMax, Budget, Pause, Gap, MaxFaults}
          \subseteq Nat
    /\ SendTimes \subseteq Nat /\ Thresholds \subseteq Nat
    \* OutboxTask.channels is a dictionary
    /\ Channels \in Seq(DOMAIN DestinationOf)
    /\ \A i, k \in DOMAIN Channels : Channels[i] = Channels[k] => i = k
    \* the Config entries are integers, and one of the thresholds is the largest
    /\ \E n \in Thresholds : \A k \in Thresholds : k <= n
    \* a failed row is not due again before the budget is spent
    /\ Budget <= MIN_RETRY_WAIT

VARIABLES
    \* the Outbox table
    table, parked, attempts, wait,
    \* the destination and the history of the table
    landed,    \* messages the destination took
    ever,      \* rows that were ever inserted
    confirmed, \* rows the sender confirmed, unless their delete failed
    tries,     \* how often each row was sent in this tick, up to 2
    streak,    \* failed sends in a row since the breaker last opened
    \* the scheduler process
    breakers,  \* Destination.breakers, for every destination
    pc, channel, regions, region, left, batch, acked, failed, faults

tableVars == <<table, parked, attempts, wait>>
historyVars == <<landed, ever, confirmed, tries, streak>>
drainVars == <<channel, regions, region, left, batch, acked, failed>>
vars == <<tableVars, historyVars, breakers, pc, drainVars, faults>>

Waits == 0..(MAX_RETRY_WAIT + MIN_RETRY_WAIT)

\* Type correctness of the table, the breakers and the locals of the drain.
TypeOK ==
    /\ table \subseteq Rows /\ parked \subseteq Rows /\ landed \subseteq Rows
    /\ ever \subseteq Rows /\ confirmed \subseteq Rows
    /\ attempts \in [Rows -> 0..MaxAttempts]
    /\ wait \in [Rows -> Waits]
    /\ tries \in [Rows -> 0..2]
    /\ \A d \in Destinations, g \in Regions : /\ breakers[d][g].failures \in Nat
                                              /\ breakers[d][g].opened \in BOOLEAN
                                              /\ breakers[d][g].age \in 0..Pause
                                              /\ streak[d][g] \in Nat
    /\ pc \in {"idle", "drain", "region", "fetch", "send", "delete", "keep", "park"}
    /\ channel \in 1..Len(Channels) + 1
    /\ \A i \in DOMAIN regions : regions[i] \in Regions
    /\ region \in Regions
    /\ left \in 0..Budget
    /\ batch \subseteq Rows /\ acked \subseteq Rows /\ failed \subseteq Rows
    /\ faults \in 0..MaxFaults

Init ==
    /\ table = {} /\ parked = {} /\ landed = {} /\ ever = {} /\ confirmed = {}
    /\ attempts = [r \in Rows |-> 0]
    /\ wait = [r \in Rows |-> 0]
    /\ tries = [r \in Rows |-> 0]
    /\ breakers = [d \in Destinations |-> [g \in Regions |-> Closed]]
    /\ streak = [d \in Destinations |-> [g \in Regions |-> 0]]
    /\ pc = "idle"
    /\ channel = 1
    /\ regions = << >>
    /\ region \in Regions
    /\ left = 0
    /\ batch = {} /\ acked = {} /\ failed = {}
    /\ faults = 0

-----------------------------------------------------------------------------

Least(a, b) == IF a < b THEN a ELSE b
Most(a, b) == IF a < b THEN b ELSE a

dest == DestinationOf[Channels[channel]]
breaker == breakers[dest][region]

\* d units pass: the waits, the budget and the pauses run down.
After(n, d) == IF n > d THEN n - d ELSE 0
WaitAfter(d) == [r \in Rows |-> After(wait[r], d)]
BreakersAfter(bs, d) == [e \in Destinations |-> [g \in Regions |-> Aged(bs[e][g], d, Pause)]]

\* Job transitions commit rows at any moment, and not in the order of created.
Enqueue(r) ==
    /\ r \notin ever
    /\ ever' = ever \cup {r}
    /\ table' = table \cup {r}
    /\ UNCHANGED <<parked, attempts, wait, landed, confirmed, tries, streak, breakers, pc, drainVars, faults>>

\* The scheduler comes round to OutboxTask.run.
RunTask ==
    /\ pc = "idle"
    /\ wait' = WaitAfter(Gap)
    /\ breakers' = BreakersAfter(breakers, Gap)
    /\ tries' = [r \in Rows |-> 0]
    /\ channel' = 1
    /\ pc' = "drain"
    /\ UNCHANGED <<table, parked, attempts, landed, ever, confirmed, streak, regions, region, left, batch, acked,
                   failed, faults>>

\* The rows of the channel that delivery still tries and whose wait is over.
DueOf(c) == {r \in table \ parked : ChannelOf[r] = c /\ wait[r] = 0}

Oldest(S) == CHOOSE r \in S : \A q \in S : r <= q

\* _pending_regions: the region with the oldest row first.
PendingRegions(c) ==
    LET due == DueOf(c)
        found == {RegionOf[r] : r \in due}
        oldest(g) == Oldest({r \in due : RegionOf[r] = g})
    IN  CHOOSE s \in [1..Cardinality(found) -> found] :
            \A i, k \in DOMAIN s : i < k => oldest(s[i]) < oldest(s[k])

\* _drain: the budget starts to run and the regions are listed.  After the last
\* channel run() asks the breakers, for the metrics, which closes those whose
\* pause is over.  It stops at the first open one of a destination; a breaker it
\* does not reach is asked before it is used again, and closes then.
Drain ==
    /\ pc = "drain"
    /\ \/ /\ channel <= Len(Channels)
          /\ left' = Budget
          /\ regions' = PendingRegions(Channels[channel])
          /\ pc' = "region"
          /\ UNCHANGED breakers
       \/ /\ channel > Len(Channels)
          /\ breakers' = [d \in Destinations |-> [g \in Regions |-> Asked(breakers[d][g], Pause)]]
          /\ pc' = "idle"
          /\ UNCHANGED <<left, regions>>
    /\ UNCHANGED <<tableVars, historyVars, channel, region, batch, acked, failed, faults>>

\* The next region, unless the budget is spent; one whose breaker is open is
\* skipped.
NextRegion ==
    /\ pc = "region"
    /\ \/ /\ regions = << >> \/ left = 0
          /\ channel' = channel + 1
          /\ regions' = << >>
          /\ pc' = "drain"
          /\ UNCHANGED <<region, breakers>>
       \/ /\ regions # << >> /\ left > 0
          /\ region' = Head(regions)
          /\ regions' = Tail(regions)
          /\ breakers' = [breakers EXCEPT ![dest][Head(regions)] = Asked(@, Pause)]
          /\ pc' = IF IsOpen(breakers[dest][Head(regions)], Pause) THEN "region" ELSE "fetch"
          /\ UNCHANGED channel
    /\ UNCHANGED <<tableVars, historyVars, left, batch, acked, failed, faults>>

-----------------------------------------------------------------------------
(* _drain_region. *)

\* Mutant: the oldest rows first, whether they failed before or not.
BeforeByCreated(q, r) == q < r

\* ORDER BY attempts, created, pk.
Before(q, r) == attempts[q] < attempts[r] \/ (attempts[q] = attempts[r] /\ q < r)

FirstRows(S) == {r \in S : Cardinality({q \in S : Before(q, r)}) < BATCH_SIZE}

\* Mutant: the breaker is asked once per region and not before every batch.
FetchWithoutBreaker ==
    /\ pc = "fetch"
    /\ LET due == {r \in DueOf(Channels[channel]) : RegionOf[r] = region}
       IN  \/ /\ left > 0 /\ due # {}
              /\ batch' = FirstRows(due)
              /\ pc' = "send"
           \/ /\ left = 0 \/ due = {}
              /\ batch' = {}
              /\ pc' = "region"
    /\ UNCHANGED <<tableVars, historyVars, breakers, channel, regions, region, left, acked, failed, faults>>

Fetch ==
    /\ pc = "fetch"
    /\ breakers' = [breakers EXCEPT ![dest][region] = Asked(@, Pause)]
    /\ LET due == {r \in DueOf(Channels[channel]) : RegionOf[r] = region}
       IN  \/ /\ ~IsOpen(breaker, Pause) /\ left > 0 /\ due # {}
              /\ batch' = FirstRows(due)
              /\ pc' = "send"
           \/ /\ IsOpen(breaker, Pause) \/ left = 0 \/ due = {}
              /\ batch' = {}
              /\ pc' = "region"
    /\ UNCHANGED <<tableVars, historyVars, channel, regions, region, left, acked, failed, faults>>

\* The sender was given the rows of S and kept the drain busy for d units; the
\* breaker of the region is b then, and s failures in a row are counted.
Sent(S, b, s, d) ==
    /\ breakers' = [BreakersAfter(breakers, d) EXCEPT ![dest][region] = b]
    /\ wait' = WaitAfter(d)
    /\ left' = After(left, d)
    /\ tries' = [r \in Rows |-> IF r \in S THEN Least(tries[r] + 1, 2) ELSE tries[r]]
    /\ streak' = [streak EXCEPT ![dest][region] = IF b.opened THEN 0 ELSE s]

\* Streaks are told apart up to the largest threshold.
MaxStreak == CHOOSE n \in Thresholds : \A k \in Thresholds : k <= n

SentWell(S, b, d) == Sent(S, Succeeded(b), 0, d)
SentInVain(S, b, d) == \E n \in Thresholds : Sent(S, Failed(b, n), Least(streak[dest][region] + 1, MaxStreak), d)

\* A row the destination is bound to take by now.
MustTake(r) == r \in Healthy /\ attempts[r] >= Grace

\* Mutant: a batch that is not confirmed as a whole is kept as a whole.
SendBatchAllOrNothing ==
    /\ pc = "send" /\ dest \in BatchSenders
    /\ \E ok \in SUBSET batch, d \in SendTimes :
          /\ landed' = landed \cup ok
          /\ confirmed' = confirmed \cup ok
          /\ acked' = IF ok = batch THEN ok ELSE {}
          /\ failed' = IF ok = batch THEN {} ELSE batch
          /\ \/ ok = batch /\ SentWell(batch, breaker, d) /\ pc' = "delete"
             \/ ok # batch /\ SentInVain(batch, breaker, d) /\ pc' = "keep"
    /\ batch' = {}
    /\ UNCHANGED <<table, parked, attempts, ever, channel, regions, region, faults>>

\* _send_batch up to its first write.  The broker confirms some of the messages;
\* one that is not confirmed in time may have landed too.
SendBatch ==
    /\ pc = "send" /\ dest \in BatchSenders
    /\ \E ok \in SUBSET batch, late \in SUBSET batch, d \in SendTimes :
          /\ \A r \in batch : MustTake(r) => r \in ok
          /\ landed' = landed \cup ok \cup late
          /\ confirmed' = confirmed \cup ok
          /\ acked' = ok
          /\ failed' = batch \ ok
          /\ \/ ok # {} /\ SentWell(batch, breaker, d) /\ pc' = "delete"
             \/ ok = {} /\ SentInVain(batch, breaker, d) /\ pc' = "keep"
    /\ batch' = {}
    /\ UNCHANGED <<table, parked, attempts, ever, channel, regions, region, faults>>

\* Mutant: the breaker is not asked between two rows of a batch.
SendStopsWithoutBreaker == left = 0

\* The rest of the batch of a plain Sender is left alone.
SendStops == IsOpen(breaker, Pause) \/ left = 0

LeaveBatch ==
    /\ pc = "send" /\ dest \notin BatchSenders
    /\ SendStops
    /\ breakers' = [breakers EXCEPT ![dest][region] = Asked(@, Pause)]
    /\ batch' = {}
    /\ pc' = "fetch"
    /\ UNCHANGED <<tableVars, historyVars, channel, regions, region, left, acked, failed, faults>>

IsFirst(r, S) == \A q \in S \ {r} : Before(r, q)

\* The sender took the row.
OneDelivered(r, b, d) ==
    /\ landed' = landed \cup {r}
    /\ confirmed' = confirmed \cup {r}
    /\ SentWell({r}, b, d)
    /\ acked' = {r} /\ failed' = {}
    /\ pc' = "delete"

\* RetryableError, which may hide a delivery.
OneRetryable(r, b, d) ==
    /\ ~MustTake(r)
    /\ UNCHANGED landed \/ landed' = landed \cup {r}
    /\ SentInVain({r}, b, d)
    /\ acked' = {} /\ failed' = {r}
    /\ pc' = "keep"
    /\ UNCHANGED confirmed

\* A permanent error, which the breaker is not told of.
OnePermanent(r, b, d) ==
    /\ r \notin Healthy
    /\ Sent({r}, b, streak[dest][region], d)
    /\ acked' = {} /\ failed' = {r}
    /\ pc' = "park"
    /\ UNCHANGED <<landed, confirmed>>

\* _send_one_by_one, one row up to its first write.
SendOne ==
    /\ pc = "send" /\ dest \notin BatchSenders
    /\ ~SendStops
    /\ \E r \in batch, d \in SendTimes :
          /\ IsFirst(r, batch)
          /\ batch' = batch \ {r}
          /\ LET b == Asked(breaker, Pause)
             IN  OneDelivered(r, b, d) \/ OneRetryable(r, b, d) \/ OnePermanent(r, b, d)
    /\ UNCHANGED <<table, parked, attempts, ever, channel, regions, region, faults>>

\* The rows that are done with are forgotten, and the loop goes on.
Continue ==
    /\ acked' = {}
    /\ failed' = {}
    /\ pc' = IF batch = {} THEN "fetch" ELSE "send"
    /\ UNCHANGED <<channel, regions, region, left, batch, faults, breakers>>

\* Mutant: the whole batch is deleted as soon as one of its rows is confirmed.
DeleteWholeBatch ==
    /\ pc = "delete"
    /\ table' = table \ (acked \cup failed)
    /\ Continue
    /\ UNCHANGED <<parked, attempts, wait, historyVars>>

\* The delivered rows are deleted.
DeleteDelivered ==
    /\ pc = "delete"
    /\ table' = table \ acked
    /\ IF failed # {}
       THEN /\ pc' = "keep"
            /\ acked' = {}
            /\ UNCHANGED <<channel, regions, region, left, batch, failed, faults, breakers>>
       ELSE Continue
    /\ UNCHANGED <<parked, attempts, wait, historyVars>>

\* Mutant: the minimum wait is dropped.
RetryWaitWithoutMinimum(n) ==
    Least(Least(RetryBase * 2 ^ Least(n - 1, MAX_RETRY_DOUBLINGS), RetryMax), MAX_RETRY_WAIT)

\* The wait after the n-th failure.
RetryWait(n) ==
    Most(MIN_RETRY_WAIT, Least(Least(RetryBase * 2 ^ Least(n - 1, MAX_RETRY_DOUBLINGS), RetryMax), MAX_RETRY_WAIT))

KeepForRetry ==
    /\ pc = "keep"
    /\ attempts' = [r \in Rows |-> IF r \in failed THEN Least(attempts[r] + 1, MaxAttempts) ELSE attempts[r]]
    /\ wait' = [r \in Rows |-> IF r \in failed THEN RetryWait(attempts[r] + 1) ELSE wait[r]]
    /\ Continue
    /\ UNCHANGED <<table, parked, historyVars>>

MarkUnrecoverable ==
    /\ pc = "park"
    /\ attempts' = [r \in Rows |-> IF r \in failed THEN Least(attempts[r] + 1, MaxAttempts) ELSE attempts[r]]
    /\ parked' = parked \cup failed
    /\ Continue
    /\ UNCHANGED <<table, wait, historyVars>>

-----------------------------------------------------------------------------
(* Faults. *)

\* The task is left; a row that was confirmed and not deleted yet is sent again.
Abandon ==
    /\ faults < MaxFaults
    /\ faults' = faults + 1
    /\ pc' = "idle"
    /\ regions' = << >>
    /\ batch' = {} /\ acked' = {} /\ failed' = {}
    /\ confirmed' = confirmed \ acked
    /\ UNCHANGED <<tableVars, landed, ever, tries, channel, region, left>>

\* The database fails under a query or a write: main.py goes on with the next
\* task, and the breakers keep their state.
DatabaseFails ==
    /\ pc \in {"drain", "fetch", "delete", "keep", "park"}
    /\ Abandon
    /\ UNCHANGED <<breakers, streak>>

\* The process dies, or is told to stop, and the next one has new breakers.
Restart ==
    /\ Abandon
    /\ breakers' = [d \in Destinations |-> [g \in Regions |-> Closed]]
    /\ streak' = [d \in Destinations |-> [g \in Regions |-> 0]]

-----------------------------------------------------------------------------

Tick == RunTask \/ Drain \/ NextRegion \/ Fetch \/ SendBatch \/ LeaveBatch \/ SendOne
            \/ DeleteDelivered \/ KeepForRetry \/ MarkUnrecoverable

Next ==
    \/ \E r \in Rows : Enqueue(r)
    \/ Tick
    \/ DatabaseFails
    \/ Restart

Spec == Init /\ [][Next]_vars

\* The scheduler loop never stops.
FairSpec == Spec /\ WF_vars(Tick)

-----------------------------------------------------------------------------
(* Properties. *)

Promise == INSTANCE AtLeastOnce

\* A row leaves the table only after the destination took its message, and a
\* row the destination will never take stays, whatever restarts, database
\* errors and lost confirmations happen in between (Destination._send_batch,
\* _send_one_by_one and _mark_unrecoverable).
DeliversAtLeastOnce == Promise!Spec

\* A row the sender confirmed is not sent again, unless the process died or the
\* database failed before its delete: a failure to write the retry state of the
\* other rows of the batch does not bring it back (the order in _send_batch).
ConfirmedOnce == [][\A r \in Rows : tries'[r] > tries[r] => r \notin confirmed]_vars

\* A tick makes at most one attempt per row, whatever the Config entries for the
\* retries say, as long as the budget is no longer than the minimum wait
\* (MIN_RETRY_WAIT_SECONDS, the loop in _drain_region).
OnceATick == \A r \in Rows : tries[r] <= 1

\* Nothing is sent to a region while its breaker is paused, the rest of the
\* batch that opened it and the other channels of the destination included.
PausedIsLeftAlone ==
    [][\A r \in Rows : tries'[r] > tries[r] => ~IsOpen(breakers[DestinationOf[ChannelOf[r]]][RegionOf[r]], Pause)]_vars

\* A breaker takes a whole new streak of failures to open again (CircuitBreaker).
WholeStreakToOpen ==
    [][\A d \in Destinations, g \in Regions :
          ~breakers[d][g].opened /\ breakers'[d][g].opened =>
              \E n \in Thresholds : streak[d][g] + 1 >= n]_vars

\* A row the destination takes in the end does leave the table, however many
\* rows of its region always fail and however long the other regions are down.
HealthyRowsLeave == \A r \in Healthy : r \in table ~> r \notin table

\* A breaker does its work and no more: a paused region is left alone, and only a whole streak of
\* failures pauses it again.
BreakerIsKept == PausedIsLeftAlone /\ WholeStreakToOpen
=============================================================================
