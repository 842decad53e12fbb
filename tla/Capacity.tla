------------------------------ MODULE Capacity -------------------------------
(***************************************************************************)
(* Who gets the fleets: the fair share that picks the queued Fleets jobs   *)
(* of a tick (scheduler/schedule.py, schedule_fleets_jobs.py), and the     *)
(* filler jobs that keep a compute profile warm while users do not need it *)
(* (balance_filler_jobs.py).  The scheduler is one thread: a tick          *)
(* schedules, polls and balances in that order.  Users create and stop     *)
(* jobs, and operators change the configuration, between any two of its    *)
(* steps.  What a submit or a cancel does to one row is in FleetsJobs;     *)
(* here they succeed, are refused, or fail in a way a later tick retries.  *)
(* There is one region.                                                    *)
(***************************************************************************)
EXTENDS Integers, Sequences, FiniteSets, SequencesExt

CONSTANTS Authors,          \* the users whose jobs wait
          Operator,         \* the author of the filler functions
          Settings,         \* the configurations operators move through
          LIMITS_MAX_FLEETS,
          JobsPerUser,      \* Config ACTIVE_JOBS_PER_USER
          JobsPerTick,      \* Config FLEETS_JOBS_PER_TICK
          RETRY_AFTER_LOOPS,
          MaxRows,          \* bound on the jobs that have not ended
          MaxEdits,         \* bound on the stops and the changes of the configuration
          MaxTroubles,      \* bound on the failed calls and crashes
          NoFunction        \* NULL

VARIABLES
    jobs,        \* the jobs that have not ended, in the order of created
    settings,    \* the configuration and the function rows the fillers depend on
    heldBack,    \* authors whose account is blocked
    tick,        \* the task of the tick that is running
    picks,       \* rows still to submit
    toStop,        \* rows still to stop, as _stop_filler_jobs took them
    wanted,      \* the function a filler job is to be created for, as the balance read it
    saved,       \* the filler row that is being submitted
    retry_loops,
    paused,      \* the region's breaker is open
    edits, troubles

capacityVars == <<jobs, settings, heldBack, tick, picks, toStop, wanted, saved, retry_loops, paused, edits, troubles>>

NoRow == 0   \* the row a loop refers to has ended
RUNNING_STATUSES == {"RUNNING", "STOPPING"}

\* A row is known by its position.  When rows end the later ones move up, and what a loop holds follows them.
Live == DOMAIN jobs
Without(ended) == LET left == SelectSeq([i \in Live |-> i], LAMBDA i : i \notin ended) IN [i \in DOMAIN left |-> jobs[left[i]]]
Follow(id, ended) == IF id \in ended THEN NoRow ELSE id - Cardinality({e \in ended : e < id})
FollowAll(ids, ended) == [i \in DOMAIN ids |-> Follow(ids[i], ended)]

Move(id, status) == [jobs EXCEPT ![id].status = status]

Holding(r) == r.status \in RUNNING_STATUSES
Count(P(_)) == Cardinality({i \in DOMAIN jobs : P(jobs[i])})

-----------------------------------------------------------------------------
(* get_jobs_to_schedule_fair_share: the rows of the batch, in order.       *)

RunningOf(a) == Count(LAMBDA r : r.author = a /\ ~r.filler /\ Holding(r))

users_at_max_capacity == {jobs[i].author : i \in {k \in DOMAIN jobs : RunningOf(jobs[k].author) >= JobsPerUser}}

queued == SelectSeq([i \in Live |-> i], LAMBDA i : /\ jobs[i].status = "QUEUED"
                                                   /\ jobs[i].author \notin users_at_max_capacity
                                                   /\ jobs[i].author \notin heldBack)

rank(i) == Cardinality({k \in 1..i : jobs[k].status = "QUEUED" /\ jobs[k].author = jobs[i].author})

First(n, rows) == SubSeq(rows, 1, IF Len(rows) < n THEN Len(rows) ELSE n)

\* Mutant: the queue is taken in the order of created, without rounds.
FirstComeFirstServed(slots) ==
    First(slots, SelectSeq(queued, LAMBDA i : rank(i) <= JobsPerUser - RunningOf(jobs[i].author)))

\* Mutant: the users with running jobs take as many new ones as the others.
ForgetsTheRunning(slots) ==
    LET ranked == SelectSeq(queued, LAMBDA i : rank(i) <= slots)
        ordered == SortSeq(ranked, LAMBDA i, k : rank(i) < rank(k) \/ (rank(i) = rank(k) /\ i < k))
    IN First(slots, SelectSeq(ordered, LAMBDA i : rank(i) <= JobsPerUser))

\* Mutant: within a round the newest jobs go first.
NewestFirst(slots) ==
    LET ranked == SelectSeq(queued, LAMBDA i : rank(i) <= slots)
        ordered == SortSeq(ranked, LAMBDA i, k : rank(i) < rank(k) \/ (rank(i) = rank(k) /\ i > k))
    IN First(slots, SelectSeq(ordered, LAMBDA i : rank(i) <= JobsPerUser - RunningOf(jobs[i].author)))

get_jobs_to_schedule_fair_share(slots) ==
    LET ranked == SelectSeq(queued, LAMBDA i : rank(i) <= slots)
        ordered == SortSeq(ranked, LAMBDA i, k : rank(i) < rank(k) \/ (rank(i) = rank(k) /\ i < k))
    IN First(slots, SelectSeq(ordered, LAMBDA i : rank(i) <= JobsPerUser - RunningOf(jobs[i].author)))

-----------------------------------------------------------------------------
(* Users, operators and time. *)

CapacityInit(initial) ==
    /\ jobs = <<>>
    /\ settings \in initial
    /\ heldBack = {}
    /\ tick = "schedule"
    /\ picks = <<>> /\ toStop = <<>>
    /\ wanted = NoFunction
    /\ saved = NoRow
    /\ retry_loops = 0
    /\ paused = FALSE
    /\ edits = 0 /\ troubles = 0

Trouble == troubles < MaxTroubles /\ troubles' = troubles + 1

FleetsRow(author, filler, program, profile) ==
    [author |-> author, filler |-> filler, program |-> program, profile |-> profile, status |-> "QUEUED"]

\* A user runs a function of the protected profile (RunFunction has the endpoint).
CreateJob(a) ==
    /\ Len(jobs) < MaxRows
    /\ jobs' = Append(jobs, FleetsRow(a, FALSE, "own", "warm"))
    /\ UNCHANGED <<settings, heldBack, tick, picks, toStop, wanted, saved, retry_loops, paused, edits, troubles>>

\* A user stops their job, or an operator a filler job: one without a fleet or
\* without a function ends at once.
StopJob(id) ==
    /\ edits < MaxEdits /\ edits' = edits + 1
    /\ jobs[id].status \in {"QUEUED", "RUNNING"}
    /\ LET ended == IF jobs[id].status = "QUEUED" \/ jobs[id].program = NoFunction THEN {id} ELSE {} IN
       /\ jobs' = IF ended = {} THEN Move(id, "STOPPING") ELSE Without(ended)
       /\ picks' = FollowAll(picks, ended) /\ toStop' = FollowAll(toStop, ended) /\ saved' = Follow(saved, ended)
    /\ UNCHANGED <<settings, heldBack, tick, wanted, retry_loops, paused, troubles>>

\* An operator edits the Config rows or the functions; a deleted function leaves its jobs without one.
Configure(s) ==
    /\ edits < MaxEdits /\ edits' = edits + 1
    /\ settings' = s
    /\ jobs' = [i \in DOMAIN jobs |-> IF jobs[i].filler /\ jobs[i].program \notin DOMAIN s.functions
                                      THEN [jobs[i] EXCEPT !.program = NoFunction] ELSE jobs[i]]
    /\ UNCHANGED <<heldBack, tick, picks, toStop, wanted, saved, retry_loops, paused, troubles>>

BlockAuthor(a) ==
    /\ edits < MaxEdits /\ edits' = edits + 1
    /\ heldBack' = IF a \in heldBack THEN heldBack \ {a} ELSE heldBack \cup {a}
    /\ UNCHANGED <<jobs, settings, tick, picks, toStop, wanted, saved, retry_loops, paused, troubles>>

\* The pause of the breaker is over.
BreakerCloses ==
    /\ paused /\ paused' = FALSE
    /\ UNCHANGED <<jobs, settings, heldBack, tick, picks, toStop, wanted, saved, retry_loops, edits, troubles>>

\* The scheduler is killed, and starts again with the memory of a new process.
CrashTick ==
    /\ Trouble
    /\ tick' = "schedule" /\ picks' = <<>> /\ toStop' = <<>> /\ wanted' = NoFunction /\ saved' = NoRow
    /\ retry_loops' = 0 /\ paused' = FALSE
    /\ UNCHANGED <<jobs, settings, heldBack, edits>>

-----------------------------------------------------------------------------
(* ScheduleFleetsJobs *)

free_slots == LIMITS_MAX_FLEETS - Count(Holding)

_schedule_jobs_if_slots_available ==
    IF free_slots < 1 \/ JobsPerTick < 1 THEN <<>>
    ELSE get_jobs_to_schedule_fair_share(IF free_slots < JobsPerTick THEN free_slots ELSE JobsPerTick)

StartSchedule ==
    /\ tick = "schedule"
    /\ picks' = IF settings.maintenance THEN <<>> ELSE _schedule_jobs_if_slots_available
    /\ tick' = "submit"
    /\ UNCHANGED <<jobs, settings, heldBack, toStop, wanted, saved, retry_loops, paused, edits, troubles>>

\* The region is paused, or its breaker opened on this job: the rest of the batch waits for a later tick.
SkipRegion ==
    /\ tick = "submit" /\ picks # <<>>
    /\ \/ paused /\ UNCHANGED <<paused, troubles>>
       \/ ~paused /\ Trouble /\ paused' \in BOOLEAN
    /\ picks' = <<>>
    /\ UNCHANGED <<jobs, settings, heldBack, tick, toStop, wanted, saved, retry_loops, edits>>

\* The submit creates the fleet, or the job is refused and fails; a job that was stopped meanwhile is
\* left, and so is one whose project can hold no more fleets, by the count of Code Engine.
SubmitJob ==
    /\ tick = "submit" /\ picks # <<>> /\ ~paused
    /\ LET id == Head(picks)
           waits == id # NoRow /\ jobs[id].status = "QUEUED" IN
       \/ waits /\ jobs' = Move(id, "RUNNING") /\ picks' = Tail(picks) /\ UNCHANGED troubles
       \/ waits /\ Trouble /\ jobs' = Without({id}) /\ picks' = FollowAll(Tail(picks), {id})
       \/ waits /\ Trouble /\ picks' = Tail(picks) /\ UNCHANGED jobs
       \/ ~waits /\ picks' = Tail(picks) /\ UNCHANGED <<jobs, troubles>>
    /\ UNCHANGED <<settings, heldBack, tick, toStop, wanted, saved, retry_loops, paused, edits>>

EndSchedule ==
    /\ tick = "submit" /\ picks = <<>>
    /\ tick' = "poll"
    /\ UNCHANGED <<jobs, settings, heldBack, picks, toStop, wanted, saved, retry_loops, paused, edits, troubles>>

\* UpdateFleetsJobsStatuses ends the jobs whose fleet has ended.  Without its function the status of a
\* job cannot be read: only the deadline of STOPPING ends it.
CanEnd == {i \in Live : jobs[i].status = "STOPPING" \/ (jobs[i].status = "RUNNING" /\ jobs[i].program # NoFunction)}
Poll(ended) ==
    /\ tick = "poll"
    /\ jobs' = Without(ended)
    /\ tick' = "balance"
    /\ UNCHANGED <<settings, heldBack, picks, toStop, wanted, saved, retry_loops, paused, edits, troubles>>

-----------------------------------------------------------------------------
(* BalanceFillerJobs *)

\* The checks of _lookup_filler_function and _get_filler_program, in their order.
_lookup_filler_function ==
    IF settings.function \in DOMAIN settings.functions THEN settings.function ELSE NoFunction

_get_filler_program ==
    LET p == _lookup_filler_function
        usable == LET f == settings.functions[p] IN
            f.runner = "fleets" /\ ~f.disabled /\ f.project = "active" /\ f.profile # NoFunction
    IN IF settings.maintenance \/ ~settings.enabled \/ settings.slots <= 0 \/ p = NoFunction THEN NoFunction
       ELSE IF usable THEN p ELSE NoFunction

\* Mutant: the rows of a crash before the submit are left for the fair share.
KeepsUnsubmitted == {}

_discard_unsubmitted_filler_jobs == {i \in Live : jobs[i].filler /\ jobs[i].status = "QUEUED"}

\* The target of a profile, and the jobs a balance stops.
Target(p) ==
    LET real == Count(LAMBDA r : ~r.filler /\ r.profile = settings.functions[p].profile /\ Holding(r))
    IN IF settings.slots > real THEN settings.slots - real ELSE 0

NotStopping(rows) == SelectSeq(rows, LAMBDA i : jobs[i].status # "STOPPING")

\* Mutant: the jobs of a function that is no longer the configured one are left to end by themselves.
LeavesTheStale(p, fillers) ==
    LET expected(i) == jobs[i].program = p /\ jobs[i].profile = settings.functions[p].profile
        current == SelectSeq(fillers, expected)
        stoppable == NotStopping(current)
        excess == IF Len(stoppable) > Target(p) THEN Len(stoppable) - Target(p) ELSE 0
    IN [stop |-> IF Len(current) > Target(p) THEN First(excess, stoppable) ELSE <<>>, create |-> Len(current) < Target(p)]

_balance_filler_jobs(p, fillers) ==
    LET expected(i) == jobs[i].program = p /\ jobs[i].profile = settings.functions[p].profile
        stale == SelectSeq(fillers, LAMBDA i : ~expected(i))
        current == SelectSeq(fillers, expected)
        stoppable == NotStopping(current)
        excess == IF Len(stoppable) > Target(p) THEN Len(stoppable) - Target(p) ELSE 0
    IN [stop |-> NotStopping(stale) \o (IF Len(current) > Target(p) THEN First(excess, stoppable) ELSE <<>>),
        create |-> Len(current) < Target(p)]

_drain_filler_jobs(fillers) == [stop |-> NotStopping(fillers), create |-> FALSE]

StartBalance ==
    /\ tick = "balance"
    /\ LET p == _get_filler_program
           discarded == _discard_unsubmitted_filler_jobs
           fillers == SelectSeq([i \in Live |-> i], LAMBDA i : jobs[i].filler /\ Holding(jobs[i]))
           plan == IF p = NoFunction THEN _drain_filler_jobs(fillers) ELSE _balance_filler_jobs(p, fillers)
       IN /\ jobs' = Without(discarded)
          /\ toStop' = FollowAll(plan.stop, discarded)
          /\ wanted' = IF plan.create THEN p ELSE NoFunction
    /\ tick' = "shed"
    /\ UNCHANGED <<settings, heldBack, picks, saved, retry_loops, paused, edits, troubles>>

\* _stop_one_filler_job: the cancel lands; or the region is paused, or fails, and a later tick asks again;
\* or there is nothing to cancel (no function, no fleet), and nothing is written.
_stop_one_filler_job ==
    /\ tick = "shed" /\ toStop # <<>>
    /\ LET id == Head(toStop)
           cancels == id # NoRow /\ jobs[id].status = "RUNNING" /\ jobs[id].program # NoFunction IN
       \/ paused /\ UNCHANGED <<jobs, paused, troubles>>
       \/ ~paused /\ cancels /\ jobs' = Move(id, "STOPPING") /\ UNCHANGED <<paused, troubles>>
       \/ ~paused /\ ~cancels /\ UNCHANGED <<jobs, paused, troubles>>
       \/ ~paused /\ Trouble /\ paused' \in BOOLEAN /\ UNCHANGED jobs
    /\ toStop' = Tail(toStop)
    /\ UNCHANGED <<settings, heldBack, tick, picks, wanted, saved, retry_loops, edits>>

EndTick == tick' = "schedule" /\ wanted' = NoFunction

\* _create_filler_job up to the save of the row; the arguments are saved first, so a failure leaves no row.
_create_filler_job ==
    /\ tick = "shed" /\ toStop = <<>>
    /\ LET stored == wanted \in DOMAIN settings.functions IN
       \/ wanted = NoFunction /\ EndTick /\ UNCHANGED <<jobs, saved, retry_loops, troubles>>
       \/ wanted # NoFunction /\ retry_loops > 0 /\ retry_loops' = retry_loops - 1 /\ EndTick
          /\ UNCHANGED <<jobs, saved, troubles>>
       \/ wanted # NoFunction /\ retry_loops = 0 /\ (paused \/ Len(jobs) = MaxRows) /\ EndTick
          /\ UNCHANGED <<jobs, saved, retry_loops, troubles>>
       \/ wanted # NoFunction /\ retry_loops = 0 /\ ~paused /\ Len(jobs) < MaxRows /\ stored
          /\ jobs' = Append(jobs, FleetsRow(Operator, TRUE, wanted, settings.functions[wanted].profile))
          /\ saved' = Len(jobs) + 1 /\ tick' = "saved" /\ wanted' = NoFunction
          /\ UNCHANGED <<retry_loops, troubles>>
       \/ wanted # NoFunction /\ retry_loops = 0 /\ ~paused /\ retry_loops' = RETRY_AFTER_LOOPS /\ EndTick
          /\ (IF stored THEN Trouble ELSE UNCHANGED troubles)
          /\ UNCHANGED <<jobs, saved>>
    /\ UNCHANGED <<settings, heldBack, picks, toStop, paused, edits>>

\* The submit of the saved row: it holds a fleet; or Code Engine did not answer, and the row fails; or it is
\* refused, and the next attempts wait; or someone stopped the row meanwhile.
_submit_filler_job ==
    /\ tick = "saved"
    /\ LET queuedStill == saved # NoRow /\ jobs[saved].status = "QUEUED" IN
       \/ queuedStill /\ jobs' = Move(saved, "RUNNING") /\ UNCHANGED <<retry_loops, paused, troubles>>
       \/ queuedStill /\ Trouble /\ jobs' = Without({saved}) /\ paused' \in BOOLEAN /\ UNCHANGED retry_loops
       \/ queuedStill /\ Trouble /\ jobs' = Without({saved}) /\ retry_loops' = RETRY_AFTER_LOOPS /\ UNCHANGED paused
       \/ ~queuedStill /\ retry_loops' = RETRY_AFTER_LOOPS /\ UNCHANGED <<jobs, paused, troubles>>
    /\ saved' = NoRow
    /\ tick' = "schedule"
    /\ UNCHANGED <<settings, heldBack, picks, toStop, wanted, edits>>

-----------------------------------------------------------------------------
TickSteps ==
    \/ StartSchedule \/ SkipRegion \/ SubmitJob \/ EndSchedule
    \/ \E ended \in SUBSET CanEnd : Poll(ended)
    \/ StartBalance \/ _stop_one_filler_job \/ _create_filler_job \/ _submit_filler_job

\* The poll that ends one job: of a user, or stopped.
PollEnds(id) ==
    \E ended \in SUBSET CanEnd : id \in ended /\ (~jobs[id].filler \/ jobs[id].status = "STOPPING") /\ Poll(ended)

CapacityNext ==
    \/ TickSteps \/ CrashTick \/ BreakerCloses
    \/ \E a \in Authors : CreateJob(a) \/ BlockAuthor(a)
    \/ \E id \in Live : StopJob(id)
    \/ \E s \in Settings : Configure(s)

-----------------------------------------------------------------------------
(* Properties *)

QueuedOf(a) == SelectSeq([i \in Live |-> i], LAMBDA i : jobs[i].status = "QUEUED" /\ jobs[i].author = a)
PickedOf(picked, a) == SelectSeq(picked, LAMBDA i : jobs[i].author = a)
Budget(a) == IF a \in heldBack \/ RunningOf(a) >= JobsPerUser THEN 0 ELSE JobsPerUser - RunningOf(a)
MayTake(a) == IF Len(QueuedOf(a)) < Budget(a) THEN Len(QueuedOf(a)) ELSE Budget(a)

\* Whatever waits, the fair share takes the oldest jobs of each user and no more than the user's limit and
\* the free slots; it leaves a slot free only when nobody may use it; a user gets another job only when every
\* user with fewer of them has no more to take; and among equals the user who waited longest goes first.
FairRounds ==
    \A slots \in 1..LIMITS_MAX_FLEETS :
        LET picked == get_jobs_to_schedule_fair_share(slots)
            taken(a) == Len(PickedOf(picked, a))
            everyone == Authors \cup {Operator}
        IN /\ Len(picked) <= slots
           /\ \A a \in everyone : /\ taken(a) <= MayTake(a)
                                  /\ PickedOf(picked, a) = SubSeq(QueuedOf(a), 1, taken(a))
           /\ Len(picked) < slots => \A a \in everyone : taken(a) = MayTake(a)
           /\ \A a, b \in everyone : taken(a) > taken(b) + 1 => taken(b) = MayTake(b)
           /\ \A a, b \in everyone : taken(a) = taken(b) + 1 /\ taken(b) < MayTake(b) =>
                  QueuedOf(a)[taken(a)] < QueuedOf(b)[taken(a)]

\* No user holds more fleets than the limit, the users together no more than there are, and the fillers of
\* one function never more than the largest number of slots any configuration gives them, whatever crashed
\* between the save of a filler row and its submit.
HoldersAreBounded ==
    /\ \A a \in Authors : RunningOf(a) <= JobsPerUser
    /\ Count(LAMBDA r : ~r.filler /\ Holding(r)) <= LIMITS_MAX_FLEETS
    /\ \A p \in UNION {DOMAIN s.functions : s \in Settings} :
           \E s \in Settings : Count(LAMBDA r : r.filler /\ r.program = p /\ Holding(r)) <= s.slots

\* The fleets are shared fairly and within their limits.
CapacityIsShared == FairRounds /\ HoldersAreBounded

FillersOf(p) == Count(LAMBDA r : r.filler /\ r.program = p /\ r.status = "RUNNING")

\* The fillers yield: again and again, each function has at most the fillers its profile has slots for, none
\* when the feature is off or the function is not the configured one (balance and drain, with every failed
\* cancel retried by a later tick).  A filler whose function was deleted is out of reach: see the README.
FillersYield ==
    \A p \in UNION {DOMAIN s.functions : s \in Settings} :
        []<>(FillersOf(p) <= IF _get_filler_program = p THEN Target(p) ELSE 0)

\* A user whose jobs wait gets one started, unless maintenance stays on or the account stays blocked: the
\* fillers and the other users do not keep them out, however many jobs the others submit.
QueuedJobsStart ==
    \A a \in Authors : QueuedOf(a) # <<>> ~> (QueuedOf(a) = <<>> \/ RunningOf(a) > 0 \/ settings.maintenance \/ a \in heldBack)
=============================================================================
