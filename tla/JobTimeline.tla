----------------------------- MODULE JobTimeline -----------------------------
(***************************************************************************)
(* api/domain/job_timeline.py: what the timeline of the admin says of a    *)
(* selection of jobs.  The jobs live and leave status events; at any       *)
(* moment the page is computed from the rows and from the events, which    *)
(* two queries read one after the other, so that a row may be older than   *)
(* the events.                                                             *)
(***************************************************************************)
EXTENDS Integers, Sequences, FiniteSets, FiniteSetsExt

CONSTANTS TimelineJobs,    \* the jobs, in the order they were created: 1..n
          RunnerOf, FillerJobs, ProfileOf,
          LongRunning,     \* jobs that were running before the others and outlast them
          MaxClock

EndStatuses == {"SUCCEEDED", "STOPPED"}
Lasting == EndStatuses \cup {"QUEUED", "PENDING", "RUNNING", "STOPPING"}

VARIABLES
    clock,
    rowStatus,   \* Job.status
    events       \* the status events of each job, as <<time, status>>

timelineVars == <<clock, rowStatus, events>>

Made == {j \in TimelineJobs : rowStatus[j] # "none"}

TimelineInit ==
    /\ clock = 0
    /\ rowStatus = [j \in TimelineJobs |-> IF j \in LongRunning THEN "RUNNING" ELSE "none"]
    /\ events = [j \in TimelineJobs |-> IF j \in LongRunning THEN <<<<0, "QUEUED">>, <<0, "PENDING">>, <<0, "RUNNING">>>> ELSE <<>>]

-----------------------------------------------------------------------------
(* The jobs (external: their life is that of the other modules). *)

TimePasses == clock < MaxClock /\ clock' = clock + 1 /\ UNCHANGED <<rowStatus, events>>

\* A filler is submitted in the tick that creates it, and has no QUEUED event.
CreateJob(j) ==
    /\ rowStatus[j] = "none" /\ \A i \in TimelineJobs : i < j => i \in Made
    /\ LET first == IF j \in FillerJobs THEN "PENDING" ELSE "QUEUED" IN
       /\ rowStatus' = [rowStatus EXCEPT ![j] = first]
       /\ events' = [events EXCEPT ![j] = <<<<clock, first>>>>]
    /\ UNCHANGED clock

Successors == [s \in Lasting |->
    CASE s = "QUEUED" -> {"PENDING", "STOPPED"} [] s = "PENDING" -> {"RUNNING", "STOPPING"}
      [] s = "RUNNING" -> {"STOPPING", "SUCCEEDED"} [] s = "STOPPING" -> {"STOPPED"} [] OTHER -> {}]

MoveJob(j) ==
    /\ j \in Made \ LongRunning
    /\ \E s \in Successors[rowStatus[j]] :
        /\ rowStatus' = [rowStatus EXCEPT ![j] = s]
        /\ events' = [events EXCEPT ![j] = Append(@, <<clock, s>>)]
    /\ UNCHANGED clock

TimelineNext == TimePasses \/ \E j \in TimelineJobs : CreateJob(j) \/ MoveJob(j)

-----------------------------------------------------------------------------
(* compute_timeline, of the row as it was read. *)

created(j) == events[j][1][1]

\* The first occurrence of every status, in the order of time.
ReachedOnce(evts) == SelectSeq([i \in DOMAIN evts |-> <<evts[i][1], evts[i][2], i>>],
                               LAMBDA p : \A i \in 1..(p[3] - 1) : evts[i][2] # p[2])

\* Mutant: a job without a QUEUED event starts at its first event.
NoQueueOfItsOwn(j, status) ==
    LET reached == ReachedOnce(events[j]) IN [i \in DOMAIN reached |-> <<reached[i][1], reached[i][2]>>]

\* Mutant: every timeline is closed at the present.
ClosesAtNow(j, status) ==
    LET reached == ReachedOnce(events[j])
        past == [i \in DOMAIN reached |-> <<reached[i][1], reached[i][2]>>]
    IN  IF clock > past[Len(past)][1] THEN Append(past, <<clock, status>>) ELSE past

points(j, status) ==
    LET reached == ReachedOnce(events[j])
        past == (IF \E i \in DOMAIN events[j] : events[j][i][2] = "QUEUED" THEN <<>> ELSE <<<<created(j), "QUEUED">>>>)
                \o [i \in DOMAIN reached |-> <<reached[i][1], reached[i][2]>>]
    IN  IF status \notin EndStatuses /\ clock > past[Len(past)][1] THEN Append(past, <<clock, status>>) ELSE past

segments(j, status) ==
    LET p == points(j, status) IN [i \in 1..(Len(p) - 1) |-> [from |-> p[i][1], to |-> p[i + 1][1], status |-> p[i][2]]]

durations(j, status) ==
    LET s == segments(j, status) IN
    [st \in {s[i].status : i \in DOMAIN s} |-> MapThenSumSet(LAMBDA i : s[i].to - s[i].from, {i \in DOMAIN s : s[i].status = st})]

\* by_status: -1 when the status was never reached.
FirstOf(j, status, st) ==
    LET p == points(j, status)
        at == {i \in DOMAIN p : p[i][2] = st}
    IN  IF at = {} THEN -1 ELSE p[Min(at)][1]

t_queue(j, status) == FirstOf(j, status, "QUEUED")
t_run(j, status) == FirstOf(j, status, "RUNNING")
t_end(j, status) == LET p == points(j, status) IN p[Len(p)][1]

Forward(j, status) == t_run(j, status) >= 0 /\ t_run(j, status) < t_end(j, status)

-----------------------------------------------------------------------------
(* find_overlaps and the concurrency chart, of the rows as they were read. *)

\* Mutant: jobs of different runners overlap as well.
AcrossRunners(read) ==
    [a \in {j \in Made : Forward(j, read[j])} |->
        {b \in {j \in Made \ {a} : Forward(j, read[j])} :
            t_run(a, read[a]) < t_end(b, read[b]) /\ t_run(b, read[b]) < t_end(a, read[a])}]

find_overlaps(read) ==
    [a \in {j \in Made : Forward(j, read[j])} |->
        {b \in {j \in Made \ {a} : Forward(j, read[j])} :
            /\ RunnerOf[a] = RunnerOf[b]
            /\ t_run(a, read[a]) < t_end(b, read[b]) /\ t_run(b, read[b]) < t_end(a, read[a])}]

\* The steps of a series in the order of the sort, which keeps the order of the jobs at equal times.
Upto(p, q) == p.ts < q.ts \/ (p.ts = q.ts /\ p.pos <= q.pos)

concurrency_series(jobs, read) ==
    LET running == {j \in jobs : Forward(j, read[j])}
        steps == {[ts |-> t_run(j, read[j]), pos |-> 2 * j, delta |-> 1] : j \in running}
                 \cup {[ts |-> t_end(j, read[j]), pos |-> 2 * j + 1, delta |-> -1] : j \in running}
    IN  {[ts |-> p.ts, pos |-> p.pos, count |-> MapThenSumSet(LAMBDA q : q.delta, {q \in steps : Upto(q, p)})] : p \in steps}

Latest(series, p) ==
    LET before == {q \in series : Upto(q, p)} IN
    IF before = {} THEN 0 ELSE (CHOOSE q \in before : \A o \in before : Upto(o, q)).count

\* Mutant: the counts of the runners are added.
AddsTheRunners(all) ==
    {[ts |-> p.ts, pos |-> p.pos, count |-> MapThenSumSet(LAMBDA s : Latest(s, p), all)] : p \in UNION all}

_merge_series_max(all) ==
    {[ts |-> p.ts, pos |-> p.pos, count |-> Max({Latest(s, p) : s \in all})] : p \in UNION all}

runner_scoped_series(jobs, read) ==
    _merge_series_max({concurrency_series({j \in jobs : RunnerOf[j] = r}, read) : r \in {RunnerOf[j] : j \in Made}})

real_max_conc(read) == Max({0} \cup {p.count : p \in runner_scoped_series(Made, read)})

\* append_concurrency_area: the areas of all jobs and of a profile, and the fillers at the bottom of each.
Area(jobs, read) == [total |-> runner_scoped_series(jobs, read), filler |-> runner_scoped_series(jobs \cap FillerJobs, read)]
Profiled(p) == {j \in Made : ProfileOf[j] = p}

\* The height of an area at an instant.
HeightAt(series, t) == Latest(series, [ts |-> t, pos |-> 2 * Cardinality(TimelineJobs) + 2])

\* The hour lines of build_svg for a span of so many hours.
hour_lines(hours) == LET step == (IF hours < 1 THEN 1 ELSE hours) \div 500 + 1 IN hours \div step + 1

-----------------------------------------------------------------------------
(* Properties *)

\* The rows were read before the last event of each job, or after it.
Before(j) == IF Len(events[j]) > 1 THEN events[j][Len(events[j]) - 1][2] ELSE rowStatus[j]
Readings == {[j \in Made |-> rowStatus[j]], [j \in Made |-> Before(j)]}

\* The segments of a job cover the time from its queue to its end, each with the status that was in
\* force: no time is counted twice or lost, also when the row is older than the events.
SegmentsAreHistory ==
    \A j \in Made : \A s \in {rowStatus[j], Before(j)} :
        LET segs == segments(j, s)
            d == durations(j, s) IN
        /\ MapThenSumSet(LAMBDA st : d[st], DOMAIN d) = t_end(j, s) - t_queue(j, s)
        /\ \A i \in DOMAIN segs : i > 1 => segs[i].from = segs[i - 1].to
        /\ \A i \in DOMAIN segs : segs[i].from < segs[i].to =>
            \/ segs[i].status = "QUEUED" /\ j \in FillerJobs
            \/ \E e \in DOMAIN events[j] :
                /\ events[j][e] = <<segs[i].from, segs[i].status>>
                /\ \A f \in DOMAIN events[j] : f > e => events[j][f][1] >= segs[i].to
        /\ s \in EndStatuses => t_end(j, s) = events[j][Len(events[j])][1]

\* The truth of the chart: the jobs of a runner that had started and had not ended at an instant.
RunningAt(r, t, read) == {j \in Made : RunnerOf[j] = r /\ t_run(j, read[j]) \in 0..t /\ t < t_end(j, read[j])}
Runners == {RunnerOf[j] : j \in TimelineJobs}

\* Two jobs are said to overlap exactly when at some instant both were running on the same runner.
OverlapsAreReal ==
    \A read \in Readings : LET o == find_overlaps(read) IN
        \A a \in DOMAIN o : o[a] = {b \in DOMAIN o \ {a} : \E r \in Runners, t \in 0..MaxClock : {a, b} \subseteq RunningAt(r, t, read)}

\* The peak of the heading is the most jobs that ever ran together on one runner. At the very instant
\* at which one job starts and another ends the chart may count both.
NoHandover(read) == \A a, b \in Made : t_run(a, read[a]) >= 0 => t_run(a, read[a]) # t_end(b, read[b])
PeakIsReached ==
    \A read \in Readings :
        LET most == Max({0} \cup {Cardinality(RunningAt(r, t, read)) : r \in Runners, t \in 0..MaxClock}) IN
        /\ real_max_conc(read) >= most
        /\ NoHandover(read) => real_max_conc(read) = most

\* No area rises above the one it belongs to: the fillers stay below all jobs of a profile, and these
\* below the area of all jobs, and every area comes back to zero.
AreasAreNested ==
    \A read \in Readings, p \in {ProfileOf[j] : j \in TimelineJobs} :
        LET all == Area(Made, read)
            part == Area(Profiled(p), read)
        IN  \A t \in 0..(MaxClock + 1) :
                /\ HeightAt(part.filler, t) <= HeightAt(part.total, t)
                /\ HeightAt(part.total, t) <= HeightAt(all.total, t)
                /\ HeightAt(all.filler, t) <= HeightAt(all.total, t)
                /\ t > MaxClock => HeightAt(all.total, t) = 0

\* The page stays bounded however long the selection is.
HourLinesAreBounded == \A hours \in {1, 499, 500, 999, 1000, 12345} : hour_lines(hours) <= 501

\* What the timeline shows is what happened.
TimelineIsTrue == SegmentsAreHistory /\ OverlapsAreReal /\ PeakIsReached /\ AreasAreNested /\ HourLinesAreBounded
=============================================================================
