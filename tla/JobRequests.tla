----------------------------- MODULE JobRequests -----------------------------
(***************************************************************************)
(* The job endpoints of the gateway (api/v1/views/jobs with their use      *)
(* cases), except running a function.  The endpoints that only read are    *)
(* operators: what they answer a user in the current state.  The ones that *)
(* write are requests of several steps, one for each query, because other  *)
(* requests and the scheduler may come between two queries of a request:   *)
(* no endpoint runs in a transaction of its own (ATOMIC_REQUESTS is off).  *)
(***************************************************************************)
EXTENDS Access, JobStatuses, Functions, TLC

CONSTANTS JobIds,         \* 1..n, in the order in which the jobs are created
          JobKind,        \* the user and the function of each job, once it is created
          SubStatuses,    \* Job.RUNNING_SUB_STATUSES
          RuntimeJobs,    \* ids of jobs of the Qiskit Runtime service
          SessionOf,      \* the session of each one, None for none
          Reqs,           \* requests in flight at most
          MaxRequests,    \* bound on the requests that start
          PageSize        \* the limit the client of the job list asks for

\* The columns of a Job row.
JobRows == [author : Users, program : FunctionIds \cup {None}, status : Statuses, sub_status : SubStatuses \cup {None},
         runner : {"ray", "fleets"}]

\* A job is created by a user from a function, and NULL is neither a row nor a sub_status.
ASSUME JobAssumption ==
    /\ \A j \in JobIds : JobKind[j].author \in Users /\ JobKind[j].program \in FunctionIds
    /\ None \notin SubStatuses /\ None \notin JobRows

VARIABLES
    jobs,        \* Job rows: author, program (None once deleted), status, sub_status, runner
    stored,      \* what storage holds of each job: "result", "log" and "private" (the provider's log)
    events,      \* the sub_status values and errors recorded for each job
    runtimeOf,   \* RuntimeJob rows: the job that each runtime job belongs to
    cancelled,   \* runtime jobs cancelled at the Qiskit Runtime service
    req,         \* the requests in flight
    started,     \* how many requests have started
    ended,       \* jobs whose end the scheduler wrote
    silent,      \* sub_status values whose request died before it could record the event
    walk         \* a client that reads the whole job list page by page

rowVars == <<jobs, stored, events, runtimeOf, cancelled>>
jobVars == <<rowVars, req, started, ended, silent, walk>>

Created == {j \in JobIds : jobs[j] # None}
ProgramOf(j) == functions[jobs[j].program]
IsProviderJob(j) == jobs[j].program # None /\ ProgramOf(j).provider # None

-----------------------------------------------------------------------------
(* JobAccessPolicies *)

can_access(u, j, af) ==
    \/ u = jobs[j].author
    \/ IsProviderJob(j) /\ can_retrieve_job(u, ProgramOf(j).provider, ProgramOf(j).title, af)

\* Mutant: the owner of a custom function passes as its provider.
OwnersAreProviders(u, j, af) ==
    jobs[j].program # None /\ can_read_logs(u, ProgramOf(j).provider, ProgramOf(j).title, af)

can_read_provider_logs(u, j, af) ==
    IsProviderJob(j) /\ can_read_logs(u, ProgramOf(j).provider, ProgramOf(j).title, af)

can_read_result(u, j) == u = jobs[j].author
can_read_user_logs(u, j) == u = jobs[j].author
can_save_result(u, j) == u = jobs[j].author
can_manage_runtime_jobs(u, j) == u = jobs[j].author
can_update_sub_status(u, j) == u = jobs[j].author
can_create_events(u, j) == u = jobs[j].author
can_read_events(u, j) == u = jobs[j].author
can_stop(u, j) == u = jobs[j].author
can_get_status_token(u, j) == u = jobs[j].author /\ jobs[j].status \notin TERMINAL_STATUSES

-----------------------------------------------------------------------------
(* Lists of jobs: JobQuerySet, newest first. *)

JobFilters == [function : Titles \cup {None}, functions : {None}, provider : Providers \cup {None},
               type : {None, "catalog", "serverless"}, status : {None, "QUEUED", "RUNNING"}]
NoFilters == [function |-> None, functions |-> None, provider |-> None, type |-> None, status |-> None]

_apply_filters(rows, f) ==
    {j \in rows :
        /\ f.type = "catalog" => IsProviderJob(j)
        /\ f.type = "serverless" => ~IsProviderJob(j)
        /\ f.provider # None => IsProviderJob(j) /\ ProgramOf(j).provider = f.provider
        /\ f.status # None => jobs[j].status = f.status
        /\ IF f.function # None THEN jobs[j].program # None /\ ProgramOf(j).title = f.function
           ELSE f.functions # None => jobs[j].program # None /\ ProgramOf(j).title \in f.functions}

\* Mutant: the last row of a page is cut off.
PageTooShort(rows, limit, offset) ==
    IF offset >= Len(rows) THEN <<>>
    ELSE SubSeq(rows, offset + 1, IF limit = 0 \/ offset + limit >= Len(rows) THEN Len(rows) ELSE offset + limit - 1)

_paginate_queryset(rows, limit, offset) ==
    IF offset >= Len(rows) THEN <<>>
    ELSE SubSeq(rows, offset + 1, IF limit = 0 \/ offset + limit >= Len(rows) THEN Len(rows) ELSE offset + limit)

ByNewest(rows) == [i \in 1..Cardinality(rows) |-> CHOOSE a \in rows : Cardinality({b \in rows : b > a}) = i - 1]

user_jobs_page(u, f, limit, offset) ==
    LET rows == _apply_filters({j \in Created : u # None => jobs[j].author = u}, f)
    IN [results |-> _paginate_queryset(ByNewest(rows), limit, offset), count |-> Cardinality(rows)]

\* The offsets of the neighbouring pages, None for no link.
create_paginated_response(page, limit, offset) ==
    [results |-> page.results, count |-> page.count,
     next |-> IF offset + limit < page.count THEN offset + limit ELSE None,
     previous |-> IF offset > 0 THEN (IF offset > limit THEN offset - limit ELSE 0) ELSE None]

-----------------------------------------------------------------------------
(* The reading endpoints: a code and, when it is 200, what is served.      *)

NotFound == [code |-> 404]

\* JobsListUseCase and its view
job_list(u, f, limit, offset) ==
    IF f.function # None /\ get_function(Stored, f.function, f.provider) = {} THEN NotFound
    ELSE [code |-> 200] @@ create_paginated_response(user_jobs_page(u, f, limit, offset), limit, offset)

_owned_function_titles(u, p) == {functions[f].title : f \in {g \in Stored : functions[g].provider = p /\ functions[g].author = u}}

\* Mutant: somebody else's entitlement replaces the functions the user wrote.
EntitledTitlesOnly(u, p, f, af) ==
    IF f.function # None THEN IF can_list_jobs(u, p, f.function, af) THEN None ELSE {}
    ELSE IF af.legacy THEN IF is_provider_admin(u, p) THEN None ELSE _owned_function_titles(u, p)
    ELSE get_functions_by_provider(af, p, JOBS_READ)

\* The titles the listing is restricted to; None for no restriction, {} for no access.
_apply_access_scope(u, p, f, af) ==
    IF f.function # None THEN IF can_list_jobs(u, p, f.function, af) THEN None ELSE {}
    ELSE IF af.legacy THEN IF is_provider_admin(u, p) THEN None ELSE _owned_function_titles(u, p)
    ELSE get_functions_by_provider(af, p, JOBS_READ) \cup _owned_function_titles(u, p)

\* JobsProviderListUseCase and its view
provider_list(u, f, af, limit, offset) ==
    LET scope == _apply_access_scope(u, f.provider, f, af) IN
    IF scope = {} THEN NotFound
    ELSE IF f.function # None /\ get_function(Stored, f.function, f.provider) = {} THEN NotFound
    ELSE [code |-> 200] @@
         create_paginated_response(user_jobs_page(None, [f EXCEPT !.functions = scope], limit, offset), limit, offset)

\* JobRetrieveUseCase and its view: whether the result is served, and a token to poll the status with.
retrieve(u, j, withResult, af) ==
    IF j \notin Created \/ ~can_access(u, j, af) THEN NotFound
    ELSE [code |-> 200, result |-> withResult /\ can_read_result(u, j), token |-> can_get_status_token(u, j)]

\* Mutant: a provider's listing comes with the results.
GetJobsWithResults(u, f, af) ==
    IF f \notin Stored THEN NotFound
    ELSE LET all == functions[f].provider # None /\ can_list_jobs(u, functions[f].provider, functions[f].title, af)
         IN [code |-> 200, result |-> TRUE,
             jobs |-> {j \in Created : jobs[j].program = f /\ (all \/ jobs[j].author = u)}]

\* GetJobsUseCase and its view: the jobs of a function, with their results unless it is a provider's listing.
get_jobs(u, f, af) ==
    IF f \notin Stored THEN NotFound
    ELSE LET all == functions[f].provider # None /\ can_list_jobs(u, functions[f].provider, functions[f].title, af)
         IN [code |-> 200, result |-> ~all,
             jobs |-> {j \in Created : jobs[j].program = f /\ (all \/ jobs[j].author = u)}]

get_runtime_jobs(u, j) ==
    IF j \notin Created \/ ~can_manage_runtime_jobs(u, j) THEN NotFound
    ELSE [code |-> 200, rows |-> {r \in RuntimeJobs : runtimeOf[r] = j}]

list_events(u, j) ==
    IF j \notin Created \/ ~can_read_events(u, j) THEN NotFound ELSE [code |-> 200, events |-> events[j]]

\* GetJobLogsUseCase: the storage reads its paths off the function, so a deleted one is an error;
\* a Ray job without a stored log asks the cluster, and always answers something.
get_logs(u, j) ==
    IF j \notin Created THEN 404
    ELSE IF ~can_read_user_logs(u, j) THEN 403
    ELSE IF jobs[j].program = None THEN 500
    ELSE IF jobs[j].runner = "fleets" THEN IF "log" \in stored[j] THEN 302 ELSE 204
    ELSE 200

\* The private path or bucket exists only for a provider's function; asking for it otherwise raises.
get_private_logs(j) ==
    IF ~IsProviderJob(j) THEN 500
    ELSE IF jobs[j].runner = "fleets" THEN IF "private" \in stored[j] THEN 302 ELSE 204
    ELSE 200

\* GetProviderJobLogsUseCase
get_provider_logs(u, j, af) ==
    IF j \notin Created THEN 404
    ELSE IF ~can_read_provider_logs(u, j, af) THEN 403
    ELSE get_private_logs(j)

\* GetJobResultUseCase
get_result(u, j) ==
    IF j \notin Created \/ ~can_read_result(u, j) THEN 404
    ELSE IF jobs[j].program = None THEN 500
    ELSE IF "result" \notin stored[j] THEN 204
    ELSE IF jobs[j].runner = "fleets" THEN 302 ELSE 200

-----------------------------------------------------------------------------
(* Requests that write.  One that is refused by its policy changes nothing *)
(* and is not an action.                                                   *)

Idle == [kind |-> "idle"]
Step(r, at) == req' = [req EXCEPT ![r].at = at]
Done(r) == req' = [req EXCEPT ![r] = Idle]
BeginRequest(r, request) ==
    /\ req[r] = Idle /\ \A q \in Reqs : q < r => req[q] # Idle   \* slots are alike: take the first
    /\ started < MaxRequests
    /\ req' = [req EXCEPT ![r] = request]
    /\ started' = started + 1

\* SetJobSubStatusUseCase: the read of the row.
SubStatusRead(r, u, j, s) ==
    /\ can_update_sub_status(u, j)
    /\ BeginRequest(r, [kind |-> "sub_status", job |-> j, value |-> s, read |-> jobs[j].sub_status, at |-> "update"])
    /\ UNCHANGED <<rowVars, ended, silent, walk>>

\* Mutant: the status is checked on the row that was read.
UpdateUnchecked(r) ==
    LET q == req[r] IN
    /\ q.kind = "sub_status" /\ q.at = "update"
    /\ jobs' = [jobs EXCEPT ![q.job].sub_status = q.value]
    /\ IF q.read = q.value THEN Done(r) ELSE Step(r, "event")
    /\ UNCHANGED <<stored, events, runtimeOf, cancelled, started, ended, silent, walk>>

\* The conditional UPDATE; no row matches once the job is not active.
SubStatusUpdate(r) ==
    LET q == req[r] IN
    /\ q.kind = "sub_status" /\ q.at = "update"
    /\ IF jobs[q.job].status \in ACTIVE_STATUSES
       THEN /\ jobs' = [jobs EXCEPT ![q.job].sub_status = q.value]
            /\ IF q.read = q.value THEN Done(r) ELSE Step(r, "event")
       ELSE Done(r) /\ UNCHANGED jobs
    /\ UNCHANGED <<stored, events, runtimeOf, cancelled, started, ended, silent, walk>>

\* Mutant: the event is only for the first value a job gets.
EventForFirstOnly(r) ==
    LET q == req[r] IN
    /\ q.kind = "sub_status" /\ q.at = "event"
    /\ events' = [events EXCEPT ![q.job] = IF q.read = None THEN @ \cup {q.value} ELSE @]
    /\ Done(r)
    /\ UNCHANGED <<jobs, stored, runtimeOf, cancelled, started, ended, silent, walk>>

SubStatusEvent(r) ==
    LET q == req[r] IN
    /\ q.kind = "sub_status" /\ q.at = "event"
    /\ events' = [events EXCEPT ![q.job] = @ \cup {q.value}]
    /\ Done(r)
    /\ UNCHANGED <<jobs, stored, runtimeOf, cancelled, started, ended, silent, walk>>

\* CreateJobEventUseCase: the status is checked on the row as it was read.
EventRead(r, u, j) ==
    /\ can_create_events(u, j)
    /\ jobs[j].status \in ACTIVE_STATUSES
    /\ BeginRequest(r, [kind |-> "error", job |-> j, at |-> "insert"])
    /\ UNCHANGED <<rowVars, ended, silent, walk>>

\* Mutant: the status of the job is recorded in place of the error.
EventRecordsStatus(r) ==
    /\ req[r].kind = "error"
    /\ events' = [events EXCEPT ![req[r].job] = @ \cup {jobs[req[r].job].status}]
    /\ Done(r)
    /\ UNCHANGED <<jobs, stored, runtimeOf, cancelled, started, ended, silent, walk>>

EventInsert(r) ==
    /\ req[r].kind = "error"
    /\ events' = [events EXCEPT ![req[r].job] = @ \cup {"ERROR"}]
    /\ Done(r)
    /\ UNCHANGED <<jobs, stored, runtimeOf, cancelled, started, ended, silent, walk>>

\* JobSaveResultUseCase: refused for Fleets jobs, an error when the function is gone.
SaveResult(u, j) ==
    /\ can_save_result(u, j)
    /\ jobs[j].runner # "fleets" /\ jobs[j].program # None
    /\ stored' = [stored EXCEPT ![j] = @ \cup {"result"}]
    /\ UNCHANGED <<jobs, events, runtimeOf, cancelled, req, started, ended, silent, walk>>

\* AssociateRuntimeJobsUseCase: the primary key refuses a runtime job that is already there.
AssociateRuntimeJob(u, j, x) ==
    /\ can_manage_runtime_jobs(u, j)
    /\ runtimeOf[x] = None
    /\ runtimeOf' = [runtimeOf EXCEPT ![x] = j]
    /\ UNCHANGED <<jobs, stored, events, cancelled, req, started, ended, silent, walk>>

(* StopJobUseCase.  What the stop does to the fleet or the cluster is      *)
(* modelled in FleetsJobs and RayJobs; here it is a move of the row, and   *)
(* the jobs that the function started in Qiskit Runtime are what matters.  *)

\* The read; an ended job is left alone, and a stopping one only has its runtime jobs cancelled.
StopRead(r, u, j, service) ==
    /\ can_stop(u, j)
    /\ jobs[j].status \notin TERMINAL_STATUSES
    /\ BeginRequest(r, [kind |-> "stop", job |-> j, service |-> service, queried |-> {}, todo |-> {}, sessions |-> {},
                 reported |-> {}, at |-> IF jobs[j].status = "STOPPING" THEN "query" ELSE "move"])
    /\ UNCHANGED <<rowVars, ended, silent, walk>>

\* The transition, or the race lost to another one; the runner may also refuse (503).
StopMove(r) ==
    LET j == req[r].job
        Ends == IF jobs[j].runner = "ray" THEN {"STOPPED"} ELSE {"STOPPED", "STOPPING"}
    IN /\ req[r].kind = "stop" /\ req[r].at = "move"
       /\ \/ /\ jobs[j].status \in {"QUEUED", "PENDING", "RUNNING"}
             /\ \E s \in Ends : jobs' = [jobs EXCEPT ![j].status = s]
             /\ Step(r, "query")
          \/ /\ jobs[j].status \in {"STOPPING", "STOPPED"}
             /\ Step(r, "query") /\ UNCHANGED jobs
          \/ /\ jobs[j].status \in {"SUCCEEDED", "FAILED"} \/ jobs[j].runner = "fleets"
             /\ Done(r) /\ UNCHANGED jobs
       /\ UNCHANGED <<stored, events, runtimeOf, cancelled, started, ended, silent, walk>>

\* _cancel_runtime_jobs: without credentials for the service it only says so.
StopQuery(r) ==
    LET rows == {x \in RuntimeJobs : runtimeOf[x] = req[r].job} IN
    /\ req[r].kind = "stop" /\ req[r].at = "query"
    /\ IF req[r].service
       THEN req' = [req EXCEPT ![r].queried = rows, ![r].todo = rows, ![r].at = "cancel"]
       ELSE Done(r)
    /\ UNCHANGED <<rowVars, started, ended, silent, walk>>

\* Mutant: a session is taken as stopped whether or not the cancel went through.
SessionTakenAsStopped(r, x) ==
    LET q == req[r]
        s == SessionOf[x]
        Left == [q EXCEPT !.todo = @ \ {x}]
    IN /\ q.kind = "stop" /\ q.at = "cancel" /\ x \in q.todo
       /\ \/ s # None /\ s \in q.sessions /\ req' = [req EXCEPT ![r] = Left] /\ UNCHANGED cancelled
          \/ /\ s # None /\ s \notin q.sessions
             /\ req' = [req EXCEPT ![r] = [Left EXCEPT !.sessions = @ \cup {s}]]
             /\ cancelled' \in {cancelled, cancelled \cup {y \in RuntimeJobs : SessionOf[y] = s}}
          \/ /\ s = None
             /\ req' = [req EXCEPT ![r] = Left]
             /\ cancelled' = cancelled \cup {x}
       /\ UNCHANGED <<jobs, stored, events, runtimeOf, started, ended, silent, walk>>

\* _cancel_runtime_job_entry: the session of the runtime job, once, or the runtime job itself.  A
\* failure is put in the answer and the next entry follows; an unexpected error ends the request.
StopCancel(r, x) ==
    LET q == req[r]
        s == SessionOf[x]
        Left == [q EXCEPT !.todo = @ \ {x}]
    IN /\ q.kind = "stop" /\ q.at = "cancel" /\ x \in q.todo
       /\ \/ s # None /\ s \in q.sessions /\ req' = [req EXCEPT ![r] = Left] /\ UNCHANGED cancelled
          \/ /\ s # None /\ s \notin q.sessions
             /\ req' = [req EXCEPT ![r] = [Left EXCEPT !.sessions = @ \cup {s}]]
             /\ cancelled' = cancelled \cup {y \in RuntimeJobs : SessionOf[y] = s}
          \/ /\ s = None
             /\ req' = [req EXCEPT ![r] = Left]
             /\ cancelled' = cancelled \cup {x}
          \/ /\ s \notin q.sessions
             /\ req' = [req EXCEPT ![r] = [Left EXCEPT !.reported = @ \cup {x}]]
             /\ UNCHANGED cancelled
          \/ s = None /\ Done(r) /\ UNCHANGED cancelled
       /\ UNCHANGED <<jobs, stored, events, runtimeOf, started, ended, silent, walk>>

\* The 200 of a stop that went through its list.
StopAnswer(r) ==
    /\ req[r].kind = "stop" /\ req[r].at = "cancel" /\ req[r].todo = {}
    /\ Done(r)
    /\ UNCHANGED <<rowVars, started, ended, silent, walk>>

\* The worker of a request is killed (the timeout of gunicorn, a restart).
RequestDies(r) ==
    /\ req[r] # Idle
    /\ silent' = IF req[r].kind = "sub_status" /\ req[r].at = "event"
                 THEN silent \cup {<<req[r].job, req[r].value>>} ELSE silent
    /\ Done(r)
    /\ UNCHANGED <<rowVars, started, ended, walk>>

-----------------------------------------------------------------------------
(* Around the requests: new jobs, the scheduler and the container, and the *)
(* back office, which may delete a function.                               *)

NewJob(j) ==
    /\ jobs[j] = None /\ \A i \in JobIds : i < j => jobs[i] # None
    /\ functions[JobKind[j].program] # None
    /\ jobs' = [jobs EXCEPT ![j] = [author |-> JobKind[j].author, program |-> JobKind[j].program, status |-> "QUEUED",
                                    sub_status |-> None, runner |-> functions[JobKind[j].program].runner]]
    /\ UNCHANGED <<stored, events, runtimeOf, cancelled, req, started, ended, silent, walk>>

\* The scheduler moves the row; with the end it clears sub_status.
SchedulerMoves(j, s) ==
    /\ jobs[j] # None /\ s \in VALID_TRANSITIONS[jobs[j].status]
    /\ jobs' = [jobs EXCEPT ![j].status = s, ![j].sub_status = IF s \in TERMINAL_STATUSES THEN None ELSE @]
    /\ ended' = IF s \in TERMINAL_STATUSES THEN ended \cup {j} ELSE ended
    /\ UNCHANGED <<stored, events, runtimeOf, cancelled, req, started, silent, walk>>

\* A running container leaves its result and its logs.
ContainerWrites(j) ==
    /\ jobs[j] # None /\ jobs[j].status \in {"RUNNING", "STOPPING"}
    /\ \E x \in {"result", "log", "private"} : stored' = [stored EXCEPT ![j] = @ \cup {x}]
    /\ UNCHANGED <<jobs, events, runtimeOf, cancelled, req, started, ended, silent, walk>>

\* Job.program is SET_NULL.
DeleteFunction(f) ==
    /\ functions[f] # None
    /\ functions' = [functions EXCEPT ![f] = None]
    /\ jobs' = [j \in JobIds |-> IF jobs[j] # None /\ jobs[j].program = f THEN [jobs[j] EXCEPT !.program = None] ELSE jobs[j]]
    /\ UNCHANGED <<shares, admins, enabled, platform, cached, given, changes, stored, events, runtimeOf, cancelled, req, started, ended, silent, walk>>

\* A client follows the next links of the job list from the first page.
WalkPage(u) ==
    LET first == walk.user = None
        page == job_list(u, NoFilters, PageSize, IF first THEN 0 ELSE walk.offset)
    IN /\ walk.user \in {None, u} /\ ~walk.over
       /\ walk' = [user |-> u, offset |-> page.next, over |-> page.next = None,
                   seen |-> walk.seen \cup Range(page.results),
                   owed |-> IF first THEN {j \in Created : jobs[j].author = u} ELSE walk.owed]
       /\ UNCHANGED <<rowVars, req, started, ended, silent>>

JobInit ==
    /\ jobs = [j \in JobIds |-> None]
    /\ stored = [j \in JobIds |-> {}]
    /\ events = [j \in JobIds |-> {}]
    /\ runtimeOf = [x \in RuntimeJobs |-> None]
    /\ cancelled = {}
    /\ req = [r \in Reqs |-> Idle]
    /\ started = 0
    /\ ended = {}
    /\ silent = {}
    /\ walk = [user |-> None, offset |-> None, over |-> FALSE, seen |-> {}, owed |-> {}]

SubStatusSteps ==
    \/ \E r \in Reqs, u \in Users, j \in Created :
          (\E s \in SubStatuses : SubStatusRead(r, u, j, s)) \/ EventRead(r, u, j)
    \/ \E r \in Reqs : SubStatusUpdate(r) \/ SubStatusEvent(r) \/ EventInsert(r) \/ RequestDies(r)

\* Stops of the jobs js, whose request comes with credentials for the Runtime service or not.
Stopping(js, services) ==
    \/ \E r \in Reqs, u \in Users, j \in Created \cap js, service \in services : StopRead(r, u, j, service)
    \/ \E r \in Reqs : StopMove(r) \/ StopQuery(r)

StopSteps(js) ==
    \/ Stopping(js, BOOLEAN)
    \/ \E r \in Reqs : StopAnswer(r) \/ RequestDies(r)
    \/ \E r \in Reqs, x \in RuntimeJobs : StopCancel(r, x)
    \/ \E u \in Users, j \in Created, x \in RuntimeJobs : AssociateRuntimeJob(u, j, x)

\* New jobs among js, and moves of the scheduler to the statuses ss.
Surroundings(js, ss) ==
    \/ \E j \in js : NewJob(j)
    \/ \E j \in js, s \in ss : SchedulerMoves(j, s)

Storage ==
    \/ \E j \in JobIds : ContainerWrites(j)
    \/ \E u \in Users, j \in Created : SaveResult(u, j)

\* The job endpoints with all that goes on around them, over a table of functions that only the back office changes.
JobNext ==
    \/ /\ \/ SubStatusSteps \/ StopSteps(JobIds) \/ Surroundings(JobIds, Statuses) \/ Storage
          \/ \E u \in Users : WalkPage(u)
       /\ UNCHANGED functions
    \/ \E f \in FunctionIds : DeleteFunction(f)

JobSpec(table) == functions = table /\ JobInit /\ [][JobNext]_<<functions, jobVars>>

-----------------------------------------------------------------------------
(* Properties *)

\* Types of the job rows and of the requests in flight.
JobTypeOK ==
    /\ \A j \in Created : /\ jobs[j].author \in Users /\ jobs[j].program \in FunctionIds \cup {None}
                          /\ jobs[j].status \in Statuses /\ jobs[j].sub_status \in SubStatuses \cup {None}
    /\ \A j \in JobIds : stored[j] \subseteq {"result", "log", "private"} /\ events[j] \subseteq SubStatuses \cup {"ERROR"}
    /\ \A x \in RuntimeJobs : runtimeOf[x] \in Created \cup {None}
    /\ \A r \in Reqs : req[r].kind \in {"idle", "sub_status", "error", "stop"}

\* A job whose end the scheduler wrote has no sub_status, and gets none from a request that was
\* already under way (the conditional UPDATE of SetJobSubStatusUseCase).
EndedLeavesNoSubStatus == \A j \in ended : jobs[j].sub_status = None

\* The sub_status of a row is one that was recorded as an event, or whose request is about to
\* record it or died just then, although the event is only written when the value differs from the
\* one the request had read.
SubStatusIsAnnounced ==
    \A j \in Created : LET v == jobs[j].sub_status IN
        v # None => \/ v \in events[j] \/ <<j, v>> \in silent
                    \/ \E r \in Reqs : /\ req[r].kind = "sub_status" /\ req[r].at = "event"
                                       /\ req[r].job = j /\ req[r].value = v

\* A stop that answers 200 has cancelled every runtime job it found, alone or with its session, or
\* names it in the answer as one that could not be cancelled.
StopAnswersForEveryRuntimeJob ==
    \A r \in Reqs : req[r].kind = "stop" /\ req[r].at = "cancel" /\ req[r].todo = {}
                        => req[r].queried \subseteq cancelled \cup req[r].reported

\* The result of a job is served to its author only, through whichever endpoint.
ResultsReachOnlyTheAuthor ==
    \A u \in Users, af \in Results :
        /\ \A j \in Created : jobs[j].author # u =>
               /\ retrieve(u, j, TRUE, af).code = 200 => ~retrieve(u, j, TRUE, af).result
               /\ get_result(u, j) = 404
        /\ \A f \in Stored : get_jobs(u, f, af).result => \A j \in get_jobs(u, f, af).jobs : jobs[j].author = u

Everything(answer) == IF answer.code = 200 THEN Range(answer.results) ELSE {}
OfProvider(p) == [NoFilters EXCEPT !.provider = p]

\* The three ways to list a provider's jobs and the retrieval of a single one agree on what the
\* user may see: the provider list (of all functions, or function by function), the jobs of each
\* function, and the jobs that can be retrieved as provider are the same jobs.
ListingsAgree ==
    \A u \in Users, p \in Providers, af \in Results :
        LET visible == {j \in Created : /\ IsProviderJob(j) /\ ProgramOf(j).provider = p
                                        /\ can_retrieve_job(u, p, ProgramOf(j).title, af)}
            listed == Everything(provider_list(u, OfProvider(p), af, 0, 0))
            byTitle == UNION {Everything(provider_list(u, [OfProvider(p) EXCEPT !.function = t], af, 0, 0)) : t \in Titles}
            byFunction == UNION {get_jobs(u, f, af).jobs : f \in {g \in provider_functions(p) : ~get_jobs(u, g, af).result}}
        IN /\ visible = listed /\ visible = byTitle /\ visible = byFunction
           /\ \A j \in visible : retrieve(u, j, FALSE, af).code = 200

\* As long as the function of a job exists, no endpoint that reads the job fails: logs, the
\* provider's logs (which exist for provider functions only) and results.
ReadsAnswer ==
    \A u \in Users, j \in Created, af \in Results :
        jobs[j].program # None => 500 \notin {get_logs(u, j), get_provider_logs(u, j, af), get_result(u, j)}

\* A client that follows the links of the job list misses no job that existed when it began, even
\* if jobs are created on the way.
WalkMissesNothing == walk.over => walk.owed \subseteq walk.seen

\* The sub_status of a job is one its owner set and was told of, and none once it ended, whatever
\* overlaps: other updates, a stop, the end of the job, a request that dies.
SubStatusIsKept == JobTypeOK /\ EndedLeavesNoSubStatus /\ SubStatusIsAnnounced

\* What the endpoints that change a job leave behind and answer: the sub_status, and the runtime jobs
\* a stop accounts for.
JobWritesAreTrue == SubStatusIsKept /\ StopAnswersForEveryRuntimeJob

\* The endpoints that read jobs agree with each other, answer, and serve results to authors only.
JobReadsAgree == ListingsAgree /\ ResultsReachOnlyTheAuthor /\ ReadsAnswer /\ WalkMissesNothing
=============================================================================
