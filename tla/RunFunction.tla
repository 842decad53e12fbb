----------------------------- MODULE RunFunction -----------------------------
(***************************************************************************)
(* Running a function (api/use_cases/programs/run.py).  A request reads    *)
(* the function, counts the user's active jobs, stores the arguments, and  *)
(* then opens the transaction that inserts the job, inside of which it     *)
(* tells the Runtime API of the job (the PUT of the mirror).  PostgreSQL   *)
(* checks foreign keys at COMMIT, so the size and the function that the    *)
(* request read are only checked after the PUT.                            *)
(***************************************************************************)
EXTENDS Catalog, JobStatuses

CONSTANTS Runs,           \* run requests in flight at most
          RunIds,         \* ids of the jobs they create
          ActiveLimit     \* Config ACTIVE_JOBS_PER_USER

VARIABLES
    submitted,   \* Job rows: author, program, status, size (foreign key), name and source of the size
    arguments,   \* jobs whose arguments are in storage
    workloads,   \* jobs that the Runtime API knows of
    mirrored,    \* WorkloadMirror rows
    run,         \* run requests in flight
    begun,       \* job ids given out
    cut          \* jobs whose request was cut short: <<"died", j>>, <<"refused", j>> by the database at COMMIT,
                 \* <<"kept", j>> when the arguments could not be deleted

runVars == <<submitted, arguments, workloads, mirrored, run, begun, cut>>

NoRun == [at |-> "idle"]
NewRunId == CHOOSE j \in RunIds \ begun : \A i \in RunIds \ begun : j =< i
ActiveJobs(u) == {j \in RunIds : submitted[j] # None /\ submitted[j].author = u /\ submitted[j].status \in ACTIVE_STATUSES}

\* Mutant: one more than the limit.
LimitPassed(u) == Cardinality(ActiveJobs(u)) > ActiveLimit

\* active_jobs_limit_reached
active_jobs_limit_reached(u) == Cardinality(ActiveJobs(u)) >= ActiveLimit

\* _get_runner_config: the size rows the job may get, and where they come from.  The default is the
\* one that was read with the function; a requested size is looked up now.
_get_runner_config(f, row, requested) ==
    IF row.runner # "fleets" THEN [source |-> "none", rows |-> {None}]
    ELSE IF requested # None THEN [source |-> "requested", rows |-> get_function_size(f, requested)]
    ELSE [source |-> "default_size", rows |-> {row.default} \ {None}]

\* Mutant: only a size that was asked for is named.
RequestedNameOnly(q, i) == q.requested

\* The name of the size, which the job keeps apart from the foreign key.
SizeName(q, i) == IF i = None THEN None ELSE IF q.requested # None THEN q.requested ELSE q.label

-----------------------------------------------------------------------------
(* RunFunctionUseCase.execute.  A request that is refused before it stores *)
(* anything (403, 404, 423, 429, 400) has no effect and simply ends.       *)

\* The function is read, with its default size.
RunResolve(r, u, t, p, af, requested) ==
    /\ run[r] = NoRun /\ \A q \in Runs : q < r => run[q] # NoRun   \* slots are alike: take the first
    /\ \E f \in resolve_to_run(u, af, t, p) :
         /\ ~functions[f].disabled
         /\ run' = [run EXCEPT ![r] = [at |-> "count", user |-> u, function |-> f, row |-> functions[f],
                                       label |-> IF functions[f].default = None THEN None ELSE sizes[functions[f].default].name,
                                       requested |-> requested]]
    /\ UNCHANGED <<accessVars, catalogVars, submitted, arguments, workloads, mirrored, begun, cut>>

\* The count, the project and the size; a job id is drawn.
RunCount(r) ==
    LET q == run[r]
        config == _get_runner_config(q.function, q.row, q.requested)
    IN /\ q.at = "count"
       /\ IF \/ active_jobs_limit_reached(q.user)
             \/ q.row.runner = "fleets" /\ q.row.project \notin active
             \/ config.rows = {}
          THEN run' = [run EXCEPT ![r] = NoRun] /\ UNCHANGED begun
          ELSE \E i \in config.rows : LET j == NewRunId IN
                 /\ begun # RunIds
                 /\ begun' = begun \cup {j}
                 /\ run' = [run EXCEPT ![r] =
                      [at |-> "arguments", job |-> j, mirror |-> None,
                       row |-> [author |-> q.user, program |-> q.function, status |-> "QUEUED", size |-> i,
                                source |-> config.source,
                                name |-> SizeName(q, i)]]]
       /\ UNCHANGED <<accessVars, catalogVars, submitted, arguments, workloads, mirrored, cut>>

\* Mutant: the arguments follow once the job is stored.
ArgumentsLater(r) ==
    /\ run[r].at = "arguments"
    /\ run' = [run EXCEPT ![r].at = "put"]
    /\ UNCHANGED <<accessVars, catalogVars, submitted, arguments, workloads, mirrored, begun, cut>>

\* arguments_storage.save; when it fails, nothing is left.
RunSaveArguments(r) ==
    /\ run[r].at = "arguments"
    /\ \/ arguments' = arguments \cup {run[r].job} /\ run' = [run EXCEPT ![r].at = "put"]
       \/ run' = [run EXCEPT ![r] = NoRun] /\ UNCHANGED arguments
    /\ UNCHANGED <<accessVars, catalogVars, submitted, workloads, mirrored, begun, cut>>

\* Mutant: a failed PUT rolls the job back.
FailedPutIsForgotten(r) ==
    LET j == run[r].job IN
    /\ run[r].at = "put"
    /\ \/ UNCHANGED workloads /\ run' = [run EXCEPT ![r].at = "commit"]
       \/ workloads' = workloads \cup {j} /\ run' = [run EXCEPT ![r].at = "commit", ![r].mirror = j]
       \/ workloads' \in {workloads, workloads \cup {j}} /\ run' = [run EXCEPT ![r] = NoRun]
    /\ UNCHANGED <<accessVars, catalogVars, submitted, arguments, mirrored, begun, cut>>

\* Mutant: the mirror row is made whether or not the PUT went through.
MirrorAnyway(r) ==
    LET j == run[r].job IN
    /\ run[r].at = "put"
    /\ \E status \in {"QUEUED", "FAILED"} :
         /\ workloads' \in {workloads, workloads \cup {j}}
         /\ run' = [run EXCEPT ![r].at = "commit", ![r].row.status = status, ![r].mirror = j]
    /\ UNCHANGED <<accessVars, catalogVars, submitted, arguments, mirrored, begun, cut>>

\* The PUT inside of the transaction: not wanted for the job, taken, or failed, in which case the
\* Runtime API may have taken the job all the same and the job is stored as FAILED (_fail_job).  Any other error rolls back.
RunPut(r) ==
    LET j == run[r].job IN
    /\ run[r].at = "put"
    /\ \/ UNCHANGED workloads /\ run' = [run EXCEPT ![r].at = "commit"]
       \/ workloads' = workloads \cup {j} /\ run' = [run EXCEPT ![r].at = "commit", ![r].mirror = j]
       \/ /\ workloads' \in {workloads, workloads \cup {j}}
          /\ run' = [run EXCEPT ![r].at = "commit", ![r].row.status = "FAILED"]
       \/ UNCHANGED workloads /\ run' = [run EXCEPT ![r].at = "delete"]
    /\ UNCHANGED <<accessVars, catalogVars, submitted, arguments, mirrored, begun, cut>>

\* Mutant: after a refused COMMIT the arguments stay.
CommitKeepsArguments(r) ==
    LET q == run[r]
        j == q.job
    IN /\ q.at = "commit"
       /\ IF functions[q.row.program] # None /\ (q.row.size # None => sizes[q.row.size] # None)
          THEN /\ submitted' = [submitted EXCEPT ![j] = q.row]
               /\ mirrored' = mirrored \cup ({q.mirror} \ {None})
               /\ UNCHANGED cut
          ELSE cut' = cut \cup {<<"refused", j>>} /\ UNCHANGED <<submitted, mirrored>>
       /\ run' = [run EXCEPT ![r] = NoRun]
       /\ UNCHANGED <<accessVars, catalogVars, arguments, workloads, begun>>

\* COMMIT, or its refusal when the function or the size is gone, after which _delete_arguments runs.
RunCommit(r) ==
    LET q == run[r]
        j == q.job
    IN /\ q.at = "commit"
       /\ IF functions[q.row.program] # None /\ (q.row.size # None => sizes[q.row.size] # None)
          THEN /\ submitted' = [submitted EXCEPT ![j] = q.row]
               /\ mirrored' = mirrored \cup ({q.mirror} \ {None})
               /\ run' = [run EXCEPT ![r] = NoRun]
               /\ UNCHANGED cut
          ELSE /\ cut' = cut \cup {<<"refused", j>>}
               /\ run' = [run EXCEPT ![r].at = "delete"]
               /\ UNCHANGED <<submitted, mirrored>>
       /\ UNCHANGED <<accessVars, catalogVars, arguments, workloads, begun>>

\* _delete_arguments; a failure is only logged.
RunDeleteArguments(r) ==
    /\ run[r].at = "delete"
    /\ \/ arguments' = arguments \ {run[r].job} /\ UNCHANGED cut
       \/ cut' = cut \cup {<<"kept", run[r].job>>} /\ UNCHANGED arguments
    /\ run' = [run EXCEPT ![r] = NoRun]
    /\ UNCHANGED <<accessVars, catalogVars, submitted, workloads, mirrored, begun>>

\* The worker is killed: the database rolls the transaction back and nothing else is undone.
RunDies(r) ==
    /\ run[r].at \in {"put", "commit", "delete"}
    /\ run' = [run EXCEPT ![r] = NoRun]
    /\ cut' = cut \cup {<<"died", run[r].job>>}
    /\ UNCHANGED <<accessVars, catalogVars, submitted, arguments, workloads, mirrored, begun>>

-----------------------------------------------------------------------------
(* Around it: jobs end, and what a job refers to is deleted (SET_NULL).    *)

JobEnds(j) ==
    /\ submitted[j] # None /\ submitted[j].status \in ACTIVE_STATUSES
    /\ submitted' = [submitted EXCEPT ![j].status = "SUCCEEDED"]
    /\ UNCHANGED <<accessVars, catalogVars, arguments, workloads, mirrored, run, begun, cut>>

\* The rows that still refer to a size or a function that this step deletes.
SetNull ==
    submitted' = [j \in RunIds |->
        IF submitted[j] = None THEN None
        ELSE [submitted[j] EXCEPT !.program = IF @ # None /\ functions'[@] = None THEN None ELSE @,
                                  !.size = IF @ # None /\ sizes'[@] = None THEN None ELSE @]]

\* A change of the catalog while requests are under way.
CatalogMoves(forms, fs) ==
    /\ \/ \E r \in Uploaders, u \in Users, form \in forms : UploadRead(r, u, form, LegacyResult)
       \/ \E r \in Uploaders : UploadCommit(r)
       \/ \E f \in fs : RemoveFunction(f)
    /\ SetNull
    /\ UNCHANGED <<arguments, workloads, mirrored, run, begun, cut>>

RunInit(taken) ==
    /\ submitted = [j \in RunIds |-> None]
    /\ arguments = {}
    /\ workloads = {}
    /\ mirrored = {}
    /\ run = [r \in Runs |-> NoRun]
    /\ begun = taken
    /\ cut = {}

\* Requests among asks: who runs which title of which provider, and at what size.
RunSteps(asks) ==
    \/ \E r \in Runs, a \in asks : RunResolve(r, a.user, a.title, a.provider, LegacyResult, a.size)
    \/ \E r \in Runs : \/ RunCount(r) \/ RunSaveArguments(r) \/ RunPut(r)
                       \/ RunCommit(r) \/ RunDeleteArguments(r) \/ RunDies(r)

Endings == \E j \in RunIds : JobEnds(j)

-----------------------------------------------------------------------------
(* Properties *)

InFlight == {run[r].job : r \in {q \in Runs : run[q].at \notin {"idle", "count"}}}

\* The limit of active jobs per user is only exceeded by requests that overlap: the count and the
\* insert are apart, so each request in flight beside the first may add one.
ActiveWithinLimit == \A u \in Users : Cardinality(ActiveJobs(u)) =< ActiveLimit + Cardinality(Runs) - 1

\* A job that the scheduler can see has its arguments in storage.
StoredJobHasArguments == \A j \in RunIds : submitted[j] # None => j \in arguments

\* Arguments are left without a job only by a request that was cut: one that died, or whose cleanup
\* after a refused COMMIT failed.
ArgumentsHaveAJob ==
    \A j \in arguments : submitted[j] # None \/ j \in InFlight \/ {<<"died", j>>, <<"kept", j>>} \cap cut # {}

\* A job the Runtime API knows of is in the database too, unless its request died or its COMMIT was
\* refused: a PUT whose answer was lost leaves a FAILED job behind, not a job nobody knows of.
WorkloadsAreKnown ==
    \A j \in workloads : submitted[j] # None \/ j \in InFlight \/ {<<"died", j>>, <<"refused", j>>} \cap cut # {}

\* Final statuses are sent for a job that the Runtime API took, and for no other (WorkloadMirror).
MirroredWasTaken == mirrored \subseteq workloads /\ \A j \in mirrored : submitted[j] # None

\* A Fleets job keeps the name of the size it was given when the row is deleted, and while the row
\* is there it is a size of the job's own function with that name.
JobKeepsItsSize ==
    \A j \in RunIds : LET row == submitted[j] IN
        row # None => /\ row.source # "none" => row.name # None
                      /\ row.size # None /\ row.program # None =>
                             sizes[row.size].function = row.program /\ sizes[row.size].name = row.name

\* What a run leaves behind agrees in the database, in storage and at the Runtime API, however the
\* request ended.
LeavingsAgree == StoredJobHasArguments /\ ArgumentsHaveAJob /\ WorkloadsAreKnown /\ MirroredWasTaken

\* What a run decided before the transaction, the limit and the size, still holds of the stored job.
DecisionsHold == ActiveWithinLimit /\ JobKeepsItsSize

\* A run that a request died in, or raced an upload, a deletion or another run, is whole all the same.
RunsAreWhole == LeavingsAgree /\ DecisionsHold
=============================================================================
