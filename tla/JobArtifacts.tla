---------------------------- MODULE JobArtifacts -----------------------------
(***************************************************************************)
(* What a job leaves in storage and who finds it again: the arguments the  *)
(* gateway saves, the code the scheduler uploads, the logs and the result  *)
(* the container writes, and what the gateway serves.  The two sides never *)
(* exchange a path: the gateway derives object keys from the job and its   *)
(* function (fleets/utils.py, the storages, PathBuilder), the container    *)
(* gets mounts and environment variables when it is created and keeps      *)
(* them, while the function may be moved to another project or uploaded    *)
(* anew.  Two jobs run at the same time; the cast says of which functions. *)
(* A key is the sequence of its segments, a body says what it is and whose.*)
(***************************************************************************)
EXTENDS Integers, Sequences, FiniteSets, SequencesExt

CONSTANTS ArtifactJobs,  \* job ids
          Casts,         \* the choices of author and function for the jobs
          ProgramRows,   \* the functions at the start
          ProjectRows,   \* the Code Engine projects: which buckets are configured, and active
          Members,       \* the file names in each version of an artifact; <<"..">> stands for one outside
          MaxMoves,      \* bound on the changes of the functions
          Null

VARIABLES row,           \* the job rows: author and program
          program,       \* the function rows
          seen,          \* the function rows as the scheduler last fetched them with its batch
          work,          \* how far each job is
          objects,       \* the objects in COS and the files on the data volume
          local,         \* settings.RAY_CLUSTER_MODE_LOCAL
          moves          \* changes of the functions so far

artifactVars == <<row, program, seen, work, objects, local, moves>>

ENTRYPOINT == "main"
CUSTOM_JOB_WRAPPER_NAME == "custom_wrapper"
PROVIDER_JOB_WRAPPER_NAME == "provider_wrapper"
FUNCTION_USER_DATA_PATH == <<"function_user_data">>
JOB_USER_DATA_PATH == <<"job_user_data">>
FUNCTION_PROVIDER_DATA_PATH == <<"function_provider_data">>
JOB_PROVIDER_DATA_PATH == <<"job_provider_data">>

Body(kind, of, version, app) == [kind |-> kind, of |-> of, version |-> version, app |-> app]
OfJob(kind, j) == Body(kind, j, 0, Null)

UserBucket(p) == <<p, "users">>           \* cos_bucket_user_data_name, and the data store pds_name_users over it
ProviderBucket(p) == <<p, "providers">> \* cos_bucket_provider_data_name and pds_name_providers
Disk == <<"disk">>               \* settings.MEDIA_ROOT

Put(set, at, body) == {o \in set : o.at # at} \cup {[at |-> at, body |-> body]}
Look(at) == LET found == {o \in objects : o.at = at} IN IF found = {} THEN Null ELSE (CHOOSE o \in found : TRUE).body

-----------------------------------------------------------------------------
(* fleets/utils.py: keys of the objects and paths in the container.        *)

\* Mutant: the jobs of a function share one folder.
OneFolderPerFunction(j, f) ==
    LET base == <<"users", row[j].author, "custom_functions", f.title>> IN
    [user_function |-> base \o <<"data">>, user_job |-> base \o <<"jobs">>,
     provider_function |-> Null, provider_job |-> Null,
     entrypoint |-> base \o <<"data", ENTRYPOINT>>, wrapper |-> base \o <<"data", CUSTOM_JOB_WRAPPER_NAME>>,
     container_entrypoint |-> Append(FUNCTION_USER_DATA_PATH, ENTRYPOINT),
     container_wrapper |-> Append(FUNCTION_USER_DATA_PATH, CUSTOM_JOB_WRAPPER_NAME),
     private_log |-> Null]

build_custom_job_paths(j, f) ==
    LET base == <<"users", row[j].author, "custom_functions", f.title>> IN
    [user_function |-> base \o <<"data">>, user_job |-> base \o <<"jobs", j>>,
     provider_function |-> Null, provider_job |-> Null,
     entrypoint |-> base \o <<"data", ENTRYPOINT>>, wrapper |-> base \o <<"data", CUSTOM_JOB_WRAPPER_NAME>>,
     container_entrypoint |-> Append(FUNCTION_USER_DATA_PATH, ENTRYPOINT),
     container_wrapper |-> Append(FUNCTION_USER_DATA_PATH, CUSTOM_JOB_WRAPPER_NAME),
     private_log |-> Null]

build_provider_job_paths(j, f) ==
    LET mine == <<"users", row[j].author, "provider_functions", f.provider, f.title>>
        theirs == <<"providers", f.provider, f.title>>
    IN [user_function |-> mine \o <<"data">>, user_job |-> mine \o <<"jobs", j>>,
        provider_function |-> theirs \o <<"data">>, provider_job |-> theirs \o <<"jobs", j>>,
        entrypoint |-> theirs \o <<"data", ENTRYPOINT>>, wrapper |-> theirs \o <<"data", PROVIDER_JOB_WRAPPER_NAME>>,
        container_entrypoint |-> Append(FUNCTION_PROVIDER_DATA_PATH, ENTRYPOINT),
        container_wrapper |-> Append(FUNCTION_PROVIDER_DATA_PATH, PROVIDER_JOB_WRAPPER_NAME),
        private_log |-> Append(JOB_PROVIDER_DATA_PATH, "logs.log")]

build_job_paths(j, f) == IF f.provider # Null THEN build_provider_job_paths(j, f) ELSE build_custom_job_paths(j, f)

Mount(at, bucket, prefix) == [at |-> at, bucket |-> bucket, prefix |-> prefix]

build_run_volume_mounts_for_job(paths, p) ==
    {Mount(FUNCTION_USER_DATA_PATH, UserBucket(p), paths.user_function), Mount(JOB_USER_DATA_PATH, UserBucket(p), paths.user_job)}
    \cup IF paths.provider_function = Null THEN {}
         ELSE {Mount(FUNCTION_PROVIDER_DATA_PATH, ProviderBucket(p), paths.provider_function),
               Mount(JOB_PROVIDER_DATA_PATH, ProviderBucket(p), paths.provider_job)}

\* build_env_variables: where a Ray job finds its folder, stored with the job when it is created.
data_path(j, f) ==
    IF ~local THEN <<"data">>
    ELSE <<"data", row[j].author>> \o IF f.provider = Null THEN <<>> ELSE <<f.provider, f.title>>

build_env_variables(j, f) ==
    [arguments |-> data_path(j, f) \o <<"arguments", j>>, results |-> data_path(j, f) \o <<"results", j>>,
     public_log |-> Null, private_log |-> Null]

\* Mutant: the variables stored with the job win over those of the runner.
StoredVariablesWin(paths, stored) ==
    [stored EXCEPT !.public_log = Append(JOB_USER_DATA_PATH, "logs.log"), !.private_log = paths.private_log]

build_run_env_variables(paths, stored) ==
    [stored EXCEPT !.arguments = Append(JOB_USER_DATA_PATH, "arguments.json"),
                   !.results = Append(JOB_USER_DATA_PATH, "results.json"),
                   !.public_log = Append(JOB_USER_DATA_PATH, "logs.log"),
                   !.private_log = IF paths.private_log # Null THEN paths.private_log ELSE @]

-----------------------------------------------------------------------------
(* The storages: where the gateway writes or looks, for the function as it *)
(* is now; Null when the constructor raises.                               *)

\* PathBuilder, for the user's folder and the provider's.
get_user_folder(j, f) == <<row[j].author>> \o IF f.provider = Null THEN <<>> ELSE <<f.provider, f.title>>
get_provider_folder(f) == <<f.provider, f.title>>

HasUsers(f) == f.project # Null /\ ProjectRows[f.project].users
HasVendors(f) == f.project # Null /\ ProjectRows[f.project].providers

FleetsArgumentsStorage(j, f) ==
    IF HasUsers(f) THEN <<UserBucket(f.project), Append(build_job_paths(j, f).user_job, "arguments.json")>> ELSE Null

RayArgumentsStorage(j, f) == <<Disk, get_user_folder(j, f) \o <<"arguments", j>>>>

get_arguments_storage(j, f) ==
    IF row[j].runner = "ray" THEN RayArgumentsStorage(j, f) ELSE FleetsArgumentsStorage(j, f)

FleetsResultStorage(j, f) ==
    IF HasUsers(f) THEN <<UserBucket(f.project), Append(build_job_paths(j, f).user_job, "results.json")>> ELSE Null

RayResultStorage(j, f) == <<Disk, get_user_folder(j, f) \o <<"results", j>>>>

get_result_storage(j, f) == IF row[j].runner = "ray" THEN RayResultStorage(j, f) ELSE FleetsResultStorage(j, f)

\* The constructor asks for the provider's bucket of a provider function, whichever log is read.
FleetsLogsStorage(j, f) ==
    IF ~HasUsers(f) \/ (f.provider # Null /\ ~HasVendors(f)) THEN [public |-> Null, private |-> Null]
    ELSE [public |-> <<UserBucket(f.project), Append(build_job_paths(j, f).user_job, "logs.log")>>,
          private |-> IF f.provider = Null THEN Null
                      ELSE <<ProviderBucket(f.project), Append(build_job_paths(j, f).provider_job, "logs.log")>>]

RayLogsStorage(j, f) ==
    [public |-> <<Disk, get_user_folder(j, f) \o <<"logs", j>>>>,
     private |-> IF f.provider = Null THEN Null ELSE <<Disk, get_provider_folder(f) \o <<"logs", j>>>>]

get_logs_storage(j, f) == IF row[j].runner = "ray" THEN RayLogsStorage(j, f) ELSE FleetsLogsStorage(j, f)

ProgramOf(j) == program[row[j].program]

Served(at) == IF at = Null THEN Null ELSE Look(at)
served_result(j) == Served(get_result_storage(j, ProgramOf(j)))
served_logs(j) == Served(get_logs_storage(j, ProgramOf(j)).public)
served_provider_logs(j) == Served(get_logs_storage(j, ProgramOf(j)).private)

\* JobFileExplorer: the objects listed for a job in the back office, by category.
_list_cos_group(category, bucket, prefix) ==
    {[category |-> category, body |-> o.body] : o \in {x \in objects : x.at[1] = bucket /\ IsPrefix(prefix, x.at[2])}}

_explore_fleets(j, f) ==
    LET paths == build_job_paths(j, f) IN
    IF f.project = Null THEN {}
    ELSE _list_cos_group("Data Files", UserBucket(f.project), paths.user_function)
         \cup _list_cos_group("Job Files", UserBucket(f.project), paths.user_job)
         \cup IF paths.provider_job = Null THEN {}
              ELSE _list_cos_group("Provider Data", ProviderBucket(f.project), paths.provider_function)
                   \cup _list_cos_group("Provider Job Files", ProviderBucket(f.project), paths.provider_job)

_stat_entry(category, at) == IF at = Null \/ Look(at) = Null THEN {} ELSE {[category |-> category, body |-> Look(at)]}

_explore_ray(j, f) ==
    _stat_entry("Results", RayResultStorage(j, f)) \cup _stat_entry("Logs", RayLogsStorage(j, f).public)
    \cup _stat_entry("Arguments", RayArgumentsStorage(j, f)) \cup _stat_entry("Private Logs", RayLogsStorage(j, f).private)

explore(j) == IF row[j].runner = "fleets" THEN _explore_fleets(j, ProgramOf(j)) ELSE _explore_ray(j, ProgramOf(j))

-----------------------------------------------------------------------------
(* The gateway creates the job.                                            *)

At(j, at) == work' = [work EXCEPT ![j].at = at]

\* RunFunctionUseCase saves the arguments before the row is committed.
RunSaves(j) ==
    LET at == get_arguments_storage(j, ProgramOf(j)) IN
    /\ work[j].at = "new" /\ at # Null
    /\ objects' = Put(objects, at, OfJob("arguments", j))
    /\ work' = [work EXCEPT ![j].at = "saved", ![j].stored = build_env_variables(j, ProgramOf(j)), ![j].saved = at]
    /\ UNCHANGED <<row, program, seen, local, moves>>

RunCommits(j) ==
    /\ work[j].at = "saved"
    /\ At(j, "queued")
    /\ UNCHANGED <<row, program, seen, objects, local, moves>>

\* The commit fails, and the use case deletes what it saved.
RunRollsBack(j) ==
    /\ work[j].at = "saved"
    /\ objects' = {o \in objects : o.at # work[j].saved}
    /\ At(j, "gone")
    /\ UNCHANGED <<row, program, seen, local, moves>>

-----------------------------------------------------------------------------
(* The scheduler submits it: FleetsRunner.submit and RayRunner.submit.     *)

Busy == \E j \in ArtifactJobs : work[j].at \in {"uploading", "uploaded"}

\* with_scheduler_context: the functions are fetched with the batch of jobs.
Fetch ==
    /\ ~Busy /\ seen # program
    /\ seen' = program
    /\ UNCHANGED <<row, program, work, objects, local, moves>>

_is_cos_configured(f) == HasUsers(f) /\ (f.provider # Null => HasVendors(f))

\* _upload_custom_image_entrypoint: the wrapper and every member that stays inside the folder.
_upload_custom_image_entrypoint(j, f) ==
    LET paths == build_job_paths(j, f)
        inside == SelectSeq(Members[f.artifact], LAMBDA m : m # "..")
        code == [i \in DOMAIN inside |-> [at |-> <<UserBucket(f.project), Append(paths.user_function, inside[i])>>,
                                          body |-> Body(inside[i], row[j].program, f.artifact, Null)]]
    IN <<[at |-> <<UserBucket(f.project), paths.wrapper>>, body |-> Body("wrapper", Null, 0, paths.container_entrypoint)]>> \o code

\* _upload_provider_image_entrypoint: the wrapper and the entrypoint that calls the package in the image.
_upload_provider_image_entrypoint(j, f) ==
    LET paths == build_job_paths(j, f) IN
    <<[at |-> <<ProviderBucket(f.project), paths.wrapper>>, body |-> Body("wrapper", Null, 0, paths.container_entrypoint)],
      [at |-> <<ProviderBucket(f.project), paths.entrypoint>>, body |-> Body(ENTRYPOINT, "main.tmpl", 0, Null)]>>

_upload_program_to_cos(j, f) ==
    IF f.artifact > 0 THEN _upload_custom_image_entrypoint(j, f)
    ELSE IF f.image THEN _upload_provider_image_entrypoint(j, f) ELSE <<>>

_get_project(f) == f.project # Null /\ ProjectRows[f.project].active

UploadBegin(j) ==
    LET f == seen[row[j].program] IN
    /\ work[j].at = "queued" /\ row[j].runner = "fleets" /\ ~Busy
    /\ IF _get_project(f) /\ _is_cos_configured(f)
       THEN work' = [work EXCEPT ![j].at = "uploading", ![j].todo = _upload_program_to_cos(j, f), ![j].function = f]
       ELSE At(j, "failed")
    /\ UNCHANGED <<row, program, seen, objects, local, moves>>

UploadNext(j) ==
    /\ work[j].at = "uploading" /\ work[j].todo # <<>>
    /\ objects' = Put(objects, Head(work[j].todo).at, Head(work[j].todo).body)
    /\ work' = [work EXCEPT ![j].todo = Tail(@)]
    /\ UNCHANGED <<row, program, seen, local, moves>>

\* An artifact without the entrypoint ends the job.
UploadEnds(j) ==
    LET f == work[j].function IN
    /\ work[j].at = "uploading" /\ work[j].todo = <<>>
    /\ At(j, IF f.artifact > 0 /\ ~Contains(Members[f.artifact], ENTRYPOINT) THEN "failed" ELSE "uploaded")
    /\ UNCHANGED <<row, program, seen, objects, local, moves>>

\* COS or Code Engine fails: retryable errors leave the job queued, others end it.
SubmitFails(j) ==
    /\ work[j].at \in {"uploading", "uploaded"}
    /\ \/ work' = [work EXCEPT ![j].at = "queued", ![j].todo = <<>>]
       \/ work' = [work EXCEPT ![j].at = "failed", ![j].todo = <<>>]
    /\ UNCHANGED <<row, program, seen, objects, local, moves>>

_get_image(f) == IF f.artifact > 0 \/ ~f.image THEN "default" ELSE "own"

_create_fleet(j) ==
    LET f == work[j].function
        paths == build_job_paths(j, f)
    IN /\ work[j].at = "uploaded"
       /\ work' = [work EXCEPT ![j].at = "created",
                               ![j].fleet = [mounts |-> build_run_volume_mounts_for_job(paths, f.project),
                                             env |-> build_run_env_variables(paths, work[j].stored),
                                             command |-> paths.container_wrapper, image |-> _get_image(f)]]
       /\ UNCHANGED <<row, program, seen, objects, local, moves>>

\* The volumes of a Ray cluster: the user's folder at /data (the whole volume in local mode).
_create_cluster_data(j, f) ==
    {Mount(<<"data">>, Disk, IF local THEN <<>> ELSE get_user_folder(j, f))}

\* _submit_to_ray hands Ray a working directory of its own with the code.
_submit_to_ray(j) ==
    LET f == seen[row[j].program] IN
    /\ work[j].at = "queued" /\ row[j].runner = "ray" /\ ~Busy
    /\ IF f.runner # "ray" \/ (~f.image /\ f.artifact = 0) THEN At(j, "failed")
       ELSE work' = [work EXCEPT ![j].at = "created", ![j].function = f,
                                 ![j].fleet = [mounts |-> _create_cluster_data(j, f), env |-> work[j].stored,
                                               command |-> Null, image |-> IF f.provider = Null THEN "default" ELSE "own"]]
    /\ UNCHANGED <<row, program, seen, objects, local, moves>>

-----------------------------------------------------------------------------
(* The container (external): it knows its mounts and its variables only.   *)

Resolve(fleet, path) ==
    LET over == {m \in fleet.mounts : IsPrefix(m.at, path)} IN
    IF over = {} THEN Null
    ELSE LET m == CHOOSE m \in over : TRUE IN <<m.bucket, m.prefix \o SubSeq(path, Len(m.at) + 1, Len(path))>>

ReadAt(fleet, path) == Served(Resolve(fleet, path))

\* The command starts the wrapper, which starts the entrypoint it names, which reads its arguments.
ContainerStarts(j) ==
    LET fleet == work[j].fleet
        wrapper == ReadAt(fleet, fleet.command)
        file(m) == IF wrapper = Null THEN Null ELSE ReadAt(fleet, Append(Front(wrapper.app), m))
        code == IF fleet.command = Null
                THEN [m \in {ENTRYPOINT, "helper"} |-> Body(m, row[j].program, work[j].function.artifact, Null)]
                ELSE [m \in {ENTRYPOINT, "helper"} |-> file(m)]
    IN /\ work[j].at = "created"
       /\ work' = [work EXCEPT ![j].at = IF code[ENTRYPOINT] = Null THEN "failed" ELSE "started",
                               ![j].ran = [code |-> code, arguments |-> ReadAt(fleet, fleet.env.arguments)]]
       /\ UNCHANGED <<row, program, seen, objects, local, moves>>

\* The container writes through a variable that names a path; the wrapper, without one, writes nothing.
Written(j, paths) ==
    LET at(kind) == Resolve(work[j].fleet, paths[kind])
        kinds == {kind \in DOMAIN paths : paths[kind] # Null /\ at(kind) # Null}
    IN /\ work[j].at = "started" /\ kinds # {} /\ kinds \cap work[j].wrote = {}
       /\ objects' = {o \in objects : \A kind \in kinds : o.at # at(kind)}
                     \cup {[at |-> at(kind), body |-> OfJob(kind, j)] : kind \in kinds}
       /\ work' = [work EXCEPT ![j].wrote = @ \cup kinds]
       /\ UNCHANGED <<row, program, seen, local, moves>>

\* save_result writes to RESULTS_PATH, the wrapper to the paths of its logs.
SavesResult(j) == work[j].fleet # Null /\ Written(j, [result |-> work[j].fleet.env.results])
SavesLogs(j) == work[j].fleet # Null /\ Written(j, [public |-> work[j].fleet.env.public_log, private |-> work[j].fleet.env.private_log])

\* The scheduler saves the logs of a Ray job when it ends.
SavesRayLogs(j) ==
    LET storage == RayLogsStorage(j, seen[row[j].program])
        kinds == {kind \in {"public", "private"} : storage[kind] # Null}
    IN /\ work[j].at = "started" /\ row[j].runner = "ray" /\ kinds \cap work[j].wrote = {}
       /\ objects' = objects \cup {[at |-> storage[kind], body |-> OfJob(kind, j)] : kind \in kinds}
       /\ work' = [work EXCEPT ![j].wrote = @ \cup kinds]
       /\ UNCHANGED <<row, program, seen, local, moves>>

-----------------------------------------------------------------------------
(* The function changes under the job.                                     *)

\* A new upload with another project or runner, or the back office.
MoveFunction(p, project, runner) ==
    /\ moves < MaxMoves /\ moves' = moves + 1
    /\ program[p].project # project \/ program[p].runner # runner
    /\ program' = [program EXCEPT ![p].project = project, ![p].runner = runner]
    /\ UNCHANGED <<row, seen, work, objects, local>>

\* A new upload with another artifact.
UploadArtifact(p, version) ==
    /\ moves < MaxMoves /\ moves' = moves + 1
    /\ program[p].artifact > 0 /\ program[p].artifact < version
    /\ program' = [program EXCEPT ![p].artifact = version]
    /\ UNCHANGED <<row, seen, work, objects, local>>

Cast == {row[j].program : j \in ArtifactJobs}
Waiting == [at |-> "new", todo |-> <<>>, stored |-> Null, saved |-> Null, function |-> Null, fleet |-> Null,
            ran |-> Null, wrote |-> {}]

ArtifactInit(casts) ==
    /\ row \in casts
    /\ local \in IF \E j \in ArtifactJobs : row[j].runner = "ray" THEN BOOLEAN ELSE {FALSE}
    /\ program = ProgramRows /\ seen = ProgramRows
    /\ work = [j \in ArtifactJobs |-> Waiting]
    /\ objects = {}
    /\ moves = 0

ArtifactNext ==
    \/ \E j \in ArtifactJobs :
          \/ RunSaves(j) \/ RunCommits(j) \/ RunRollsBack(j) \/ UploadBegin(j) \/ UploadNext(j) \/ UploadEnds(j) \/ SubmitFails(j)
          \/ _create_fleet(j) \/ _submit_to_ray(j) \/ ContainerStarts(j)
          \/ SavesResult(j) \/ SavesLogs(j) \/ SavesRayLogs(j)
    \/ Fetch
    \/ \E p \in Cast : (\E v \in 1..Len(Members) : UploadArtifact(p, v)) \/ \E project \in DOMAIN ProjectRows : MoveFunction(p, project, "fleets")
    \/ \E p \in Cast : MoveFunction(p, program[p].project, "ray")

-----------------------------------------------------------------------------
(* Properties *)

\* Whatever the gateway serves as the result or as a log of a job was written for this very job and as
\* this very thing, and the back office lists no job file of another job.
ServedIsOwn ==
    \A j \in ArtifactJobs :
        /\ served_result(j) \in {Null, OfJob("result", j)}
        /\ served_logs(j) \in {Null, OfJob("public", j)}
        /\ served_provider_logs(j) \in {Null, OfJob("private", j)}
        /\ \A e \in explore(j) : e.category \notin {"Data Files", "Provider Data"} => e.body.of = j

\* The log of the provider is listed with the provider's files only, never with those of the user.
LogsStayApart ==
    \A j \in ArtifactJobs : \A e \in explore(j) :
        e.body.kind = "private" => e.category \in {"Provider Job Files", "Private Logs"}

\* A job runs its own function on its own arguments, or on none: no file of the code is older than the one
\* the scheduler saw for this job, though another job's upload may have brought a newer one since.
RunsItsOwn ==
    \A j \in ArtifactJobs : work[j].ran # Null =>
        LET ran == work[j].ran
            f == work[j].function
        IN /\ ran.arguments \in {Null, OfJob("arguments", j)}
           /\ \A m \in DOMAIN ran.code : ran.code[m] # Null =>
                 /\ ran.code[m].of \in {row[j].program, "main.tmpl"}
                 /\ (f.artifact > 0 /\ Contains(Members[f.artifact], m)) => ran.code[m].version >= f.artifact

\* A container finds its wrapper and its entrypoint, and the arguments if the function was still where the
\* arguments had been saved when it was submitted.  One kind of function never starts on Fleets: a provider
\* function with an artifact, whose wrapper goes to the users' bucket and is looked for in the provider's.
StartsWhole ==
    \A j \in ArtifactJobs : work[j].ran # Null =>
        LET f == work[j].function IN
        /\ work[j].ran.code[ENTRYPOINT] = Null => (f.artifact = 0 /\ ~f.image) \/ (f.provider # Null /\ f.artifact > 0)
        /\ get_arguments_storage(j, f) = work[j].saved => work[j].ran.arguments = OfJob("arguments", j)

\* What the container wrote is found by the gateway while the function is in the project it ran in.
FoundWhileInPlace ==
    \A j \in ArtifactJobs : work[j].function # Null /\ ProgramOf(j).project = work[j].function.project =>
        /\ "result" \in work[j].wrote => served_result(j) = OfJob("result", j)
        /\ "public" \in work[j].wrote => served_logs(j) = OfJob("public", j)
        /\ "private" \in work[j].wrote => served_provider_logs(j) = OfJob("private", j)

\* The objects of a job are its own, apart, whole and found again.
ArtifactsAreKept == ServedIsOwn /\ LogsStayApart /\ RunsItsOwn /\ StartsWhole /\ FoundWhileInPlace
=============================================================================
