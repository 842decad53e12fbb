------------------------------- MODULE Access --------------------------------
(***************************************************************************)
(* Who may do what, as the gateway decides it for every request.  A user's *)
(* rights come from one of two places: the Runtime API, whose entitlements *)
(* are asked for once and kept in a cache (FunctionAccessClient), or, when *)
(* that API is switched off or has nothing configured for the account, the *)
(* Django groups of the gateway's own database (legacy authorization).     *)
(* The policies (api/access_policies) and the queries that filter by       *)
(* permission (core/model_managers/functions.py) are operators over that   *)
(* state, with the FunctionAccessResult of the request as parameter af;    *)
(* the modules of the endpoints use them.                                  *)
(***************************************************************************)
EXTENDS Integers, Sequences, FiniteSets

CONSTANTS Users, Providers, Titles,
          FunctionIds,    \* primary keys of the Function rows
          None,           \* NULL
          Entitlements,   \* the entitlements the Runtime API may answer with
          MaxChanges,     \* bound on the changes of the rights
          GroupGrants     \* the rows of the Django groups: <<function, user, permission>>

READ == "function.read"
RUN == "function.run"
WRITE == "function.write"
JOBS_READ == "function-job.read"
PROVIDER_LOGS == "function-provider-logs.read"
USER_FILES_READ == "function-files.read"
USER_FILES_WRITE == "function-files.write"
PROVIDER_FILES_READ == "function-provider-files.read"
PROVIDER_FILES_WRITE == "function-provider-files.write"
CUSTOM_WRITE == "function-custom.write"
CUSTOM_RUN == "function-custom.run"
VIEW_PROGRAM == "view_program"
RUN_PROGRAM == "run_program"

\* FunctionAccessResult: entitlements as <<provider, title, permission>>, and the custom ones.
LegacyResult == [legacy |-> TRUE, grants |-> {}, custom |-> {}]
Results == Entitlements \cup {LegacyResult}

\* What a call to the entitlements endpoint meets: entitlements for the instance (200), an account
\* without any configuration (204), another status or no element for the instance (taken as 401),
\* or a connection error, 429 or 5xx (taken as 503).
Answer(code, entitlements) == [code |-> code, result |-> entitlements]
PlatformAnswers == {Answer(200, e) : e \in Entitlements} \cup {Answer(c, None) : c \in {204, 401, 503}}

VARIABLES
    functions,   \* Function rows, None when there is none with the id
    shares,      \* group rows in force
    admins,      \* <<provider, user>>: the users in the provider's admin groups
    enabled,     \* Config RUNTIME_INSTANCES_API_ENABLED
    platform,    \* what the Runtime API would answer for each user
    cached,      \* the cache entry of each user's key
    given,       \* the results the Runtime API has given for each user
    changes      \* changes of the rights so far

accessVars == <<functions, shares, admins, enabled, platform, cached, given, changes>>

Stored == {f \in FunctionIds : functions[f] # None}

-----------------------------------------------------------------------------
(* FunctionAccessResult *)

has_permission_for_function(af, p, t, permission) == <<p, t, permission>> \in af.grants

get_functions_by_provider(af, p, permission) == {t \in Titles : <<p, t, permission>> \in af.grants}

has_custom_permission(af, permission) == permission \in af.custom

-----------------------------------------------------------------------------
(* FunctionAccessClient.get_accessible_functions: the result of the        *)
(* request (none when it raises), the HTTP status it answers with, and the *)
(* cache entry it leaves.                                                  *)

\* Mutant: the failure of the Runtime API is taken, and kept, as an empty set of entitlements.
OutageIsKept(u) ==
    IF ~enabled THEN [result |-> LegacyResult, code |-> 200, keep |-> cached[u]]
    ELSE IF cached[u] # None THEN [result |-> cached[u], code |-> 200, keep |-> cached[u]]
    ELSE LET r == IF platform[u].code = 200 THEN platform[u].result
                  ELSE IF platform[u].code = 204 THEN LegacyResult
                  ELSE [legacy |-> FALSE, grants |-> {}, custom |-> {}]
         IN [result |-> r, code |-> 200, keep |-> r]

get_accessible_functions(u) ==
    IF ~enabled THEN [result |-> LegacyResult, code |-> 200, keep |-> cached[u]]
    ELSE IF cached[u] # None THEN [result |-> cached[u], code |-> 200, keep |-> cached[u]]
    ELSE IF platform[u].code \in {401, 503} THEN [result |-> None, code |-> platform[u].code, keep |-> None]
    ELSE LET r == IF platform[u].code = 204 THEN LegacyResult ELSE platform[u].result
         IN [result |-> r, code |-> 200, keep |-> r]

-----------------------------------------------------------------------------
(* FunctionsQuerySet: the queries return sets of rows.                     *)

user_functions(u) == {f \in Stored : functions[f].author = u /\ functions[f].provider = None}

provider_functions(p) ==
    {f \in Stored : IF p = None THEN functions[f].provider # None ELSE functions[f].provider = p}

\* Mutant: entitlements only open the functions the user did not write.
AuthorsKeepTheirProviderFunctions(u, af, legacyPermission, permission) ==
    IF ~af.legacy
    THEN {f \in Stored : \/ functions[f].author = u
                         \/ has_permission_for_function(af, functions[f].provider, functions[f].title, permission)}
    ELSE {f \in Stored : functions[f].author = u \/ <<f, u, legacyPermission>> \in shares}

with_permission(u, af, legacyPermission, permission) ==
    IF ~af.legacy
    THEN user_functions(u) \cup
         {f \in Stored : has_permission_for_function(af, functions[f].provider, functions[f].title, permission)}
    ELSE {f \in Stored : functions[f].author = u \/ <<f, u, legacyPermission>> \in shares}

get_user_function(u, t) == {f \in user_functions(u) : functions[f].title = t}

get_function(rows, t, p) ==
    {f \in rows : functions[f].title = t /\ (p # None => functions[f].provider = p)}

get_function_by_permission(u, t, p, af, permission, legacyPermission) ==
    IF p = None THEN get_function(user_functions(u), t, None)
    ELSE IF ~af.legacy
    THEN IF has_permission_for_function(af, p, t, permission) THEN get_function(Stored, t, p) ELSE {}
    ELSE get_function(with_permission(u, LegacyResult, legacyPermission, permission), t, p)

-----------------------------------------------------------------------------
(* ProviderAccessPolicy *)

is_provider_admin(u, p) == <<p, u>> \in admins

authored(u, p, t) == \E f \in Stored : functions[f].author = u /\ functions[f].provider = p /\ functions[f].title = t

_check(u, p, t, af, permission) ==
    \/ af.legacy /\ is_provider_admin(u, p)
    \/ ~af.legacy /\ has_permission_for_function(af, p, t, permission)
    \/ authored(u, p, t)

can_retrieve_job(u, p, t, af) == _check(u, p, t, af, JOBS_READ)
can_read_logs(u, p, t, af) == _check(u, p, t, af, PROVIDER_LOGS)
can_list_jobs(u, p, t, af) == _check(u, p, t, af, JOBS_READ)
can_read_files(u, p, t, af) == _check(u, p, t, af, PROVIDER_FILES_READ)
can_write_files(u, p, t, af) == _check(u, p, t, af, PROVIDER_FILES_WRITE)
can_upload_function(u, p, t, af) == _check(u, p, t, af, WRITE)

\* ProgramAccessPolicies.can_create
can_create_function(u, af) == af.legacy \/ has_custom_permission(af, CUSTOM_WRITE)

\* JobAccessPolicies.can_create
can_create_job(u, af) == af.legacy \/ has_custom_permission(af, CUSTOM_RUN)

-----------------------------------------------------------------------------
(* How the rights change: the Runtime API, the back office and the cache.  *)

AccessInit(table, grants, admin) ==
    /\ functions = table
    /\ shares = grants
    /\ admins = admin
    /\ enabled = TRUE
    /\ platform = [u \in Users |-> Answer(204, None)]
    /\ cached = [u \in Users |-> None]
    /\ given = [u \in Users |-> {}]
    /\ changes = 0

\* A request of the user passes authentication: the one place that reads and fills the cache.
Authorize(u) ==
    LET answer == get_accessible_functions(u) IN
    /\ cached' = [cached EXCEPT ![u] = answer.keep]
    /\ given' = IF enabled /\ cached[u] = None /\ platform[u].code \in {200, 204}
                THEN [given EXCEPT ![u] = @ \cup {IF platform[u].code = 204 THEN LegacyResult ELSE platform[u].result}]
                ELSE given
    /\ UNCHANGED <<functions, shares, admins, enabled, platform, changes>>

\* Mutant: the entry is stored without a timeout.
NeverExpires(u) == FALSE /\ UNCHANGED accessVars

\* The entry of a user reaches its TTL.
CacheExpires(u) ==
    /\ cached[u] # None
    /\ cached' = [cached EXCEPT ![u] = None]
    /\ UNCHANGED <<functions, shares, admins, enabled, platform, given, changes>>

\* The platform changes what it grants, or goes down, or comes back.
PlatformChanges(u, a) ==
    /\ changes < MaxChanges /\ changes' = changes + 1
    /\ platform' = [platform EXCEPT ![u] = a]
    /\ UNCHANGED <<functions, shares, admins, enabled, cached, given>>

\* The back office edits the groups, the provider's admins or the switch of the Runtime API.
GroupsChange(g) ==
    /\ changes < MaxChanges /\ changes' = changes + 1
    /\ shares' = IF g \in shares THEN shares \ {g} ELSE shares \cup {g}
    /\ UNCHANGED <<functions, admins, enabled, platform, cached, given>>

AdminsChange(p, u) ==
    /\ changes < MaxChanges /\ changes' = changes + 1
    /\ admins' = IF <<p, u>> \in admins THEN admins \ {<<p, u>>} ELSE admins \cup {<<p, u>>}
    /\ UNCHANGED <<functions, shares, enabled, platform, cached, given>>

SwitchRuntimeApi ==
    /\ changes < MaxChanges /\ changes' = changes + 1
    /\ enabled' = ~enabled
    /\ UNCHANGED <<functions, shares, admins, platform, cached, given>>

AccessNext ==
    \/ \E u \in Users : Authorize(u) \/ CacheExpires(u) \/ \E a \in PlatformAnswers : PlatformChanges(u, a)
    \/ \E g \in GroupGrants : GroupsChange(g)
    \/ \E p \in Providers, u \in Users : AdminsChange(p, u)
    \/ SwitchRuntimeApi

-----------------------------------------------------------------------------
(* Properties *)

\* Types of the rights and of the cache.
AccessTypeOK ==
    /\ \A f \in Stored : functions[f].author \in Users /\ functions[f].provider \in Providers \cup {None}
    /\ shares \subseteq GroupGrants /\ admins \subseteq Providers \X Users
    /\ platform \in [Users -> PlatformAnswers] /\ cached \in [Users -> Results \cup {None}]

\* While the Runtime API does not answer, a user is served with something it did answer before, or
\* told to retry: an outage is never taken for an absence of rights (RuntimeFunctionsUnavailable).
OutageIsNotADenial ==
    \A u \in Users : enabled /\ platform[u].code = 503 =>
        LET answer == get_accessible_functions(u) IN
        IF answer.result = None THEN answer.code = 503 ELSE answer.result \in given[u]

\* The rights are of their types, and an outage is not a denial.
RightsAreKept == AccessTypeOK /\ OutageIsNotADenial

\* Once the platform settles on what a user may do, the gateway comes to follow it: an answer that
\* was cached before is forgotten, and a refusal leaves nothing in the cache.
SettledRightsAreFollowed ==
    \A u \in Users, a \in {b \in PlatformAnswers : b.code \in {200, 401}} :
        <>[](platform[u] = a) => <>[](cached[u] \in {None, a.result})
=============================================================================
