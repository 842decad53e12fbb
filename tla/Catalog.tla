------------------------------- MODULE Catalog -------------------------------
(***************************************************************************)
(* The catalog of functions: api/use_cases/programs/upload.py with the     *)
(* queries and the other endpoints under programs/ except run.  An upload  *)
(* reads the function, and the Code Engine project to give it, outside of  *)
(* any transaction, and then writes the whole row back, and the sizes, in  *)
(* one transaction.  The first write of that transaction locks the row     *)
(* (or, for a new function, its entry in the unique index), so it is one   *)
(* step; what the upload read may be out of date by then.                  *)
(***************************************************************************)
EXTENDS Access, SequencesExt

CONSTANTS Profiles,         \* the ComputeProfiles of the deployment
          DefaultSize,      \* settings.DEFAULT_FUNCTION_SIZE
          DefaultProfile,   \* settings.DEFAULT_FUNCTION_SIZE_PROFILE
          DefaultProject,   \* the project of settings.CE_DEFAULT_PROJECT_NAME
          ProjectOf,        \* the Code Engine project of each provider, None for none
          Forms,            \* the contents of an upload: title, provider, runner, sizes, default_size
          Uploaders,        \* upload requests in flight at most
          MaxUploads,       \* bound on the uploads that start
          MaxEdits,         \* bound on the changes by the back office
          MaxSizes          \* bound on the FunctionSize rows ever made

SizeIds == 1..MaxSizes

VARIABLES
    sizes,      \* FunctionSize rows: function, name and profile
    made,       \* FunctionSize rows made so far
    used,       \* primary keys of functions that were ever given out
    active,     \* Code Engine projects with active set
    up,         \* uploads in flight: the function, the row in memory and the form
    uploads,    \* how many uploads have started
    created     \* functions that an upload created

catalogVars == <<sizes, made, used, active, up, uploads, created>>

SizesOf(f) == {i \in SizeIds : sizes[i] # None /\ sizes[i].function = f}

-----------------------------------------------------------------------------
(* Reading the catalog.                                                    *)

\* Mutant: the lookup forgets whose size it is.
AnyFunctionsSize(f, name) == {i \in SizeIds : name # None /\ sizes[i] # None /\ sizes[i].name = name}

\* FunctionSizeQuerySet.get_function_size
get_function_size(f, name) == {i \in SizesOf(f) : sizes[i].name = name}

\* ListFunctionsUseCase
list_functions(u, af, filter, p) ==
    {f \in IF filter = "serverless" THEN user_functions(u)
           ELSE IF filter = "catalog" THEN provider_functions(None) \cap with_permission(u, af, RUN_PROGRAM, READ)
           ELSE with_permission(u, af, VIEW_PROGRAM, READ)
        : p # None => functions[f].provider = p}

\* GetFunctionByTitleUseCase; the empty set is a 404.
get_by_title(u, af, t, p) ==
    IF p # None THEN get_function_by_permission(u, t, p, af, READ, VIEW_PROGRAM) ELSE get_user_function(u, t)

\* What run and validate_arguments resolve a title to; a user without the right to custom functions is told so.
resolve_to_run(u, af, t, p) ==
    IF p # None THEN get_function_by_permission(u, t, p, af, RUN, RUN_PROGRAM)
    ELSE IF can_create_job(u, af) THEN get_user_function(u, t) ELSE {}

-----------------------------------------------------------------------------
(* CodeEngineProjectQuerySet *)

select_default == IF DefaultProject \in active THEN DefaultProject ELSE None

assign_to_program(row) ==
    IF row.runner # "fleets" \/ row.project # None THEN row
    ELSE [row EXCEPT !.project = IF row.provider = None THEN select_default
                                 ELSE IF ProjectOf[row.provider] \in active THEN ProjectOf[row.provider] ELSE None]

-----------------------------------------------------------------------------
(* The writes of the transaction, as changes of the state               *)
(* d = [row, sizes, made] of a transaction on function f.                  *)

NamesIn(f) == {sizes[i].name : i \in SizesOf(f)}

\* _persist_function_sizes: the declared sizes replace the stored ones; a name that stays keeps its row.
_persist_function_sizes(f, d, table) ==
    LET new == SetToSeq(DOMAIN table \ NamesIn(f))
        Fresh(i) == i - d.made
        After(i) == IF i \in SizesOf(f)
                    THEN IF sizes[i].name \in DOMAIN table THEN [sizes[i] EXCEPT !.profile = table[sizes[i].name]] ELSE None
                    ELSE IF Fresh(i) \in DOMAIN new
                    THEN [function |-> f, name |-> new[Fresh(i)], profile |-> table[new[Fresh(i)]]]
                    ELSE sizes[i]
    IN [row |-> IF d.row.default # None /\ sizes[d.row.default].name \notin DOMAIN table
                THEN [d.row EXCEPT !.default = None] ELSE d.row,
        sizes |-> [i \in SizeIds |-> After(i)],
        made |-> d.made + Len(new)]

RowNamed(d, f, name) == CHOOSE i \in SizeIds : d.sizes[i] # None /\ d.sizes[i].function = f /\ d.sizes[i].name = name

\* _validate_declared_default: a single size needs no default; several may have none.
_validate_declared_default(table, default) ==
    IF default # None THEN default ELSE IF Cardinality(DOMAIN table) = 1 THEN CHOOSE n \in DOMAIN table : TRUE ELSE None

\* Sizes and default in the form.
DeclareSizes(f, d, form) ==
    LET d2 == _persist_function_sizes(f, d, form.sizes)
        name == _validate_declared_default(form.sizes, form.default)
    IN IF name = None THEN d2 ELSE [d2 EXCEPT !.row.default = RowNamed(d2, f, name)]

\* _seed_default_size
_seed_default_size(f, d) ==
    [d EXCEPT !.sizes[d.made + 1] = [function |-> f, name |-> DefaultSize, profile |-> DefaultProfile],
              !.made = d.made + 1,
              !.row.default = d.made + 1]

\* _validate_declared_sizes
_validate_declared_sizes(table) == \A n \in DOMAIN table : table[n] \in Profiles

Refused == [row |-> None]

\* Mutant: nobody makes a size for a function that declares none.
CreateUnseeded(f, d, form) ==
    IF form.sizes # None
    THEN IF ~_validate_declared_sizes(form.sizes) THEN Refused
         ELSE IF d.row.runner = "fleets" THEN DeclareSizes(f, d, form) ELSE d
    ELSE d

\* _create after its checks; Refused stands for an exception, which rolls the transaction back.
_create(f, d, form) ==
    IF form.sizes # None
    THEN IF ~_validate_declared_sizes(form.sizes) THEN Refused
         ELSE IF d.row.runner = "fleets" THEN DeclareSizes(f, d, form) ELSE d
    ELSE IF d.row.runner = "fleets" THEN _seed_default_size(f, d) ELSE d

\* _update: the default in memory is read again (and may be gone) where sizes are replaced.
_update(f, d, form) ==
    IF form.sizes # None
    THEN IF ~_validate_declared_sizes(form.sizes) THEN Refused
         ELSE IF d.row.runner # "fleets" THEN d
         ELSE IF d.row.default # None /\ sizes[d.row.default] = None THEN Refused
         ELSE DeclareSizes(f, d, form)
    ELSE IF form.default # None
    THEN IF get_function_size(f, form.default) = {} THEN Refused
         ELSE [d EXCEPT !.row.default = CHOOSE i \in get_function_size(f, form.default) : TRUE]
    ELSE IF d.row.runner = "fleets" /\ SizesOf(f) = {} THEN _seed_default_size(f, d)
    ELSE d

\* The constraints of the table: unique titles, and a default that is the key of a size.
Committable(f, d) ==
    /\ d.row # None
    /\ d.row.default # None => d.sizes[d.row.default] # None
    /\ \A g \in Stored \ {f} : LET o == functions[g] IN
          o.title = d.row.title => IF d.row.provider # None THEN o.provider # d.row.provider
                                   ELSE o.provider # None \/ o.author # d.row.author

-----------------------------------------------------------------------------
(* Uploads *)

NoUpload == [function |-> None]
NewFunctionId == CHOOSE f \in FunctionIds : f \notin used
NewRow(u, form) ==
    [author |-> u, provider |-> form.provider, title |-> form.title, disabled |-> FALSE, project |-> None, default |-> None,
     runner |-> IF form.runner = None THEN "fleets" ELSE form.runner]

\* UploadFunctionUseCase.execute: a custom upload looks for the title among all functions of the
\* author, a provider's among those of the provider.
Existing(u, form) ==
    IF form.provider # None THEN get_function(Stored, form.title, form.provider)
    ELSE {f \in Stored : functions[f].title = form.title /\ functions[f].author = u}

MayUpload(u, form, af) ==
    IF form.provider # None THEN can_upload_function(u, form.provider, form.title, af) ELSE can_create_function(u, af)

\* The upload reads the function, or finds that it has to be created, and chooses the project.
UploadRead(r, u, form, af) ==
    /\ up[r] = NoUpload /\ \A q \in Uploaders : q < r => up[q] # NoUpload   \* slots are alike: take the first
    /\ uploads < MaxUploads /\ uploads' = uploads + 1
    /\ MayUpload(u, form, af)
    /\ IF Existing(u, form) # {}
       THEN \E f \in Existing(u, form) :
              LET row == IF form.runner = None THEN functions[f]
                         ELSE assign_to_program([functions[f] EXCEPT !.runner = form.runner])
              IN /\ form.runner = "fleets" => row.project # None
                 /\ up' = [up EXCEPT ![r] = [function |-> f, row |-> row, form |-> form, new |-> FALSE]]
                 /\ UNCHANGED used
       ELSE LET row == assign_to_program(NewRow(u, form))
            IN /\ (form.sizes = None) <=> (form.default = None)
               /\ row.runner = "fleets" => row.project # None
               /\ used # FunctionIds /\ LET f == NewFunctionId IN
                    /\ up' = [up EXCEPT ![r] = [function |-> f, row |-> row, form |-> form, new |-> TRUE]]
                    /\ used' = used \cup {f}
    /\ UNCHANGED <<accessVars, sizes, made, active, created>>

\* The transaction: commit or rollback.  save() inserts the row again if it has been deleted.
UploadCommit(r) ==
    LET q == up[r]
        f == q.function
        before == [row |-> q.row, sizes |-> sizes, made |-> made]
        d == IF q.new THEN _create(f, before, q.form) ELSE _update(f, before, q.form)
    IN /\ q # NoUpload /\ made + 2 =< MaxSizes
       /\ up' = [up EXCEPT ![r] = NoUpload]
       /\ IF Committable(f, d)
          THEN /\ functions' = [functions EXCEPT ![f] = d.row]
               /\ sizes' = d.sizes /\ made' = d.made
               /\ created' = IF q.new THEN created \cup {f} ELSE created
          ELSE UNCHANGED <<functions, sizes, made, created>>
       /\ UNCHANGED <<shares, admins, enabled, platform, cached, given, changes, used, active, uploads>>

\* The back office: disabling a function, deleting it with its sizes, (de)activating a project.
SetDisabled(f, b) ==
    /\ functions[f] # None /\ functions[f].disabled # b
    /\ changes < MaxEdits /\ changes' = changes + 1
    /\ functions' = [functions EXCEPT ![f].disabled = b]
    /\ UNCHANGED <<shares, admins, enabled, platform, cached, given, catalogVars>>

RemoveFunction(f) ==
    /\ functions[f] # None
    /\ changes < MaxEdits /\ changes' = changes + 1
    /\ functions' = [functions EXCEPT ![f] = None]
    /\ sizes' = [i \in SizeIds |-> IF i \in SizesOf(f) THEN None ELSE sizes[i]]
    /\ UNCHANGED <<shares, admins, enabled, platform, cached, given, made, used, active, up, uploads, created>>

SwitchProject(x) ==
    /\ changes < MaxEdits /\ changes' = changes + 1
    /\ active' = IF x \in active THEN active \ {x} ELSE active \cup {x}
    /\ UNCHANGED <<functions, shares, admins, enabled, platform, cached, given, sizes, made, used, up, uploads, created>>

CatalogInit(rows, uploaded, before) ==
    /\ sizes = [i \in SizeIds |-> IF i \in DOMAIN rows THEN rows[i] ELSE None]
    /\ made = Len(rows)
    /\ used = Stored
    /\ active = {DefaultProject} \cup {ProjectOf[p] : p \in Providers}
    /\ up = [r \in Uploaders |-> NoUpload]
    /\ uploads = before
    /\ created = uploaded

Uploading ==
    \/ \E r \in Uploaders, u \in Users, form \in Forms, af \in Results : UploadRead(r, u, form, af)
    \/ \E r \in Uploaders : UploadCommit(r)

CatalogNext ==
    \/ Uploading
    \/ \E f \in FunctionIds : RemoveFunction(f) \/ \E b \in BOOLEAN : SetDisabled(f, b)
    \/ \E x \in {DefaultProject} \cup {ProjectOf[p] : p \in Providers} : SwitchProject(x)

-----------------------------------------------------------------------------
(* Properties *)

\* The default size of a function is one of its own sizes, also when two uploads of the function
\* overlap, one of them with a row in memory whose default the other has replaced or removed.
DefaultIsOwnSize ==
    \A f \in Stored : functions[f].default # None => functions[f].default \in SizesOf(f)

\* A Fleets function that came from an upload, whatever was uploaded over it since, has a project and
\* at least one size, so that a run which names a size is possible.
CreatedFleetsCanRun ==
    \A f \in created \cap Stored : functions[f].runner = "fleets" =>
        /\ functions[f].project # None
        /\ SizesOf(f) # {}

\* What is listed can be fetched and what can be fetched is listed: for the functions of a provider
\* and for the user's own; under legacy authorization the catalog is what the user may run.
ListAndGetAgree ==
    \A u \in Users, af \in Results :
        /\ \A p \in Providers : list_functions(u, af, None, p) = UNION {get_by_title(u, af, t, p) : t \in Titles}
        /\ list_functions(u, af, "serverless", None) = UNION {get_by_title(u, af, t, None) : t \in Titles}
        /\ af.legacy => list_functions(u, af, "catalog", None) =
                        UNION {resolve_to_run(u, af, t, p) : t \in Titles, p \in Providers}

\* Overlapping uploads and the back office leave a catalog in which functions have what a run needs,
\* and which lists what it serves.
CatalogIsKept == DefaultIsOwnSize /\ CreatedFleetsCanRun /\ ListAndGetAgree
=============================================================================
