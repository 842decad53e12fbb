---------------------------- MODULE FunctionFiles ----------------------------
(***************************************************************************)
(* The files of a function: the eight endpoints under api/v1/views/files,  *)
(* their use cases and the two storages, a disk for Ray and the buckets of *)
(* the function's Code Engine project for Fleets.  A name is a sequence of *)
(* characters, because the endpoints agree on a file only if the names     *)
(* they make of a raw name agree; a path is a sequence of such names.      *)
(* Every endpoint handles one object with one call to the storage.         *)
(***************************************************************************)
EXTENDS Access, SequencesExt

CONSTANTS RawNames,       \* names of the files that clients upload and ask for
          RawSubPaths,    \* sub_path parameters, as sequences of characters
          Characters,     \* the alphabet of the names and paths that are tried out
          MaxNameLength,  \* bound on their length
          MaxFileUploads  \* bound on the uploads

Allowed == {"a", "_", "."}   \* stands for 0-9a-zA-Z-_.

VARIABLES
    files,      \* what the disk and the buckets hold, with the upload that put it there
    fileUploads,\* uploads so far
    typed       \* an arbitrary name or path

fileVars == <<files, fileUploads, typed>>

-----------------------------------------------------------------------------
(* Names *)

\* str.replace("..", "_"): from the left, each pair once.
CollapseDots(s) ==
    LET Read(acc, c) == IF c # "." THEN [out |-> Append(IF acc.dot THEN Append(acc.out, ".") ELSE acc.out, c), dot |-> FALSE]
                        ELSE IF acc.dot THEN [out |-> Append(acc.out, "_"), dot |-> FALSE]
                        ELSE [out |-> acc.out, dot |-> TRUE]
        end == FoldLeft(Read, [out |-> <<>>, dot |-> FALSE], s)
    IN IF end.dot THEN Append(end.out, ".") ELSE end.out

\* re.sub("[^...]+", "_"): a run of other characters becomes one underscore.
ReplaceRuns(s, allowed) ==
    LET Read(acc, c) == IF c \in allowed THEN [out |-> Append(acc.out, c), run |-> FALSE]
                        ELSE [out |-> IF acc.run THEN acc.out ELSE Append(acc.out, "_"), run |-> TRUE]
    IN FoldLeft(Read, [out |-> <<>>, run |-> FALSE], s).out

SplitPath(s) ==
    LET Read(acc, c) == IF c = "/" THEN Append(acc, <<>>) ELSE [acc EXCEPT ![Len(acc)] = Append(@, c)]
    IN FoldLeft(Read, <<<<>>>>, s)

basename(s) == Last(SplitPath(s))

sanitize_file_path(s) == ReplaceRuns(CollapseDots(s), Allowed \cup {"/"})

\* Mutant: every character is replaced on its own.
EachCharacter(s) == [i \in DOMAIN CollapseDots(s) |-> IF CollapseDots(s)[i] \in Allowed THEN CollapseDots(s)[i] ELSE "_"]

sanitize_file_name(s) == ReplaceRuns(CollapseDots(s), Allowed)

\* Mutant: the separators are taken as they come.
KeepEmptyParts(s) == SplitPath(ReplaceRuns(CollapseDots(s), Allowed \cup {"/"}))

\* The result is the list of directories, empty for the folder itself.
sanitize_sub_path(s) == SelectSeq(SplitPath(ReplaceRuns(CollapseDots(s), Allowed \cup {"/"})), LAMBDA part : part # <<>>)

-----------------------------------------------------------------------------
(* Where the files of function f are.  A part of a path is a name too.     *)

Part(x) == <<x>>
Disk == [kind |-> "disk", project |-> None]
Bucket(kind, f) == [kind |-> kind, project |-> functions[f].project]

\* PathBuilder.__get_user_sub_path: without a provider the folder is the user's, whatever the function.
get_user_sub_path(u, f) ==
    IF functions[f].provider = None THEN <<Part(u)>>
    ELSE <<Part(u), Part(functions[f].provider), Part(functions[f].title)>>

\* PathBuilder.__get_provider_sub_path
get_provider_sub_path(f) == <<Part(functions[f].provider), Part(functions[f].title)>>

_build_custom_function_paths(u, f) ==
    <<Part("users"), Part(u), Part("custom_functions"), Part(functions[f].title), Part("data")>>

\* Mutant: the folder of a provider's function is the same for all its users.
OneFolderForAll(u, f) == <<Part("users"), Part("provider_functions"), Part(functions[f].provider), Part(functions[f].title)>>

_build_provider_function_paths(u, f) ==
    <<Part("users"), Part(u), Part("provider_functions"), Part(functions[f].provider), Part(functions[f].title), Part("data")>>

ProviderFilesPrefix(f) == <<Part("providers"), Part(functions[f].provider), Part(functions[f].title), Part("data")>>

\* FileStorageRay and FileStorageFleets
FileStorageRay(u, f) ==
    [public |-> [store |-> Disk, folder |-> get_user_sub_path(u, f)],
     private |-> IF functions[f].provider = None THEN None ELSE [store |-> Disk, folder |-> get_provider_sub_path(f)]]

FileStorageFleets(u, f) ==
    [public |-> [store |-> Bucket("user", f),
                 folder |-> IF functions[f].provider = None THEN _build_custom_function_paths(u, f)
                            ELSE _build_provider_function_paths(u, f)],
     private |-> IF functions[f].provider = None THEN None
                 ELSE [store |-> Bucket("provider", f), folder |-> ProviderFilesPrefix(f)]]

get_file_storage(u, f) == IF functions[f].runner = "ray" THEN FileStorageRay(u, f) ELSE FileStorageFleets(u, f)

\* The storage of a Fleets function cannot be made without a project (a ValueError, so a 500).
HasStorage(f) == functions[f].runner = "ray" \/ functions[f].project # None

Object(place, dir, name) == [store |-> place.store, dir |-> place.folder \o dir, name |-> name]
At(key) == {x \in files : x.key = key}

-----------------------------------------------------------------------------
(* The reads of the storages.                                              *)

\* _get_files_in_path: glob leaves hidden files out.
_get_files_in_path(place, dir) ==
    {x \in files : /\ x.key.store = place.store /\ x.key.dir = place.folder \o dir
                   /\ Head(x.key.name) # "."}

\* FileStorageFleets.get_public_files
get_public_files(place, dir) == {x \in files : x.key.store = place.store /\ x.key.dir = place.folder \o dir}

\* FileStorageFleets.get_private_files: every key with the prefix.
get_private_files(place) == {x \in files : x.key.store = place.store /\ IsPrefix(place.folder, x.key.dir)}

\* FileStorageRay._get_file_stream_in_folder
_get_file_stream_in_folder(place, name) == At(Object(place, <<>>, sanitize_file_path(basename(name))))

\* FileStorageFleets.get_public_file_stream and get_private_file_stream
get_public_file_stream(place, name) == At(Object(place, <<>>, name))
get_private_file_stream(place, name) == At(Object(place, <<>>, name))

-----------------------------------------------------------------------------
(* The reading endpoints: the code, and what is served.  The set of        *)
(* functions is empty when the user has no access, which is a 404.         *)

Answers(fs, Serve(_)) ==
    IF fs = {} THEN [code |-> 404, files |-> {}]
    ELSE LET f == CHOOSE g \in fs : TRUE IN
         IF HasStorage(f) THEN Serve(f) ELSE [code |-> 500, files |-> {}]
Found(xs) == [code |-> IF xs = {} THEN 404 ELSE 200, files |-> xs]

\* The function a provider endpoint acts on, after its policy.
ProviderFunction(may, t, p) == IF may THEN get_function(Stored, t, p) ELSE {}

FilesList(u, p, t, dir, af) ==
    LET Serve(f) == LET s == get_file_storage(u, f) IN
          [code |-> 200, files |-> IF functions[f].runner = "ray" THEN _get_files_in_path(s.public, dir)
                                   ELSE get_public_files(s.public, dir)]
    IN Answers(get_function_by_permission(u, t, p, af, USER_FILES_READ, RUN_PROGRAM), Serve)

FilesProviderList(u, p, t, af) ==
    LET Serve(f) == LET s == get_file_storage(u, f) IN
          [code |-> 200, files |-> IF functions[f].runner = "ray" THEN _get_files_in_path(s.private, <<>>)
                                   ELSE get_private_files(s.private)]
    IN Answers(ProviderFunction(can_read_files(u, p, t, af), t, p), Serve)

FilesDownload(u, p, t, name, af) ==
    LET Serve(f) == LET s == get_file_storage(u, f) IN
          Found(IF functions[f].runner = "ray" THEN _get_file_stream_in_folder(s.public, name)
                ELSE get_public_file_stream(s.public, name))
    IN Answers(get_function_by_permission(u, t, p, af, USER_FILES_READ, RUN_PROGRAM), Serve)

FilesProviderDownload(u, p, t, name, af) ==
    LET Serve(f) == LET s == get_file_storage(u, f) IN
          Found(IF functions[f].runner = "ray" THEN _get_file_stream_in_folder(s.private, name)
                ELSE get_private_file_stream(s.private, name))
    IN Answers(ProviderFunction(can_read_files(u, p, t, af), t, p), Serve)

\* The views, with what their serializers make of the parameters.
files_list(u, p, t, sub, af) == FilesList(u, p, t, sanitize_sub_path(sub), af)
files_provider_list(u, p, t, af) == FilesProviderList(u, p, t, af)
files_download(u, p, t, raw, af) == FilesDownload(u, p, t, sanitize_file_name(raw), af)
files_provider_download(u, p, t, raw, af) == FilesProviderDownload(u, p, t, sanitize_file_name(raw), af)

-----------------------------------------------------------------------------
(* The writes.  A storage that fails changes nothing: the upload is an     *)
(* error and the delete a 404.                                             *)

\* On the disk a path is a file or a directory.
Writable(key) ==
    key.store = Disk =>
        /\ \A x \in files : x.key.store = Disk => ~IsPrefix(Append(x.key.dir, x.key.name), key.dir)
        /\ \A x \in files : x.key.store = Disk => ~IsPrefix(Append(key.dir, key.name), x.key.dir)

Put(key, u, f, raw, dir, private) ==
    /\ fileUploads < MaxFileUploads /\ fileUploads' = fileUploads + 1
    /\ Writable(key)
    /\ files' = (files \ At(key)) \cup
                {[key |-> key, user |-> u, function |-> f, raw |-> raw, sub |-> dir, private |-> private]}
    /\ UNCHANGED <<typed, accessVars>>

\* The name an upload stores a file under: FileStorageRay._upload_file_to_folder and
\* FileStorageFleets.upload_public_file, and upload_private_file, which takes the name as it is.
_upload_file_to_folder(place, dir, raw) == Object(place, dir, basename(sanitize_file_path(raw)))
upload_public_file(place, dir, raw) == Object(place, dir, basename(sanitize_file_path(raw)))
upload_private_file(place, raw) == Object(place, <<>>, raw)

\* files_upload and FilesUploadUseCase
FilesUpload(u, p, t, raw, sub, af) ==
    \E f \in get_function_by_permission(u, t, p, af, USER_FILES_WRITE, RUN_PROGRAM) :
        LET place == get_file_storage(u, f).public
            dir == sanitize_sub_path(sub)
        IN /\ HasStorage(f)
           /\ Put(IF functions[f].runner = "ray" THEN _upload_file_to_folder(place, dir, raw)
                  ELSE upload_public_file(place, dir, raw), u, f, raw, dir, FALSE)

\* files_provider_upload and FilesProviderUploadUseCase
FilesProviderUpload(u, p, t, raw, af) ==
    \E f \in ProviderFunction(can_write_files(u, p, t, af), t, p) :
        LET place == get_file_storage(u, f).private IN
        /\ HasStorage(f)
        /\ Put(IF functions[f].runner = "ray" THEN _upload_file_to_folder(place, <<>>, raw)
               ELSE upload_private_file(place, raw), u, f, raw, <<>>, TRUE)

TakeAway(key) ==
    /\ At(key) # {}
    /\ files' = files \ At(key)
    /\ UNCHANGED <<fileUploads, typed, accessVars>>

\* FileStorageRay._remove_file_from_folder, FileStorageFleets.remove_public_file, remove_private_file
_remove_file_from_folder(place, dir, name) == Object(place, dir, sanitize_file_path(basename(name)))
remove_public_file(place, dir, name) == Object(place, dir, basename(sanitize_file_path(name)))
remove_private_file(place, name) == Object(place, <<>>, name)

\* Mutant: the sub_path is not passed on to the storage.
DeleteInTheFolder(u, f, raw, sub) ==
    LET place == get_file_storage(u, f).public
        name == sanitize_file_name(raw)
    IN IF functions[f].runner = "ray" THEN _remove_file_from_folder(place, <<>>, name)
       ELSE remove_public_file(place, <<>>, name)

\* files_delete, with its use case: the object it removes.
DeletedObject(u, f, raw, sub) ==
    LET place == get_file_storage(u, f).public
        name == sanitize_file_name(raw)
    IN IF functions[f].runner = "ray" THEN _remove_file_from_folder(place, sanitize_sub_path(sub), name)
       ELSE remove_public_file(place, sanitize_sub_path(sub), name)

FilesDelete(u, p, t, raw, sub, af) ==
    \E f \in get_function_by_permission(u, t, p, af, USER_FILES_WRITE, RUN_PROGRAM) :
        HasStorage(f) /\ TakeAway(DeletedObject(u, f, raw, sub))

\* files_provider_delete, with its use case.
FilesProviderDelete(u, p, t, raw, af) ==
    \E f \in ProviderFunction(can_write_files(u, p, t, af), t, p) :
        LET place == get_file_storage(u, f).private
            name == sanitize_file_name(raw)
        IN /\ HasStorage(f)
           /\ TakeAway(IF functions[f].runner = "ray" THEN _remove_file_from_folder(place, <<>>, name)
                     ELSE remove_private_file(place, name))

\* An upload of the function itself gives it another runner, or the back office another project.
FunctionMoves(f, runner, project) ==
    /\ functions[f] # None /\ functions[f].runner # runner
    /\ changes < MaxChanges /\ changes' = changes + 1
    /\ functions' = [functions EXCEPT ![f].runner = runner, ![f].project = project]
    /\ UNCHANGED <<shares, admins, enabled, platform, cached, given, fileVars>>

FileInit(inputs) ==
    /\ files = {}
    /\ fileUploads = 0
    /\ typed \in inputs

\* Requests with the rights af.
FileSteps(af) ==
    \/ \E u \in Users, p \in Providers \cup {None}, t \in Titles, raw \in RawNames, sub \in RawSubPaths :
          FilesUpload(u, p, t, raw, sub, af) \/ FilesDelete(u, p, t, raw, sub, af)
    \/ \E u \in Users, p \in Providers, t \in Titles, raw \in RawNames :
          FilesProviderUpload(u, p, t, raw, af) \/ FilesProviderDelete(u, p, t, raw, af)

-----------------------------------------------------------------------------
(* Properties *)

\* What the public endpoints list or serve a user is what this user uploaded through them, and what
\* the provider endpoints list or serve was uploaded through them for the function that is asked for.
FilesStayApart == files # {} =>
    \A u \in Users, t \in Titles, af \in Results :
        /\ \A p \in Providers \cup {None} :
             \A x \in UNION {files_list(u, p, t, sub, af).files : sub \in RawSubPaths} \cup
                      UNION {files_download(u, p, t, raw, af).files : raw \in RawNames} : x.user = u /\ ~x.private
        /\ \A p \in Providers :
             \A x \in files_provider_list(u, p, t, af).files \cup
                      UNION {files_provider_download(u, p, t, raw, af).files : raw \in RawNames} :
                 x.private /\ functions[x.function].provider = p /\ functions[x.function].title = t

Place(x) == IF x.private THEN get_file_storage(x.user, x.function).private ELSE get_file_storage(x.user, x.function).public
StillThere(x) == HasStorage(x.function) /\ x.key.store = Place(x).store /\ Place(x).folder \o x.sub = x.key.dir
NamesAreSanitized(x) == ~x.private \/ functions[x.function].runner = "ray"

\* A file is served, and deleted, under the very name it was uploaded with, whatever the name, as
\* long as its function stays where it was; not so for the private files of a Fleets function, which
\* are stored under the raw name.
FoundUnderItsName ==
    \A x \in files, af \in Results : StillThere(x) /\ NamesAreSanitized(x) =>
        LET p == functions[x.function].provider
            t == functions[x.function].title
        IN /\ ~x.private /\ x.sub = <<>> /\ get_function_by_permission(x.user, t, p, af, USER_FILES_READ, RUN_PROGRAM) # {}
                 => files_download(x.user, p, t, x.raw, af).files = {x}
           /\ x.private /\ can_read_files(x.user, p, t, af) => files_provider_download(x.user, p, t, x.raw, af).files = {x}
           /\ ~x.private => \E sub \in RawSubPaths : DeletedObject(x.user, x.function, x.raw, sub) = x.key

\* Whatever a client types: a download looks for the name the upload stored, a sub_path has no empty
\* and no upward part, and making either safe a second time changes nothing (both storages do).
SafeNamesAgree ==
    /\ basename(typed) = typed => sanitize_file_name(typed) = basename(sanitize_file_path(typed))
    /\ sanitize_file_path(sanitize_file_path(typed)) = sanitize_file_path(typed)
    /\ \A part \in Range(sanitize_sub_path(typed)) :
          /\ part # <<>> /\ part # <<".", ".">>
          /\ sanitize_sub_path(part) = <<part>>

\* The files endpoints agree with each other and keep the files of users and providers apart.
FilesAreKept == FilesStayApart /\ FoundUnderItsName /\ SafeNamesAgree
=============================================================================
