--------------------------- MODULE ArgumentsSchema ---------------------------
(***************************************************************************)
(* The arguments schema of a function: what the gateway refuses to store   *)
(* (api/domain/arguments_schema.py, called by the upload endpoint and by   *)
(* the admin form), and what it answers when arguments are validated       *)
(* against what is stored (use_cases/programs/validate_arguments.py).      *)
(*                                                                         *)
(* JSON documents are trees.  A reference is a string that is read as a    *)
(* URI: it points outside, at an anchor, or at a place in the document.    *)
(* jsonschema is external: Evaluate gives the set of its outcomes, a set   *)
(* because it stops at the first keyword that fails and the order of the   *)
(* keywords is the author's.                                               *)
(***************************************************************************)
EXTENDS Integers, Sequences, FiniteSets, FiniteSetsExt

CONSTANTS SchemaTexts, ArgumentTexts,   \* the texts that are uploaded, and the arguments that are sent
          MAX_DOCUMENT_DEPTH, MAX_SCHEMA_NODES,
          RecursionLimit,               \* of the interpreter, in evaluations
          MaxSaves                      \* bound on the uploads and saves of one behaviour

JObject(f) == [obj |-> f]
JList(s) == [list |-> s]
JString(s) == [str |-> s]
JBool(b) == [bool |-> b]
JNumber(n, float) == [num |-> n, float |-> float]
Reference(where, path) == [ref |-> where, path |-> path]
JNull == [null |-> TRUE]

IsObject(v) == "obj" \in DOMAIN v
IsList(v) == "list" \in DOMAIN v
IsBool(v) == "bool" \in DOMAIN v
IsNumber(v) == "num" \in DOMAIN v
IsReference(v) == "ref" \in DOMAIN v
Has(v, keyword) == IsObject(v) /\ keyword \in DOMAIN v.obj

\* The values a document holds directly, by key or by index.
Inside(v) == IF IsObject(v) THEN v.obj ELSE IF IsList(v) THEN v.list ELSE <<>>

VARIABLES
    schema,    \* Function.arguments_schema
    vouched,   \* whether it went through the check of an upload or of the admin form
    asked,     \* the text of the last request
    said,      \* what it was answered
    saves      \* uploads and saves so far

schemaVars == <<schema, vouched, asked, said, saves>>

-----------------------------------------------------------------------------
(* The walks over a document. *)

RECURSIVE Height(_)
Height(v) == IF DOMAIN Inside(v) = {} THEN 0 ELSE 1 + Max({Height(Inside(v)[k]) : k \in DOMAIN Inside(v)})

exceeds_max_depth(v) == Height(v) > MAX_DOCUMENT_DEPTH

RECURSIVE Subschemas(_)
Subschemas(v) ==
    (IF IsObject(v) \/ IsBool(v) THEN 1 ELSE 0)
    + MapThenSumSet(LAMBDA k : Subschemas(Inside(v)[k]), DOMAIN Inside(v))

exceeds_max_nodes(v) == Subschemas(v) > MAX_SCHEMA_NODES

_schema_shape_error(v) == ~(IsObject(v) \/ IsBool(v))

LITERAL_VALUE_KEYWORDS == {"const", "default", "enum", "examples"}
SCHEMA_MAP_KEYWORDS == {"properties", "patternProperties", "$defs", "definitions", "dependentSchemas", "dependencies"}
REF_KEYWORDS == {"$ref", "$dynamicRef", "$recursiveRef"}

\* Mutant: every value of an object is walked as a schema.
WalksLiterals(node) == {node.obj[k] : k \in DOMAIN node.obj}

\* Mutant: the names of a map are read as keywords.
ReadsNamesAsKeywords(node) == {node.obj[k] : k \in DOMAIN node.obj \ LITERAL_VALUE_KEYWORDS}

_schema_children(node) ==
    UNION {IF k \in SCHEMA_MAP_KEYWORDS /\ IsObject(node.obj[k])
           THEN {node.obj[k].obj[name] : name \in DOMAIN node.obj[k].obj}
           ELSE {node.obj[k]} : k \in DOMAIN node.obj \ LITERAL_VALUE_KEYWORDS}

\* What the recursive walks visit next.
Below(node) == IF IsObject(node) THEN _schema_children(node) ELSE {Inside(node)[i] : i \in DOMAIN Inside(node)}

refs(node) == {node.obj[k] : k \in {w \in REF_KEYWORDS : Has(node, w) /\ IsReference(node.obj[w])}}

RECURSIVE find_external_ref(_)
find_external_ref(node) ==
    (\E r \in refs(node) : r.ref = "outside") \/ (\E c \in Below(node) : find_external_ref(c))

RECURSIVE _holds_subresource(_)
_holds_subresource(node) == Has(node, "$id") \/ \E c \in Below(node) : _holds_subresource(c)

\* unquote(fragment).split("/"): percent-encoding is decoded before the fragment is split.
Unquoted(raw) == CASE raw = "a%20b" -> <<"a b">> [] raw = "$defs%2Fa" -> <<"$defs", "a">> [] OTHER -> <<raw>>
Unescaped(segment) == IF segment = "a~1b" THEN "a/b" ELSE segment

RECURSIVE Flatten(_)
Flatten(path) == IF path = <<>> THEN <<>> ELSE Unquoted(Head(path)) \o Flatten(Tail(path))

\* Mutant: the fragment is taken as it is written.
NeverUnquotes(path) == [i \in DOMAIN path |-> Unescaped(path[i])]

Segments(path) == LET raw == Flatten(path) IN [i \in DOMAIN raw |-> Unescaped(raw[i])]

Position == [d \in {"0", "1"} |-> IF d = "0" THEN 1 ELSE 2]

\* One segment of a pointer: a key of an object, or an index of an array.
Steps(v, segment) == \/ IsObject(v) /\ segment \in DOMAIN v.obj
                     \/ IsList(v) /\ segment \in DOMAIN Position /\ Position[segment] \in DOMAIN v.list
StepInto(v, segment) == IF IsObject(v) THEN v.obj[segment] ELSE v.list[Position[segment]]

RECURSIVE Walk(_, _)
Walk(v, segments) ==
    \/ segments = <<>>
    \/ Steps(v, Head(segments)) /\ Walk(StepInto(v, Head(segments)), Tail(segments))

_pointer_resolves(root, r) == Walk(root, Segments(r.path))

RECURSIVE UnresolvableIn(_, _)
UnresolvableIn(node, root) ==
    \/ \E r \in refs(node) : r.ref = "pointer" /\ ~_pointer_resolves(root, r)
    \/ \E c \in Below(node) : UnresolvableIn(c, root)

\* Mutant: an "$id" below the top level changes nothing.
IgnoresSubresources(root) == UnresolvableIn(root, root)

\* An "$id" at the very top counts as well: the walk begins with the document itself.
find_unresolvable_ref(root) == ~_holds_subresource(root) /\ UnresolvableIn(root, root)

-----------------------------------------------------------------------------
(* _unique_items and the key it compares by. *)

\* Mutant: a boolean is a number, as in Python.
TrueIsOne(v) ==
    IF IsBool(v) THEN <<"number", {<<IF v.bool THEN 1 ELSE 0>>}>>
    ELSE IF IsNumber(v) THEN <<"number", {<<v.num>>}>>
    ELSE <<"other", {}>>

RECURSIVE _comparison_key(_)
_comparison_key(v) ==
    CASE IsBool(v) -> <<"boolean", {<<IF v.bool THEN 1 ELSE 0>>}>>
      [] IsNumber(v) -> <<"number", {<<v.num>>}>>
      [] "str" \in DOMAIN v -> <<"string", {<<v.str>>}>>
      [] IsList(v) -> <<"array", {<<i, _comparison_key(v.list[i])>> : i \in DOMAIN v.list}>>
      [] IsObject(v) -> <<"object", {<<k, _comparison_key(v.obj[k])>> : k \in DOMAIN v.obj}>>
      [] OTHER -> <<"other", {}>>

\* The scan: an element whose key was seen before.
_unique_items(items) ==
    ~\E i \in DOMAIN items : _comparison_key(items[i]) \in {_comparison_key(items[j]) : j \in 1..(i - 1)}

-----------------------------------------------------------------------------
(* jsonschema (external). *)

RECURSIVE JsonEqual(_, _)
JsonEqual(v, w) ==
    \/ IsBool(v) /\ IsBool(w) /\ v.bool = w.bool
    \/ IsNumber(v) /\ IsNumber(w) /\ v.num = w.num
    \/ "str" \in DOMAIN v /\ "str" \in DOMAIN w /\ v.str = w.str
    \/ "null" \in DOMAIN v /\ "null" \in DOMAIN w
    \/ /\ (IsObject(v) /\ IsObject(w)) \/ (IsList(v) /\ IsList(w))
       /\ DOMAIN Inside(v) = DOMAIN Inside(w)
       /\ \A k \in DOMAIN Inside(v) : JsonEqual(Inside(v)[k], Inside(w)[k])

\* The library reads a fragment in the same order.
LibrarySegments(path) == LET raw == Flatten(path) IN [i \in DOMAIN raw |-> Unescaped(raw[i])]

\* The resource a pointer is resolved in changes with every "$id" it crosses.
Base(v, base) == IF Has(v, "$id") THEN v ELSE base

RECURSIVE LookUp(_, _, _)
LookUp(v, segments, base) ==
    IF segments = <<>> THEN [found |-> TRUE, at |-> v, base |-> Base(v, base)]
    ELSE IF ~Steps(v, Head(segments)) THEN [found |-> FALSE, at |-> v, base |-> base]
    ELSE LookUp(StepInto(v, Head(segments)), Tail(segments), Base(v, base))

\* The outcome of several evaluations, in any order, that stops at the first that fails.
Together(outcomes) ==
    (UNION outcomes \ {"valid"}) \cup (IF \A o \in outcomes : "valid" \in o THEN {"valid"} ELSE {})

RECURSIVE Evaluate(_, _, _, _)
Evaluate(s, v, base, fuel) ==
    IF fuel = 0 THEN {"endless"}
    ELSE IF IsBool(s) THEN {IF s.bool THEN "valid" ELSE "invalid"}
    ELSE IF ~IsObject(s) THEN {"malformed"}
    ELSE LET here == Base(s, base)
             Sub(t, w) == Evaluate(t, w, here, fuel - 1)
             Follow(r) == IF r.ref # "pointer" THEN {"unresolvable"}
                          ELSE LET t == LookUp(here, LibrarySegments(r.path), here) IN
                               IF t.found THEN Evaluate(t.at, v, t.base, fuel - 1) ELSE {"unresolvable"}
             Keyword(k) ==
                 CASE k = "$ref" -> IF IsReference(s.obj[k]) THEN Follow(s.obj[k]) ELSE {"malformed"}
                   [] k = "properties" /\ IsObject(v) /\ IsObject(s.obj[k]) ->
                        Together({Sub(s.obj[k].obj[p], v.obj[p]) : p \in DOMAIN s.obj[k].obj \cap DOMAIN v.obj})
                   [] k = "items" /\ IsList(v) -> Together({Sub(s.obj[k], v.list[i]) : i \in DOMAIN v.list})
                   [] k = "allOf" -> Together({Sub(s.obj[k].list[i], v) : i \in DOMAIN s.obj[k].list})
                   [] k = "const" -> {IF JsonEqual(s.obj[k], v) THEN "valid" ELSE "invalid"}
                   [] k = "uniqueItems" /\ IsList(v) -> {IF _unique_items(v.list) THEN "valid" ELSE "invalid"}
                   [] OTHER -> {"valid"}
         IN Together({Keyword(k) : k \in DOMAIN s.obj})

\* Validator.check_schema: the keywords have the shapes the metaschema asks for.
RECURSIVE check_schema(_)
check_schema(s) ==
    \/ IsBool(s)
    \/ /\ IsObject(s)
       /\ Has(s, "$ref") => IsReference(s.obj["$ref"])
       /\ \A k \in {"properties", "$defs"} :
              Has(s, k) => IsObject(s.obj[k]) /\ \A n \in DOMAIN s.obj[k].obj : check_schema(s.obj[k].obj[n])
       /\ Has(s, "items") => check_schema(s.obj["items"])
       /\ Has(s, "allOf") => IsList(s.obj["allOf"]) /\ \A i \in DOMAIN s.obj["allOf"].list : check_schema(s.obj["allOf"].list[i])

-----------------------------------------------------------------------------
(* check_uploaded_schema_in_isolation and validate_arguments_in_isolation, *)
(* in the child or before it; a child that is lost is an unusable schema.  *)

Nothing == JObject(<<>>)   \* {}

\* The schema is stored when the child says {"ok": True}.
check_uploaded_schema_in_isolation(text) ==
    /\ text.form # "garbage"
    /\ LET s == text.doc IN
       /\ ~_schema_shape_error(s)
       /\ ~exceeds_max_depth(s)
       /\ ~exceeds_max_nodes(s)
       /\ ~find_external_ref(s)
       /\ ~find_unresolvable_ref(s)
       /\ check_schema(s)
       /\ Evaluate(s, Nothing, s, RecursionLimit) \cap {"endless", "unresolvable", "malformed"} = {}

validate_arguments_in_isolation(s, args) ==
    IF args.form = "garbage" \/ exceeds_max_depth(args.doc) THEN {"arguments"}
    ELSE {IF o = "valid" THEN "ok" ELSE IF o = "invalid" THEN "mismatch" ELSE "schema" :
            o \in Evaluate(s, args.doc, s, RecursionLimit)}

\* Mutant: a schema that is false as a Python value is no schema.
FalsyIsNoSchema(text, args) ==
    IF text.form = "blank" \/ text.doc \in {Nothing, JBool(FALSE)} THEN {"ok"}
    ELSE IF text.form # "text" THEN {"schema"}
    ELSE validate_arguments_in_isolation(text.doc, args)

\* validate_arguments; an empty text of arguments is read as {}.
validate_arguments(text, args) ==
    IF text.form = "blank" THEN {"ok"}
    ELSE IF text.form = "long" THEN {"schema"}
    ELSE IF args.form = "long" THEN {"arguments"}
    ELSE IF text.form = "garbage" THEN {"schema"}
    ELSE IF IsObject(text.doc) /\ DOMAIN text.doc.obj = {} THEN {"ok"}
    ELSE IF _schema_shape_error(text.doc) \/ exceeds_max_depth(text.doc) \/ exceeds_max_nodes(text.doc) THEN {"schema"}
    ELSE validate_arguments_in_isolation(text.doc, args)

-----------------------------------------------------------------------------
(* The requests. *)

SchemaInit(stored) ==
    /\ schema \in stored   \* a row may be older than the check
    /\ vouched = FALSE /\ said = "none" /\ asked = schema /\ saves = 0

\* UploadSerializer.validate_arguments_schema.
UploadSchema(text) ==
    /\ saves < MaxSaves /\ saves' = saves + 1
    /\ text.form # "blank" /\ asked' = text
    /\ \E lost \in BOOLEAN :
        IF text.form # "long" /\ ~lost /\ check_uploaded_schema_in_isolation(text)
        THEN schema' = text /\ vouched' = TRUE /\ said' = "stored"
        ELSE said' = (IF lost THEN "lost" ELSE "refused") /\ UNCHANGED <<schema, vouched>>

\* ProgramAdminForm.clean_arguments_schema: a blank field declares no schema, and one that was not
\* changed is left alone.
AdminSavesSchema(text) ==
    /\ saves < MaxSaves /\ saves' = saves + 1
    /\ asked' = text
    /\ \E lost \in BOOLEAN :
        IF text = schema THEN said' = "stored" /\ UNCHANGED <<schema, vouched>>
        ELSE IF text.form = "blank" \/ (text.form # "long" /\ ~lost /\ check_uploaded_schema_in_isolation(text))
        THEN schema' = text /\ vouched' = TRUE /\ said' = "stored"
        ELSE said' = (IF lost THEN "lost" ELSE "refused") /\ UNCHANGED <<schema, vouched>>

\* A run, the endpoint that validates arguments, or the admin's page.
ValidateArguments(args) ==
    /\ asked' = args
    /\ said' \in validate_arguments(schema, args) \cup {"lost"}
    /\ UNCHANGED <<schema, vouched, saves>>

SchemaNext ==
    \/ \E t \in SchemaTexts : UploadSchema(t) \/ AdminSavesSchema(t)
    \/ \E a \in ArgumentTexts : ValidateArguments(a)

-----------------------------------------------------------------------------
(* Properties *)

\* Whether a document leaves a reference to jsonschema: an anchor, or a nested "$id".
RECURSIVE LeftToTheLibrary(_)
LeftToTheLibrary(node) ==
    (\E r \in refs(node) : r.ref = "anchor") \/ (\E c \in Below(node) : LeftToTheLibrary(c))
Deferred(s) == LeftToTheLibrary(s) \/ _holds_subresource(s)

\* The subschemas that the walks of the specification evaluate, each with its resource.
RECURSIVE Evaluated(_, _)
Evaluated(s, base) ==
    LET here == Base(s, base)
        Values(k) == IF Has(s, k) /\ IsObject(s.obj[k]) THEN {s.obj[k].obj[n] : n \in DOMAIN s.obj[k].obj} ELSE {}
        Lists == IF Has(s, "allOf") THEN {s.obj["allOf"].list[i] : i \in DOMAIN s.obj["allOf"].list} ELSE {}
        Single == IF Has(s, "items") THEN {s.obj["items"]} ELSE {}
    IN {<<s, here>>} \cup UNION {Evaluated(t, here) : t \in Values("properties") \cup Values("$defs") \cup Lists \cup Single}

\* Some reference of the document cannot be followed by the library.
Dangling(s) ==
    \E e \in Evaluated(s, s) : \E r \in refs(e[1]) :
        r.ref = "outside" \/ (r.ref = "pointer" /\ ~LookUp(e[2], LibrarySegments(r.path), e[2]).found)

\* A schema that was checked when it was stored never turns out at a run to name something that is
\* not there, whatever the arguments, unless it uses the two forms the check leaves to the library.
StoredReferencesResolve ==
    vouched /\ schema.form = "text" /\ ~Deferred(schema.doc) =>
        \A a \in {b \in ArgumentTexts : b.form = "text"} :
            Evaluate(schema.doc, a.doc, schema.doc, RecursionLimit) \cap {"unresolvable", "malformed"} = {}

\* What the comment of _holds_subresource says of an "$id" at the very top: it "changes nothing here and
\* is deliberately not counted", so the references of such a document are checked like any other's.
TopLevelIdIsChecked ==
    vouched /\ schema.form = "text" /\ ~LeftToTheLibrary(schema.doc)
    /\ (\A c \in Below(schema.doc) : ~_holds_subresource(c)) =>
        \A a \in {b \in ArgumentTexts : b.form = "text"} :
            "unresolvable" \notin Evaluate(schema.doc, a.doc, schema.doc, RecursionLimit)

\* A schema is refused for a reason: it is too long, too deep, too wide, malformed, endless on the
\* empty arguments, or holds a reference that the library cannot follow. A literal that looks like a
\* reference, a property named like a keyword, an encoded name and a nested resource are no reason.
RefusalsAreDeserved ==
    said = "refused" =>
        \/ asked.form # "text" \/ _schema_shape_error(asked.doc)
        \/ exceeds_max_depth(asked.doc) \/ exceeds_max_nodes(asked.doc)
        \/ ~check_schema(asked.doc) \/ Dangling(asked.doc)
        \/ Evaluate(asked.doc, Nothing, asked.doc, RecursionLimit) \cap {"endless", "unresolvable"} # {}

\* Arguments are accepted only by a schema that allows them: the schema false allows none, and two
\* elements are the same exactly when JSON Schema says so (1 and 1.0 are, 1 and true are not).
AcceptedArgumentsMatch ==
    /\ said = "ok" => schema.doc # JBool(FALSE)
    /\ \A k \in DOMAIN Inside(asked.doc) :
        LET items == Inside(asked.doc)[k] IN
        IsList(items) => (_unique_items(items.list) <=>
            \A i, j \in DOMAIN items.list : i # j => ~JsonEqual(items.list[i], items.list[j]))

\* Whoever is told to fix something is the one who can: the arguments are blamed only when no schema
\* could accept them, and never for a schema that cannot be evaluated.
BlameIsRight ==
    said = "arguments" => asked.form \in {"garbage", "long"} \/ exceeds_max_depth(asked.doc)

\* What a stored schema and an answer about arguments promise.
SchemasAreUsable == StoredReferencesResolve /\ RefusalsAreDeserved /\ AcceptedArgumentsMatch /\ BlameIsRight
=============================================================================
