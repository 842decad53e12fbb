------------------------------ MODULE MCServices ------------------------------
(***************************************************************************)
(* The thread pool, isolated work, the arguments schema and the timeline   *)
(* of the admin on small instances, each from its own initial state: these *)
(* parts do not interact, and are areas of one run.                        *)
(***************************************************************************)
EXTENDS BackgroundExecutor, IsolatedWork, ArgumentsSchema, JobTimeline, TLC

CONSTANTS t1, t2, t3

VARIABLE area   \* which part the behaviour is about
allVars == <<vars, isolationVars, schemaVars, timelineVars, area>>

Areas == {"executor", "isolation", "schemas", "timeline"}

\* Two tasks of one job, which replace each other, and one without a key.
JobKey == t1 :> "job:1" @@ t2 :> "job:1" @@ t3 :> NoKey

Runners3 == <<"ray", "fleets", "fleets">>
Profiles3 == <<"a", "b", "b">>

Pointer(path) == Reference("pointer", path)
Leaves == {JBool(TRUE), JObject("$ref" :> Pointer(<<>>)), JObject("$ref" :> Pointer(<<"$defs", "a">>)),
           JObject("$ref" :> Pointer(<<"$defs%2Fa">>)), JObject("$ref" :> Pointer(<<"$defs", "a%20b">>)), JObject("$ref" :> Pointer(<<"$defs", "a~1b">>)),
           JObject("const" :> JObject("$ref" :> Pointer(<<"nowhere">>))), JObject("$ref" :> Reference("anchor", <<>>)),
           JObject("uniqueItems" :> JBool(TRUE)), JObject("items" :> JObject("$ref" :> Pointer(<<"properties", "x">>))),
           JObject("$id" :> JString("i") @@ "$ref" :> Pointer(<<"$defs", "b">>) @@ "$defs" :> JObject("b" :> JBool(TRUE)))}
Shapes(s) == {JObject("properties" :> JObject("x" :> s)), JObject("properties" :> JObject("const" :> s)), JObject("allOf" :> JList(<<s>>)),
              JObject("items" :> s)}
Defining(s, name, t) == JObject(s.obj @@ "$defs" :> JObject(name :> t))
Documents == {JBool(TRUE), JBool(FALSE), JNull, JNumber(1, FALSE), JObject(<<>>), JObject("$ref" :> JNumber(1, FALSE)), JObject("$ref" :> Reference("outside", <<>>)),
              JObject("allOf" :> JList(<<JObject("items" :> JObject("items" :> JBool(TRUE)))>>)), 
              JObject("items" :> JObject("items" :> JObject("items" :> JObject("items" :> JBool(TRUE)))))}
    \cup Leaves \cup UNION {Shapes(s) : s \in Leaves}
    \cup {Defining(d, n, t) : d \in UNION {Shapes(s) : s \in Leaves}, n \in {"a", "a b", "a/b"}, t \in {JBool(TRUE), JBool(FALSE), JObject("$ref" :> Pointer(<<"$defs", "a b">>))}}
Text(d) == [form |-> "text", doc |-> d]
Odd(f) == [form |-> f, doc |-> JNull]
SomeSchemas == {Text(d) : d \in Documents} \cup {Odd("blank"), Odd("garbage"), Odd("long")}
OldSchemas == {Odd("blank"), Odd("garbage"), Odd("long"), Text(JNumber(1, FALSE)), Text(JBool(FALSE)),
               Text(JObject("$ref" :> Pointer(<<"nowhere">>)))}
One(items) == JObject("x" :> JList(items))
SomeArguments == {Odd("garbage"), Odd("long"), Text(JObject(<<>>)), Text(JObject("x" :> JNumber(1, FALSE))), Text(JObject("const" :> JNumber(1, FALSE))),
   Text(One(<<JNumber(1, FALSE), JBool(TRUE)>>)), Text(One(<<JNumber(1, FALSE), JNumber(1, TRUE)>>)),
   Text(One(<<JObject("k" :> JBool(FALSE)), JObject("k" :> JNumber(0, FALSE))>>)), Text(One(<<JList(<<JNull>>), JList(<<JNull>>)>>)),
   Text(One(<<JList(<<JList(<<JNull>>)>>)>>))}

AnyInit ==
    /\ area \in Areas
    /\ Init /\ IsolationInit /\ TimelineInit
    /\ SchemaInit(IF area = "schemas" THEN OldSchemas ELSE {Odd("blank")})

AnyNext ==
    \/ area = "executor" /\ Next /\ UNCHANGED <<isolationVars, schemaVars, timelineVars, area>>
    \/ area = "isolation" /\ IsolationNext /\ UNCHANGED <<vars, schemaVars, timelineVars, area>>
    \/ area = "schemas" /\ SchemaNext /\ UNCHANGED <<vars, isolationVars, timelineVars, area>>
    \/ area = "timeline" /\ TimelineNext /\ UNCHANGED <<vars, isolationVars, schemaVars, area>>

\* Every thread of the pool, and every caller that has begun, goes on.
ExecutorFairness == \A a \in Actors : WF_vars(area = "executor" /\ GoOn(a))

\* The caller goes on and the deadline comes; of the child only the writing is sure to go on.
IsolationFairness ==
    WF_isolationVars(area = "isolation" /\ CallerSteps) /\ WF_isolationVars(area = "isolation" /\ ChildWrites)

\* Isolated work, the schemas that are checked in it, and the timeline, each where it is at work.
AnswersAreChecked ==
    /\ area = "isolation" => IsolationIsKept
    /\ area = "schemas" => SchemasAreUsable
    /\ area = "timeline" => TimelineIsTrue

\* Nobody waits for ever for a background task or for isolated work.
WaitersReturn == WaitersReleased /\ IsolatedCallsEnd

AnySpec == AnyInit /\ [][AnyNext]_allVars /\ ExecutorFairness /\ IsolationFairness
=============================================================================
