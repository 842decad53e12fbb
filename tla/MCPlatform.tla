----------------------------- MODULE MCPlatform ------------------------------
(***************************************************************************)
(* The parts of the platform around the jobs on small instances, each from *)
(* its own initial state: parts that do not interact are areas of one run. *)
(***************************************************************************)
EXTENDS AccountEvents, Authentication, Client, JobArtifacts, RayLogs, TLC

VARIABLE area   \* which part the behaviour is about
vars == <<eventVars, accessVars, authVars, clientVars, artifactVars, logVars, area>>

Areas == {"events", "logins", "client", "artifacts", "logs"}

Payload(resource, form, deleted) == [resource |-> resource, form |-> form, deleted |-> deleted]
InRegion == "e1" :> "east" @@ "e2" :> "east"
ForReason == "e1" :> "total" @@ "e2" :> "non_quantum"
History ==
    "e1" :> <<Payload("a", "bare", "absent"), Payload("a", "unusable", "absent"), Payload("a", "bare", "true")>>
    @@ "e2" :> <<Payload("a", "prefixed", "false")>>
InOrder == <<"lost", "east">>
Segments(region, n) == [i \in 1..n |-> IF i = 6 THEN region ELSE "s"]
SomeCrns == {<<"">>, Segments("east", 6), Segments("east", 8), Segments("west", 7), Segments("", 8)}

Header(channel, token, crn, public) == [channel |-> channel, token |-> token, crn |-> crn, public |-> public]
SomeHeaders == {Header("ibm_cloud", TRUE, TRUE, FALSE), Header("ibm_quantum_platform", TRUE, FALSE, TRUE),
                Header("local", TRUE, TRUE, FALSE), Header("ibm_cloud", FALSE, TRUE, FALSE), Header("ibm_cloud", TRUE, FALSE, FALSE)}

Doubling == <<1, 2>>
SomeTimeouts == {Unset, 2}

Row(author, p, runner) == [author |-> author, program |-> p, runner |-> runner]
Two(a, b) == "j1" :> a @@ "j2" :> b
SomeCasts == {Two(Row("u1", "cf", "fleets"), Row("u1", "cf", "fleets")), Two(Row("u1", "cf", "fleets"), Row("u1", "pf", "fleets")),
              Two(Row("u1", "pf", "fleets"), Row("u2", "pf", "fleets")), Two(Row("u1", "pa", "fleets"), Row("u2", "pf", "fleets")),
              Two(Row("u1", "cr", "ray"), Row("u1", "pr", "ray")), Two(Row("u1", "pr", "ray"), Row("u2", "pr", "ray"))}
Function(provider, title, project, artifact, image, runner) ==
    [provider |-> provider, title |-> title, project |-> project, artifact |-> artifact, image |-> image, runner |-> runner]
SomePrograms == "cf" :> Function(Null, "t", "p1", 1, FALSE, "fleets") @@ "pf" :> Function("v", "t", "p1", 0, TRUE, "fleets")
                @@ "pa" :> Function("v", "s", "p1", 1, FALSE, "fleets")
                @@ "cr" :> Function(Null, "t", Null, 1, FALSE, "ray") @@ "pr" :> Function("v", "t", Null, 0, TRUE, "ray")
SomeProjects == "p1" :> [users |-> TRUE, providers |-> TRUE, active |-> TRUE]
                @@ "p2" :> [users |-> TRUE, providers |-> FALSE, active |-> TRUE]
Versions == <<<<"main", "..", "helper">>, <<"main", "helper">>, <<"helper">>>>

Letters == {"a", "n", NEWLINE, BACKSLASH, PUBLIC, PRIVATE}
SomeContents == UNION {[1..n -> Letters] : n \in 0..3} \cup {<<PUBLIC, "a", NEWLINE, "a", "a", NEWLINE, PUBLIC, "a", "n">>}

Init ==
    /\ area \in Areas
    /\ EventsInit
    /\ AccessInit([f \in FunctionIds |-> None], {}, {})
    /\ AuthInit(IF area = "logins" THEN SUBSET AccessGroups ELSE {{}})
    /\ ClientInit
    /\ ArtifactInit(IF area = "artifacts" THEN SomeCasts ELSE {Two(Row("u1", "cf", "fleets"), Row("u1", "cf", "fleets"))})
    /\ LogInit(IF area = "logs" THEN SomeContents ELSE {<<>>})

Next ==
    \/ area = "events" /\ EventsNext /\ UNCHANGED <<accessVars, authVars, clientVars, artifactVars, logVars, area>>
    \/ area = "logins" /\ AuthNext /\ UNCHANGED <<eventVars, clientVars, artifactVars, logVars, area>>
    \/ area = "client" /\ ClientNext /\ UNCHANGED <<eventVars, accessVars, authVars, artifactVars, logVars, area>>
    \/ area = "artifacts" /\ ArtifactNext /\ UNCHANGED <<eventVars, accessVars, authVars, clientVars, logVars, area>>
    \/ area = "logs" /\ LogNext /\ UNCHANGED <<eventVars, accessVars, authVars, clientVars, artifactVars, area>>

\* The scheduler ticks forever, the broker answers, and a member that keeps consuming gets partitions.
EventsFairness ==
    /\ WF_eventVars(area = "events" /\ SchedulerNext)
    /\ \A q \in Queues : WF_eventVars(area = "events" /\ CommitLands(q)) /\ SF_eventVars(area = "events" /\ Assign(q))

\* The gateway finishes the requests it has begun, and cache entries reach their TTL.
LoginFairness ==
    /\ \A l \in Logins : WF_authVars(area = "logins" /\ (LoginRead(l) \/ LoginSync(l) \/ LoginAccess(l)))
    /\ WF_authVars(area = "logins" /\ EntryExpires("groups"))

\* Time passes, and the client and the gateway go on.
ClientFairness == WF_clientVars(area = "client" /\ WaitSteps) /\ WF_clientVars(area = "client" /\ Tick)

\* What the artifacts and the logs of a job promise, each where it is at work.
StorageIsTrue == (area = "artifacts" => ArtifactsAreKept) /\ (area = "logs" => LogsReadBack)

Spec == Init /\ [][Next]_vars /\ EventsFairness /\ LoginFairness /\ ClientFairness
=============================================================================
