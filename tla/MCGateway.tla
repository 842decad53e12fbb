----------------------------- MODULE MCGateway -------------------------------
(***************************************************************************)
(* The requests of the gateway on small instances.  The modules of the     *)
(* endpoints share the tables of Access; their steps are checked area by   *)
(* area, each from its own initial state, because the state spaces of      *)
(* areas that do not interact would only multiply.  Areas that do interact *)
(* are one area: runs with uploads and deletions, sub_status with stops    *)
(* and the scheduler.                                                      *)
(***************************************************************************)
EXTENDS JobRequests, RunFunction, FunctionFiles

VARIABLE area   \* which area the behaviour is about
vars == <<accessVars, jobVars, catalogVars, runVars, fileVars, area>>

Row(a, p, t, r, d) ==
    [author |-> a, provider |-> p, title |-> t, runner |-> r, disabled |-> FALSE, default |-> d,
     project |-> IF r = "ray" THEN None ELSE IF p = None THEN "shared" ELSE "own"]
Table == [f \in FunctionIds |-> CASE f = "f1" -> Row("u1", None, "t1", "ray", None)
                                  [] f = "f2" -> Row("u2", "p1", "t1", "fleets", 1)
                                  [] f = "f3" -> Row("u1", "p1", "t2", "ray", None)
                                  [] OTHER -> None]
SizeRows == <<[function |-> "f2", name |-> "S", profile |-> "small"]>>
Grants == {<<"f2", "u1", VIEW_PROGRAM>>, <<"f2", "u1", RUN_PROGRAM>>}
Kinds == <<[author |-> "u1", program |-> "f2"], [author |-> "u2", program |-> "f3"],
           [author |-> "u1", program |-> "f1"], [author |-> "u1", program |-> "f2"]>>
Sessions == [x \in RuntimeJobs |-> IF x = "x3" THEN None ELSE "s1"]
Granted == {[legacy |-> FALSE, grants |-> {<<"p1", "t1", READ>>, <<"p1", "t1", JOBS_READ>>, <<"p1", "t1", USER_FILES_READ>>}, custom |-> {CUSTOM_RUN}],
            [legacy |-> FALSE, grants |-> {<<"p1", "t2", RUN>>, <<"p1", "t2", PROVIDER_LOGS>>, <<"p1", "t2", PROVIDER_FILES_READ>>}, custom |-> {}]}
OwnProject == [p \in Providers |-> "own"]
Form(p, t, r, s, d) == [provider |-> p, title |-> t, runner |-> r, sizes |-> s, default |-> d]
Only(n) == [x \in {n} |-> "small"]
Two == [x \in {"M", "L"} |-> IF x = "M" THEN "small" ELSE "large"]
SomeForms == {Form("p1", "t1", None, None, None), Form("p1", "t1", None, None, "S"), Form("p1", "t1", "ray", None, None),
              Form("p1", "t1", None, Only("M"), None), Form("p1", "t1", None, Two, None),
              Form(None, "t2", "fleets", None, None), Form(None, "t2", None, Only("S"), "S")}
Ask(p, s) == [user |-> "u1", title |-> "t1", provider |-> p, size |-> s]
Asks == {Ask("p1", None), Ask("p1", "S")}
Areas == {"access", "sub_status", "stops", "reads", "paging", "catalog", "runs", "limit", "files", "names"}
Words(n) == UNION {[1..k -> Characters] : k \in 0..n}
Names == {<<"a", "+", "+">>, <<"a", "_">>, <<".", "a">>}
SubPaths == {<<>>, <<"/", "a", "/">>}

Init ==
    /\ area \in Areas
    /\ AccessInit(Table, IF area \in {"catalog", "runs", "limit"} THEN {<<"f2", "u1", VIEW_PROGRAM>>, <<"f2", "u1", RUN_PROGRAM>>} ELSE {},
                  IF area = "reads" THEN {<<"p1", "u1">>} ELSE {})
    /\ JobInit
    /\ CatalogInit(SizeRows, {"f2"}, IF area = "runs" THEN MaxUploads - 1 ELSE 0)
    /\ RunInit(IF area = "runs" THEN {3} ELSE {})
    /\ FileInit(IF area = "names" THEN Words(MaxNameLength) ELSE {<<>>})

Next ==
    \/ area = "access" /\ AccessNext /\ UNCHANGED <<jobVars, catalogVars, runVars, fileVars, area>>
    \/ area = "sub_status" /\ (SubStatusSteps \/ Stopping({1}, {FALSE}) \/ Surroundings({1}, Statuses)) /\ UNCHANGED <<accessVars, catalogVars, runVars, fileVars, area>>
    \/ area = "stops" /\ (StopSteps({1}) \/ Surroundings({1, 2}, {})) /\ UNCHANGED <<accessVars, catalogVars, runVars, fileVars, area>>
    \/ area = "reads" /\ (Surroundings({1, 2, 3}, {"PENDING", "RUNNING"}) \/ Storage) /\ UNCHANGED <<accessVars, catalogVars, runVars, fileVars, area>>
    \/ area = "reads" /\ (\E f \in FunctionIds : DeleteFunction(f)) /\ UNCHANGED <<catalogVars, runVars, fileVars, area>>
    \/ area = "paging" /\ ((\E j \in JobIds : NewJob(j)) \/ (\E u \in Users : WalkPage(u))) /\ UNCHANGED <<accessVars, catalogVars, runVars, fileVars, area>>
    \/ area = "catalog" /\ CatalogNext /\ UNCHANGED <<jobVars, runVars, fileVars, area>>
    \/ area = "runs" /\ (RunSteps(Asks) \/ CatalogMoves({Form("p1", "t1", None, Only("M"), None)}, {"f2"})) /\ UNCHANGED <<jobVars, fileVars, area>>
    \/ area = "limit" /\ (RunSteps({Ask(None, None)}) \/ Endings) /\ UNCHANGED <<jobVars, fileVars, area>>
    \/ area = "files" /\ (\E af \in Results : FileSteps(af)) /\ UNCHANGED <<jobVars, catalogVars, runVars, area>>
    \/ area = "files" /\ FunctionMoves("f2", "ray", None) /\ UNCHANGED <<jobVars, catalogVars, runVars, area>>
    \/ area = "files" /\ FunctionMoves("f3", "fleets", "own") /\ UNCHANGED <<jobVars, catalogVars, runVars, area>>

Spec == Init /\ [][Next]_vars
        /\ \A u \in Users : WF_vars(area = "access" /\ CacheExpires(u) /\ UNCHANGED <<jobVars, catalogVars, runVars, fileVars, area>>)
=============================================================================
