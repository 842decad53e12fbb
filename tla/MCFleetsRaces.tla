---------------------------- MODULE MCFleetsRaces ----------------------------
(***************************************************************************)
(* Two questions of one instance of FleetsJobs, each with part of it at    *)
(* work: how the stops of one job race, and how two jobs compete for one   *)
(* slot.                                                                   *)
(***************************************************************************)
EXTENDS MCFleetsJobs

CONSTANTS j1, j2, r1, r2

VARIABLE area
areaVars == <<vars, area>>

\* Two requests stop j1, whose program may go, and the other job stays queued.
StopRace == Next /\ j2 \notin DOMAIN batch' /\ \A a \in Actors : on'[a] # j2

\* Both jobs are scheduled, and one request stops either of them.
SlotRace == Next /\ pc'[r1] = "idle" /\ program' = program

RaceInit == Init /\ area \in {"stop", "slot"}
RaceNext == ((area = "stop" /\ StopRace) \/ (area = "slot" /\ SlotRace)) /\ UNCHANGED area
RaceSpec == RaceInit /\ [][RaceNext]_areaVars
=============================================================================
