---------------------------- MODULE IsolatedWork -----------------------------
(***************************************************************************)
(* api/domain/isolated.py: a request handler (the caller) runs a piece of  *)
(* work in a forked child under limits of CPU, memory and wall-clock time, *)
(* and reads what the child wrote into a pipe.  Caller, child and kernel   *)
(* interleave: a step of the caller is one system call, and the child may  *)
(* be killed between any two of its own.                                   *)
(*                                                                         *)
(* The work may never end without spending CPU (a lock that another thread *)
(* held when the process forked), so only the deadline bounds it.          *)
(***************************************************************************)
EXTENDS Integers, FiniteSets

CONSTANTS MaxIsolated,   \* bound on the calls of run_isolated
          MaxRefusals    \* bound on the system calls that fail and on external kills

Chunks == 1..2           \* how many chunks an answer takes; the pipe holds one

VARIABLES
    call,       \* the caller's step
    fds,        \* the descriptors of the pipe the caller holds
    child,      \* the child's step; "zombie" when it is dead, "reaped" when it was waited for
    death,      \* how it died, as the wait status and the usage tell
    payload,    \* what the child has to say
    size, written, received,   \* chunks of the answer: all, in the pipe so far, read by the caller
    timedOut,   \* the deadline fired
    verdict,    \* what run_isolated returned, or the reason of its IsolationError
    isolated, refusals

isolationVars == <<call, fds, child, death, payload, size, written, received, timedOut, verdict, isolated, refusals>>
childVars == <<child, death, payload, size, written>>
callerVars == <<call, fds, received, timedOut, verdict, isolated>>

IsolationInit ==
    /\ call = "idle" /\ fds = {} /\ child = "none" /\ death = "none" /\ payload = "none"
    /\ size = 0 /\ written = 0 /\ received = 0 /\ timedOut = FALSE /\ verdict = "none"
    /\ isolated = 0 /\ refusals = 0

Fails == refusals < MaxRefusals /\ refusals' = refusals + 1
alive == child \in {"works", "encodes", "writes"}

-----------------------------------------------------------------------------
(* The caller: run_isolated up to the fork. *)

Pipe ==
    /\ call = "idle" /\ isolated < MaxIsolated /\ isolated' = isolated + 1
    /\ child' = "none" /\ death' = "none" /\ payload' = "none" /\ size' = 0 /\ written' = 0
    /\ received' = 0 /\ timedOut' = FALSE
    /\ \/ fds' = {"read", "write"} /\ call' = "fork" /\ verdict' = "none" /\ UNCHANGED refusals
       \/ Fails /\ verdict' = "not_started" /\ UNCHANGED <<fds, call>>

\* Mutant: a fork that is refused leaves both ends of the pipe open.
ForkLeaksThePipe ==
    /\ call = "fork"
    /\ \/ child' = "works" /\ fds' = {"read"} /\ call' = "select" /\ UNCHANGED <<verdict, refusals>>
       \/ Fails /\ call' = "idle" /\ verdict' = "not_started" /\ UNCHANGED <<child, fds>>
    /\ UNCHANGED <<death, payload, size, written, received, timedOut, isolated>>

Fork ==
    /\ call = "fork"
    /\ \/ child' = "works" /\ fds' = {"read"} /\ call' = "select" /\ UNCHANGED <<verdict, refusals>>
       \/ Fails /\ call' = "idle" /\ fds' = {} /\ verdict' = "not_started" /\ UNCHANGED child
    /\ UNCHANGED <<death, payload, size, written, received, timedOut, isolated>>

-----------------------------------------------------------------------------
(* The child: _run_child. *)

\* The work returns, runs out of memory, or raises (setting the limits included).
ChildWorks ==
    /\ child = "works" /\ child' = "encodes" /\ payload' \in {"result", "memory", "raised"}
    /\ UNCHANGED <<callerVars, death, size, written, refusals>>

\* json.dumps: of the payload, or of the reason it could not be encoded for; a second lack of memory
\* leaves through os._exit without a word.
ChildEncodes ==
    /\ child = "encodes"
    /\ \/ child' = "writes" /\ size' \in (IF payload = "result" THEN Chunks ELSE {1}) /\ UNCHANGED <<payload, death, refusals>>
       \/ child' = "writes" /\ size' = 1 /\ payload' = "memory" /\ UNCHANGED <<death, refusals>>
       \/ child' = "writes" /\ size' = 1 /\ payload = "result" /\ payload' = "unencodable" /\ UNCHANGED <<death, refusals>>
       \/ Fails /\ child' = "zombie" /\ death' = "exit" /\ payload' = "memory" /\ UNCHANGED size
    /\ UNCHANGED <<callerVars, written>>

\* Mutant: os.write is received to write everything at once.
TakesOneWrite ==
    /\ child = "writes" /\ written = received
    /\ written' = written + 1
    /\ child' = "zombie" /\ death' = "exit"
    /\ UNCHANGED <<callerVars, payload, size, refusals>>

\* _write_all, a chunk at a time as the pipe has room; then os._exit.
ChildWrites ==
    /\ child = "writes" /\ written = received
    /\ written' = written + 1
    /\ IF written' = size THEN child' = "zombie" /\ death' = "exit" ELSE UNCHANGED <<child, death>>
    /\ UNCHANGED <<callerVars, payload, size, refusals>>

\* The CPU limit: SIGXCPU, or the SIGKILL of the hard limit for a child that ignored it.
SpendsItsBudget ==
    /\ alive /\ child' = "zombie" /\ death' \in {"SIGXCPU", "SIGKILL_of_the_limit"}
    /\ UNCHANGED <<callerVars, payload, size, written, refusals>>

\* The kernel's out-of-memory killer.
OomKills ==
    /\ alive /\ Fails /\ child' = "zombie" /\ death' = "SIGKILL"
    /\ UNCHANGED <<callerVars, payload, size, written>>

-----------------------------------------------------------------------------
(* The caller: _read_and_reap and _collect. *)

kill == IF alive THEN child' = "zombie" /\ death' = "SIGKILL" ELSE UNCHANGED <<child, death>>

Ready ==
    /\ call = "select" /\ (written > received \/ ~alive)
    /\ call' = "read"
    /\ UNCHANGED <<childVars, fds, received, timedOut, verdict, isolated, refusals>>

\* Mutant: the selector waits without a timeout.
WaitsForever == FALSE /\ UNCHANGED isolationVars

\* selector.select returns at the deadline with nothing; the child may still write before the signal.
DeadlinePasses ==
    /\ call = "select" /\ written = received /\ alive
    /\ call' = "kill" /\ timedOut' = TRUE
    /\ UNCHANGED <<childVars, fds, received, verdict, isolated, refusals>>

KillAtDeadline ==
    /\ call = "kill" /\ call' = "wait"
    /\ kill
    /\ UNCHANGED <<payload, size, written, fds, received, timedOut, verdict, isolated, refusals>>

Read ==
    /\ call = "read"
    /\ \/ written > received /\ received' = received + 1 /\ UNCHANGED call
       \/ written = received /\ ~alive /\ call' = "wait" /\ UNCHANGED received
    /\ UNCHANGED <<childVars, fds, timedOut, verdict, isolated, refusals>>

\* wait4 returns when the child is dead.
Wait4 ==
    /\ call = "wait" /\ child = "zombie"
    /\ child' = "reaped" /\ call' = "collect"
    /\ UNCHANGED <<death, payload, size, written, fds, received, timedOut, verdict, isolated, refusals>>

\* Mutant: the failure leaves the function at once.
LeavesTheChild ==
    /\ call \in {"select", "read"} /\ Fails
    /\ verdict' = "unreadable" /\ fds' = {} /\ call' = "idle"
    /\ UNCHANGED <<childVars, received, timedOut, isolated>>

\* The selector cannot be made, a read fails, or the chunks do not fit in memory: _kill_and_reap
\* follows in the finally.
ReadFails ==
    /\ call \in {"select", "read"} /\ Fails
    /\ kill
    /\ call' = "reap"
    /\ UNCHANGED <<payload, size, written, fds, received, timedOut, verdict, isolated>>

_kill_and_reap ==
    /\ call = "reap" /\ child = "zombie"
    /\ child' = "reaped" /\ verdict' = "unreadable" /\ fds' = {} /\ call' = "idle"
    /\ UNCHANGED <<death, payload, size, written, received, timedOut, isolated, refusals>>

\* Mutant: every SIGKILL is put down to the CPU limit.
KilledMeansSpent ==
    IF received = 0 THEN IF timedOut THEN "deadline"
                      ELSE IF death \in {"SIGXCPU", "SIGKILL", "SIGKILL_of_the_limit"} THEN "cpu"
                      ELSE "no_answer"
    ELSE IF received < size THEN "incomplete"
    ELSE payload

\* _collect: part of an answer is not a JSON document.
answer_of_child ==
    IF received = 0 THEN IF timedOut THEN "deadline"
                      ELSE IF death \in {"SIGXCPU", "SIGKILL_of_the_limit"} THEN "cpu"
                      ELSE IF death = "SIGKILL" THEN "killed"
                      ELSE "no_answer"
    ELSE IF received < size THEN "incomplete"
    ELSE payload

_collect ==
    /\ call = "collect" /\ verdict' = answer_of_child
    /\ fds' = {} /\ call' = "idle"
    /\ UNCHANGED <<childVars, received, timedOut, isolated, refusals>>

CallerSteps == Fork \/ Ready \/ DeadlinePasses \/ KillAtDeadline \/ Read \/ Wait4 \/ _kill_and_reap \/ _collect

IsolationNext == Pipe \/ CallerSteps \/ ReadFails \/ ChildWorks \/ ChildEncodes \/ ChildWrites \/ SpendsItsBudget \/ OomKills

IsolationSpec == IsolationInit /\ [][IsolationNext]_isolationVars

-----------------------------------------------------------------------------
(* Properties *)

\* A call that has returned has left nothing behind: no descriptor, no child running on, no zombie
\* (run_isolated's and _read_and_reap's finally).
NothingIsLeft == call = "idle" => fds = {} /\ child \in {"none", "reaped"}

\* What the caller is told is what happened: a result is the whole of what the work returned, a
\* deadline has passed, CPU was really spent, and only a child killed by somebody else is said to
\* have been killed for its memory (_collect tells the two SIGKILLs apart).
VerdictIsTrue ==
    /\ verdict = "result" => payload = "result" /\ written = size
    /\ verdict = "memory" => payload = "memory"
    /\ verdict = "deadline" => timedOut
    /\ verdict = "cpu" => death \in {"SIGXCPU", "SIGKILL_of_the_limit"}
    /\ verdict = "killed" => death = "SIGKILL" /\ ~timedOut
    /\ verdict = "incomplete" => death # "exit"

\* A child that has answered in full and in time is not reported as one that failed.
AnswersAreNotLost ==
    call = "idle" /\ death = "exit" /\ written = size /\ size > 0 /\ ~timedOut => verdict \in {payload, "unreadable"}

\* The three promises of a call that runs its work in a child.
IsolationIsKept == NothingIsLeft /\ VerdictIsTrue /\ AnswersAreNotLost

\* Every call returns, although the work may hang without spending CPU: a deadline before the first
\* byte, and after it nothing but the writing of an answer that is ready.
IsolatedCallsEnd == call # "idle" ~> call = "idle"
=============================================================================
