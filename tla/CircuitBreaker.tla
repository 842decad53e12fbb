--------------------------- MODULE CircuitBreaker ---------------------------
(***************************************************************************)
(* scheduler/tasks/circuit_breaker.py: the breaker in front of a           *)
(* destination, as operators on its state.  The threshold and the pause    *)
(* are read from Config at every use, so they are parameters.  "age" is    *)
(* time.monotonic() - _opened_at, counted up to the longest pause.         *)
(***************************************************************************)
EXTENDS Naturals

\* _consecutive_failures, _opened_at is not None, and how long ago that was.
Closed == [failures |-> 0, opened |-> FALSE, age |-> 0]

\* What is_open answers.
IsOpen(b, pause) == b.opened /\ b.age < pause

\* Mutant: the pause is over, the streak is kept.
AskedKeepingStreak(b, pause) == IF b.opened /\ b.age >= pause THEN [Closed EXCEPT !.failures = b.failures] ELSE b

\* The breaker after is_open: it closes itself once the pause has elapsed.
Asked(b, pause) == IF b.opened /\ b.age >= pause THEN Closed ELSE b

\* record_success: the streak is over.  An open breaker stays open.
Succeeded(b) == [b EXCEPT !.failures = 0]

\* Mutant: failures are not counted.
FailedUncounted(b, threshold) == b

\* record_failure.
Failed(b, threshold) ==
    IF b.failures + 1 >= threshold /\ ~b.opened
    THEN [failures |-> b.failures + 1, opened |-> TRUE, age |-> 0]
    ELSE [b EXCEPT !.failures = @ + 1]

\* Time passes.
Aged(b, d, maxPause) == IF b.opened THEN [b EXCEPT !.age = IF @ + d < maxPause THEN @ + d ELSE maxPause] ELSE b

=============================================================================
