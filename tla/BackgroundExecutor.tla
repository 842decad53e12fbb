------------------------- MODULE BackgroundExecutor -------------------------
(***************************************************************************)
(* core/services/background_executor.py: the thread pool of a process.  A  *)
(* step is one section under the lock of the cycle, or one call on a       *)
(* Future, which has a lock of its own.  The lock of the cycle is          *)
(* reentrant: a future cancelled under it runs its done callback in the    *)
(* same section.                                                           *)
(*                                                                         *)
(* BackgroundPool has one member, so there is one queue: a set of tasks    *)
(* with their places, where a replacement takes over the place.            *)
(***************************************************************************)
EXTENDS Integers, FiniteSets

CONSTANTS Tasks,
          KeyOf,      \* replace_key of each task, or NoKey
          NoKey, NoTask,
          Callers,    \* the threads that use the executor
          Threads,    \* the threads of a cycle
          PoolLimit,  \* _Cycle.pool_limit
          MaxCycles,  \* bound on calls of init()
          SelfStops   \* tasks that may call shutdown() themselves

Cycles == 1..MaxCycles
Workers == Cycles \X Threads
Actors == Callers \cup Workers

ASSUME ExecutorAssumption ==
    /\ PoolLimit \in Nat /\ MaxCycles \in Nat
    /\ IsFiniteSet(Tasks) /\ IsFiniteSet(Threads)
    /\ NoTask \notin Tasks
    /\ Callers \cap Workers = {}

VARIABLES
    cycle,     \* BackgroundExecutor._cycle, 0 for None
    begun,     \* how many cycles were begun
    closing,   \* the cycle that a shutdown is stopping with _lifecycle held, or 0
    stopping,  \* the cycles that are stopping
    waiting,   \* the tasks in the queues
    place,     \* their places
    cycleOf,   \* the cycle a task was submitted to
    heir,      \* the task that replaced it (_Task.replaced), or NoTask
    running,   \* _Cycle.running
    future,    \* the state of each future
    outcome,   \* what background_executor_tasks_total counted the task as
    gauge,     \* background_executor_pending
    pc, task,  \* the step of every actor and the task it is about
    end        \* how the task of a worker ended

cycleVars == <<cycle, begun, closing, stopping>>
queueVars == <<waiting, place, cycleOf, heir>>
countVars == <<outcome, gauge>>
actorVars == <<pc, task, end>>
vars == <<cycleVars, queueVars, running, future, countVars, actorVars>>

\* Type correctness; "broken" is a future that was used in a state it refuses.
TypeOK ==
    /\ cycle \in 0..MaxCycles /\ begun \in 0..MaxCycles /\ closing \in 0..MaxCycles
    /\ stopping \subseteq Cycles /\ waiting \subseteq Tasks
    /\ place \in [Tasks -> Nat]
    /\ cycleOf \in [Tasks -> 0..MaxCycles]
    /\ heir \in [Tasks -> Tasks \cup {NoTask}]
    /\ running \in [Cycles -> Nat]
    /\ future \in [Tasks -> {"none", "dropped", "pending", "running", "cancelled", "notified", "finished", "broken"}]
    /\ outcome \in [Tasks -> {"none", "completed", "failed", "canceled", "replaced", "twice"}]
    /\ gauge \in Int
    /\ pc \in [Actors -> {"idle", "enqueue", "release", "forget", "notify", "lock", "stop", "join", "loop",
                          "sleep", "took", "start", "run", "count", "slot", "resolve", "exit"}]
    /\ task \in [Actors -> Tasks \cup {NoTask}]
    /\ end \in [Actors -> {"none", "completed", "failed", "canceled", "told"}]

Init ==
    /\ cycle = 0 /\ begun = 0 /\ closing = 0
    /\ stopping = {} /\ waiting = {}
    /\ place = [t \in Tasks |-> 0]
    /\ cycleOf = [t \in Tasks |-> 0]
    /\ heir = [t \in Tasks |-> NoTask]
    /\ running = [c \in Cycles |-> 0]
    /\ future = [t \in Tasks |-> "none"]
    /\ outcome = [t \in Tasks |-> "none"]
    /\ gauge = 0
    /\ pc = [a \in Actors |-> IF a \in Callers THEN "idle" ELSE "exit"]
    /\ task = [a \in Actors |-> NoTask]
    /\ end = [a \in Actors |-> "none"]

-----------------------------------------------------------------------------
(* Futures, the queue and the counters. *)

\* Mutant: nobody who waits for a cancelled future is woken.
NotifiedNobody(f) == IF f = "cancelled" THEN f ELSE IF f = "pending" THEN "running" ELSE "broken"

\* Future.set_running_or_notify_cancel, which raises in any other state.
Notified(f) == IF f = "cancelled" THEN "notified" ELSE IF f = "pending" THEN "running" ELSE "broken"

\* Future.set_result and set_exception.
Finished(f) == IF f = "running" THEN "finished" ELSE "broken"

SetFuture(t, f) == future' = [future EXCEPT ![t] = f]

Queue(c) == {t \in waiting : cycleOf[t] = c}
IsFirst(t, S) == t \in S /\ \A u \in S : place[t] <= place[u]

\* Mutant: the running tasks are not counted.
PendingInQueue(c) == Cardinality(Queue(c))

Pending(c) == Cardinality(Queue(c)) + running[c]

\* Mutant: a waiting task is replaced only when the pool is full.
UnderWhenFull(t) ==
    {u \in Queue(cycleOf[t]) : KeyOf[t] # NoKey /\ KeyOf[u] = KeyOf[t] /\ Pending(cycleOf[t]) >= PoolLimit}

\* waiting_index: the tasks that wait under the key of t.
Under(t) == {u \in Queue(cycleOf[t]) : KeyOf[t] # NoKey /\ KeyOf[u] = KeyOf[t]}

\* A task is counted in background_executor_tasks_total.
Tally(S, o) == outcome' = [t \in Tasks |-> IF t \notin S THEN outcome[t]
                                           ELSE IF outcome[t] = "none" THEN o ELSE "twice"]

\* Mutant: background_executor_pending is not decremented.
CountOutKeepingGauge(S, o) == Tally(S, o) /\ UNCHANGED gauge

CountOut(S, o) == Tally(S, o) /\ gauge' = gauge - Cardinality(S)

GoTo(a, step) == pc' = [pc EXCEPT ![a] = step]
LetGo(a) == task' = [task EXCEPT ![a] = NoTask]

-----------------------------------------------------------------------------
(* submit, future.cancel and discard. *)

\* submit reads the current cycle under a lock of its own.
Submit(x, t) ==
    /\ pc[x] = "idle" /\ cycle # 0 /\ cycleOf[t] = 0
    /\ cycleOf' = [cycleOf EXCEPT ![t] = cycle]
    /\ GoTo(x, "enqueue")
    /\ task' = [task EXCEPT ![x] = t]
    /\ UNCHANGED <<cycleVars, waiting, place, heir, running, future, countVars, end>>

Drop(x) ==
    /\ SetFuture(task[x], "dropped")
    /\ GoTo(x, "idle") /\ LetGo(x)
    /\ UNCHANGED <<waiting, place, heir, countVars>>

\* The task takes the place of the one that waits under its key.
Replace(x, old) ==
    LET t == task[x]
    IN  /\ SetFuture(t, "pending")
        /\ waiting' = (waiting \ {old}) \cup {t}
        /\ place' = [place EXCEPT ![t] = place[old]]
        /\ heir' = [heir EXCEPT ![old] = t]
        /\ Tally({old}, IF future[old] = "cancelled" THEN "canceled" ELSE "replaced")
        /\ GoTo(x, "release")
        /\ UNCHANGED <<gauge, task>>

\* The task goes to the end; cond.notify() wakes one sleeping thread, if there is one.
AppendTo(x) ==
    LET t == task[x]
        asleep == {w \in Workers : w[1] = cycleOf[t] /\ pc[w] = "sleep"}
    IN  /\ SetFuture(t, "pending")
        /\ waiting' = waiting \cup {t}
        /\ place' = [place EXCEPT ![t] = 1 + Cardinality({u \in Tasks : future[u] \notin {"none", "dropped"}})]
        /\ gauge' = gauge + 1
        /\ \/ asleep = {} /\ GoTo(x, "idle")
           \/ \E w \in asleep : pc' = [pc EXCEPT ![x] = "idle", ![w] = "loop"]
        /\ LetGo(x)
        /\ UNCHANGED <<heir, outcome>>

\* submit under the lock: _Cycle.enqueue.
Enqueue(x) ==
    LET c == cycleOf[task[x]]
        under == Under(task[x])
    IN  /\ pc[x] = "enqueue"
        /\ \/ c \in stopping /\ Drop(x)
           \/ c \notin stopping /\ \E old \in under : IsFirst(old, under) /\ Replace(x, old)
           \/ c \notin stopping /\ under = {} /\ Pending(c) >= PoolLimit /\ Drop(x)
           \/ c \notin stopping /\ under = {} /\ Pending(c) < PoolLimit /\ AppendTo(x)
        /\ UNCHANGED <<cycleVars, cycleOf, running, end>>

\* submit cancels the future it replaced, whose callback does nothing, and wakes
\* whoever waits for it.
Release(x) ==
    /\ pc[x] = "release"
    /\ \E old \in Tasks :
          /\ heir[old] = task[x]
          /\ SetFuture(old, Notified(IF future[old] = "pending" THEN "cancelled" ELSE future[old]))
    /\ GoTo(x, "idle") /\ LetGo(x)
    /\ UNCHANGED <<cycleVars, queueVars, running, countVars, end>>

\* Whoever was given the future cancels it; its callback then waits for the lock.
Cancel(x, t) ==
    /\ pc[x] = "idle" /\ future[t] = "pending"
    /\ \A y \in Callers : pc[y] = "release" => task[y] # t
    /\ SetFuture(t, "cancelled")
    /\ GoTo(x, "forget")
    /\ task' = [task EXCEPT ![x] = t]
    /\ UNCHANGED <<cycleVars, queueVars, running, countVars, end>>

\* Mutant: a task that a thread took is counted by the callback as well.
StillQueuedOrTaken(t) == heir[t] = NoTask

\* The callback finds the task neither replaced nor taken.
StillQueued(t) == heir[t] = NoTask /\ t \in waiting

\* forget_if_cancelled, under the lock.
Forget(x) ==
    LET t == task[x]
    IN  /\ pc[x] = "forget"
        /\ IF StillQueued(t)
           THEN /\ waiting' = waiting \ {t}
                /\ CountOut({t}, "canceled")
                /\ GoTo(x, "notify")
                /\ UNCHANGED task
           ELSE /\ GoTo(x, "idle") /\ LetGo(x)
                /\ UNCHANGED <<waiting, countVars>>
        /\ UNCHANGED <<cycleVars, place, cycleOf, heir, running, future, end>>

\* forget_if_cancelled wakes whoever waits for the task.
NotifyCancelled(x) ==
    /\ pc[x] = "notify"
    /\ SetFuture(task[x], Notified(future[task[x]]))
    /\ GoTo(x, "idle") /\ LetGo(x)
    /\ UNCHANGED <<cycleVars, queueVars, running, countVars, end>>

\* Tasks cancelled under the lock leave the queue in their callbacks, save those
\* that were cancelled before: their callbacks are still to come.
CancelQueued(S) ==
    LET hit == {t \in S : future[t] = "pending"}
    IN  /\ waiting' = waiting \ hit
        /\ future' = [t \in Tasks |-> IF t \in hit THEN Notified("cancelled") ELSE future[t]]
        /\ CountOut(hit, "canceled")
        /\ UNCHANGED <<place, cycleOf, heir>>

\* discard.  The cycle it read may have been taken by a shutdown since; in a cycle
\* that is stopped every task left is cancelled already.
Discard(x, t) ==
    /\ pc[x] = "idle" /\ t \in waiting /\ cycleOf[t] \notin stopping
    /\ IsFirst(t, Under(t))
    /\ CancelQueued({t})
    /\ UNCHANGED <<cycleVars, running, actorVars>>

-----------------------------------------------------------------------------
(* The threads: _work, _execute and _finish. *)

\* The queue is empty, so the thread waits.
Sleep(w) ==
    /\ pc[w] = "loop" /\ w[1] \notin stopping /\ Queue(w[1]) = {}
    /\ GoTo(w, "sleep")
    /\ UNCHANGED <<cycleVars, queueVars, running, future, countVars, task, end>>

\* The cycle is stopping, so the thread ends, whatever is in the queue.
Leave(w) ==
    /\ pc[w] = "loop" /\ w[1] \in stopping
    /\ GoTo(w, "exit")
    /\ UNCHANGED <<cycleVars, queueVars, running, future, countVars, task, end>>

\* The first task of the queue.
Take(w, t) ==
    /\ pc[w] = "loop" /\ w[1] \notin stopping /\ IsFirst(t, Queue(w[1]))
    /\ waiting' = waiting \ {t}
    /\ running' = [running EXCEPT ![w[1]] = @ + 1]
    /\ task' = [task EXCEPT ![w] = t]
    /\ GoTo(w, "took")
    /\ UNCHANGED <<cycleVars, place, cycleOf, heir, future, countVars, end>>

\* future.cancelled(): such a task is not run, and its future is notified last.
Look(w) ==
    /\ pc[w] = "took"
    /\ IF future[task[w]] \in {"cancelled", "notified"}
       THEN GoTo(w, "count") /\ end' = [end EXCEPT ![w] = "canceled"]
       ELSE GoTo(w, "start") /\ UNCHANGED end
    /\ UNCHANGED <<cycleVars, queueVars, running, future, countVars, task>>

\* Mutant: the answer of set_running_or_notify_cancel is ignored.
StartAnyway(w) ==
    /\ pc[w] = "start"
    /\ SetFuture(task[w], Notified(future[task[w]]))
    /\ GoTo(w, "run")
    /\ UNCHANGED <<cycleVars, queueVars, running, countVars, task, end>>

\* set_running_or_notify_cancel: the task may have been cancelled since.
Start(w) ==
    /\ pc[w] = "start"
    /\ SetFuture(task[w], Notified(future[task[w]]))
    /\ IF future[task[w]] = "cancelled"
       THEN GoTo(w, "count") /\ end' = [end EXCEPT ![w] = "told"]
       ELSE GoTo(w, "run") /\ UNCHANGED end
    /\ UNCHANGED <<cycleVars, queueVars, running, countVars, task>>

\* The task returns or raises.
RunEnds(w) ==
    /\ pc[w] = "run"
    /\ \E o \in {"completed", "failed"} : end' = [end EXCEPT ![w] = o]
    /\ GoTo(w, "count")
    /\ UNCHANGED <<cycleVars, queueVars, running, future, countVars, task>>

\* _finish: the counters ...
Count(w) ==
    /\ pc[w] = "count"
    /\ CountOut({task[w]}, IF end[w] = "told" THEN "canceled" ELSE end[w])
    /\ GoTo(w, "slot")
    /\ UNCHANGED <<cycleVars, queueVars, running, future, task, end>>

\* ... and then the slot, also when closing the connections raises.
FreeSlot(w) ==
    /\ pc[w] = "slot"
    /\ running' = [running EXCEPT ![w[1]] = @ - 1]
    /\ IF end[w] = "told"
       THEN GoTo(w, "loop") /\ LetGo(w) /\ end' = [end EXCEPT ![w] = "none"]
       ELSE GoTo(w, "resolve") /\ UNCHANGED <<task, end>>
    /\ UNCHANGED <<cycleVars, queueVars, future, countVars>>

\* The future is resolved last.
Resolve(w) ==
    LET f == future[task[w]]
    IN  /\ pc[w] = "resolve"
        /\ SetFuture(task[w], IF end[w] = "canceled" THEN Notified(f) ELSE Finished(f))
        /\ GoTo(w, "loop") /\ LetGo(w)
        /\ end' = [end EXCEPT ![w] = "none"]
        /\ UNCHANGED <<cycleVars, queueVars, running, countVars>>

-----------------------------------------------------------------------------
(* init and shutdown. *)

\* init, which raises while there is a cycle.
Begin(x) ==
    /\ pc[x] = "idle" /\ closing = 0 /\ cycle = 0 /\ begun < MaxCycles
    /\ begun' = begun + 1
    /\ cycle' = begun + 1
    /\ pc' = [a \in Actors |-> IF a \in Workers /\ a[1] = begun + 1 THEN "loop" ELSE pc[a]]
    /\ gauge' = 0
    /\ UNCHANGED <<closing, stopping, queueVars, running, future, outcome, task, end>>

\* shutdown is called by a user of the executor, or by a task.
CallShutdown(a) ==
    /\ \/ a \in Callers /\ pc[a] = "idle"
       \/ a \in Workers /\ pc[a] = "run" /\ task[a] \in SelfStops
    /\ GoTo(a, "lock")
    /\ UNCHANGED <<cycleVars, queueVars, running, future, countVars, task, end>>

\* The call of shutdown returns, to its caller or to the task that made it.
Return(a) == GoTo(a, IF a \in Callers THEN "idle" ELSE "run") /\ UNCHANGED <<task, end>>

\* _lifecycle is taken; there may be nothing to stop any more.
TakeCycle(a) ==
    /\ pc[a] = "lock" /\ closing = 0
    /\ closing' = cycle
    /\ cycle' = 0
    /\ IF cycle = 0 THEN Return(a) ELSE GoTo(a, "stop") /\ UNCHANGED <<task, end>>
    /\ UNCHANGED <<begun, stopping, queueVars, running, future, countVars>>

\* The queued tasks are cancelled and every thread is woken.
StopCycle(a) ==
    /\ pc[a] = "stop"
    /\ stopping' = stopping \cup {closing}
    /\ CancelQueued(Queue(closing))
    /\ pc' = [b \in Actors |-> IF b = a THEN "join"
                               ELSE IF pc[b] = "sleep" /\ b[1] = closing THEN "loop" ELSE pc[b]]
    /\ UNCHANGED <<cycle, begun, closing, running, task, end>>

\* Every other thread of the cycle has ended.
Join(a) ==
    /\ pc[a] = "join"
    /\ \A w \in Workers : w[1] = closing /\ w # a => pc[w] = "exit"
    /\ closing' = 0
    /\ Return(a)
    /\ UNCHANGED <<cycle, begun, stopping, queueVars, running, future, countVars>>

-----------------------------------------------------------------------------

Call(x) == \/ \E t \in Tasks : Submit(x, t) \/ Cancel(x, t) \/ Discard(x, t)
           \/ Begin(x)

\* What an actor does by itself once it was called.
GoOn(a) ==
    \/ a \in Callers /\ (Enqueue(a) \/ Release(a) \/ Forget(a) \/ NotifyCancelled(a))
    \/ TakeCycle(a) \/ StopCycle(a) \/ Join(a)
    \/ /\ a \in Workers
       /\ \/ Sleep(a) \/ Leave(a) \/ \E t \in Tasks : Take(a, t)
          \/ Look(a) \/ Start(a) \/ RunEnds(a) \/ Count(a) \/ FreeSlot(a) \/ Resolve(a)

Next == \/ \E x \in Callers : Call(x)
        \/ \E a \in Actors : CallShutdown(a) \/ GoOn(a)

Spec == Init /\ [][Next]_vars

\* Threads are scheduled and tasks end; nobody has to call anything.
FairSpec == Spec /\ \A a \in Actors : WF_vars(GoOn(a))

-----------------------------------------------------------------------------
(* Properties. *)

\* However a cancel, a replacement, a discard, a shutdown and a thread race for a
\* task, its future is resolved by one of them only: no call on it ever finds it in
\* a state that makes it raise (forget_if_cancelled, submit, _execute).
FuturesIntact == \A t \in Tasks : future[t] # "broken"

\* A task is counted once, before whoever waits for its end is released, and what
\* is counted is what happened to it (enqueue, forget_if_cancelled, _finish).
CountedOnce ==
    \A t \in Tasks :
        /\ outcome[t] # "twice"
        /\ future[t] = "finished" => outcome[t] \in {"completed", "failed"}
        /\ outcome[t] \in {"canceled", "replaced"} => future[t] \in {"pending", "cancelled", "notified"}

\* The pool never holds more unfinished tasks than its share, replacements and
\* cancelled tasks included (enqueue, pending).
ShareRespected == \A c \in Cycles : Cardinality(Queue(c)) + running[c] <= PoolLimit

\* At most one task of a pool waits under a replace_key, wherever in the queue the
\* one it replaces was (waiting_index, enqueue).
OneWaitsPerKey ==
    \A t, u \in waiting : KeyOf[t] # NoKey /\ KeyOf[t] = KeyOf[u] /\ cycleOf[t] = cycleOf[u] => t = u

\* In the first cycle of a process background_executor_pending says how many tasks
\* were accepted and are not counted as finished.
GaugeExact == begun = 1 => gauge = Cardinality({t \in Tasks : /\ future[t] \notin {"none", "dropped"}
                                                              /\ outcome[t] = "none"})

\* Whoever waits for the future of an accepted task is released in the end: it ran,
\* or it was cancelled, replaced, discarded or shut down.
WaitersReleased ==
    \A t \in Tasks \ SelfStops : future[t] = "pending" ~> future[t] \in {"notified", "finished"}

\* The queue of a pool stays within its rules in every interleaving of submits, replacements,
\* cancellations and threads: the share, one task per key, and a gauge that counts what is unfinished.
PoolIsBounded == TypeOK /\ ShareRespected /\ OneWaitsPerKey /\ GaugeExact
=============================================================================
