---------------------- MODULE BackgroundExecutorProofs ----------------------
(***************************************************************************)
(* Every task of the executor has one owner at a time, who counts it and   *)
(* resolves its future: the queue, the thread that took it, the submit     *)
(* that replaced it or the callback that took it out.                      *)
(***************************************************************************)
EXTENDS BackgroundExecutor, TLAPS

CallerSteps == {"idle", "enqueue", "release", "forget", "notify", "lock", "stop", "join"}
HoldingSteps == {"took", "start", "run", "lock", "stop", "join", "count", "slot", "resolve"}
FreeSteps == {"loop", "sleep", "exit"}

\* The part of the types the argument uses.
Shape ==
    /\ begun \in Nat
    /\ waiting \subseteq Tasks
    /\ heir \in [Tasks -> Tasks \cup {NoTask}]
    /\ cycleOf \in [Tasks -> Nat] /\ cycle \in Nat
    /\ future \in [Tasks -> {"none", "dropped", "pending", "running", "cancelled", "notified", "finished"}]
    /\ outcome \in [Tasks -> {"none", "completed", "failed", "canceled", "replaced"}]
    /\ DOMAIN pc = Actors /\ DOMAIN task = Actors /\ DOMAIN end = Actors
    /\ \A x \in Callers : pc[x] \in CallerSteps
    /\ \A x \in Callers : pc[x] \in {"enqueue", "release", "forget", "notify"} => task[x] \in Tasks
    /\ \A w \in Workers : \/ pc[w] \in HoldingSteps /\ task[w] \in Tasks
                          \/ pc[w] \in FreeSteps /\ task[w] = NoTask
    /\ \A w \in Workers : w[1] > begun => pc[w] = "exit"

\* A task nobody counted waits in the queue, and only there.
QueueOwns ==
    \A t \in waiting : /\ future[t] \in {"pending", "cancelled"}
                       /\ outcome[t] = "none" /\ heir[t] = NoTask

\* The thread that took a task is alone with it, and where it stands says what the
\* future and the count are.
ThreadOwns ==
    /\ \A v, w \in Workers : task[v] = task[w] /\ task[w] \in Tasks => v = w
    /\ \A w \in Workers :
          LET t == task[w]
          IN  pc[w] \in HoldingSteps =>
                /\ t \notin waiting /\ heir[t] = NoTask
                /\ pc[w] \in {"took", "start"} => future[t] \in {"pending", "cancelled"} /\ outcome[t] = "none"
                /\ pc[w] \in {"run", "lock", "stop", "join"} => future[t] = "running" /\ outcome[t] = "none"
                /\ pc[w] = "count" => outcome[t] = "none"
                /\ pc[w] = "resolve" => end[w] # "told"
                /\ pc[w] \in {"count", "slot", "resolve"} =>
                      /\ end[w] \in {"completed", "failed", "canceled", "told"}
                      /\ end[w] \in {"completed", "failed"} => future[t] = "running"
                      /\ end[w] = "canceled" => future[t] = "cancelled"
                      /\ end[w] = "told" => future[t] = "notified"
                /\ pc[w] \in {"slot", "resolve"} => outcome[t] = IF end[w] = "told" THEN "canceled" ELSE end[w]

\* A replaced task is counted and out of the queue; the submit that replaced it is
\* the only one to resolve its future.
SubmitOwns ==
    /\ \A o \in Tasks : heir[o] # NoTask => /\ outcome[o] \in {"canceled", "replaced"}
                                            /\ future[o] \in {"pending", "cancelled", "notified"}
                                            /\ future[heir[o]] # "none"
    /\ \A o, p \in Tasks : heir[o] = heir[p] /\ heir[o] # NoTask => o = p
    /\ \A x \in Callers, o \in Tasks :
          pc[x] = "release" /\ heir[o] = task[x] => future[o] \in {"pending", "cancelled"}
    /\ \A x, y \in Callers :
          pc[x] \in {"enqueue", "release"} /\ pc[y] \in {"enqueue", "release"} /\ task[x] = task[y] => x = y
    /\ \A x \in Callers : pc[x] = "enqueue" => future[task[x]] = "none" /\ cycleOf[task[x]] # 0
    /\ \A x \in Callers : pc[x] = "release" => future[task[x]] # "none"

\* The callback of a cancelled future runs once; after it took the task out of the
\* queue it is the only one to resolve it.
CallbackOwns ==
    /\ \A x \in Callers : pc[x] = "forget" => future[task[x]] \in {"cancelled", "notified"}
    /\ \A x \in Callers : pc[x] = "notify" =>
          /\ future[task[x]] = "cancelled" /\ outcome[task[x]] = "canceled"
          /\ heir[task[x]] = NoTask
          /\ \A w \in Workers : task[w] # task[x]
    /\ \A x, y \in Callers :
          pc[x] \in {"forget", "notify"} /\ pc[y] \in {"forget", "notify"} /\ task[x] = task[y] => x = y

\* What is counted agrees with the future.
CountAgrees ==
    \A t \in Tasks :
        /\ cycleOf[t] = 0 => future[t] = "none"
        /\ future[t] \in {"none", "dropped"} => outcome[t] = "none"
        /\ future[t] = "finished" => outcome[t] \in {"completed", "failed"}
        /\ outcome[t] \in {"canceled", "replaced"} => future[t] \in {"pending", "cancelled", "notified"}

ExecutorInv == Shape /\ QueueOwns /\ ThreadOwns /\ SubmitOwns /\ CallbackOwns /\ CountAgrees

-----------------------------------------------------------------------------

\* A step outside a submit disturbs none of them, as long as the futures it resolves
\* and the tasks it counts were not replaced.
LEMMA SubmitsKept ==
    ASSUME Shape, SubmitOwns, UNCHANGED <<heir, cycleOf>>,
           \A x \in Callers : pc'[x] \in {"enqueue", "release"} => pc'[x] = pc[x] /\ task'[x] = task[x],
           \A t \in Tasks : \/ future'[t] = future[t] /\ outcome'[t] = outcome[t]
                            \/ heir[t] = NoTask /\ (future'[t] = "none" <=> future[t] = "none")
    PROVE  SubmitOwns'
<1>1. \A x \in Callers : pc[x] \in {"enqueue", "release"} => task[x] \in Tasks
  BY DEF Shape
<1>2. \A o \in Tasks : heir[o] \in Tasks \cup {NoTask}
  BY DEF Shape
<1>3. NoTask \notin Tasks
  BY ExecutorAssumption
<1> QED
  BY <1>1, <1>2, <1>3 DEF SubmitOwns

\* Nor the callbacks, when it touches no future.
LEMMA CallbacksUntouched ==
    ASSUME CallbackOwns, UNCHANGED <<heir, future, outcome, task>>,
           \A x \in Callers : pc'[x] \in {"forget", "notify"} => pc'[x] = pc[x]
    PROVE  CallbackOwns'
  BY DEF CallbackOwns

\* Or when what it resolves was not cancelled.
LEMMA CallbacksBeside ==
    ASSUME Shape, CallbackOwns, UNCHANGED <<heir, task>>,
           \A x \in Callers : pc'[x] \in {"forget", "notify"} => pc'[x] = pc[x],
           \A t \in Tasks : \/ future'[t] = future[t] /\ outcome'[t] = outcome[t]
                            \/ future[t] = "pending"
    PROVE  CallbackOwns'
<1>1. \A x \in Callers : pc[x] \in {"forget", "notify"} => task[x] \in Tasks
  BY DEF Shape
<1> QED
  BY <1>1 DEF CallbackOwns

\* Or when it is a thread's own task, which stays cancelled.
LEMMA CallbacksKept ==
    ASSUME Shape, CallbackOwns, NEW w \in Workers, UNCHANGED heir,
           \A x \in Callers : pc'[x] = pc[x] /\ task'[x] = task[x],
           \A v \in Workers : task'[v] \in {task[v], NoTask},
           \A t \in Tasks : t # task[w] => future'[t] = future[t] /\ outcome'[t] = outcome[t],
           future[task[w]] \in {"cancelled", "notified"} => future'[task[w]] \in {"cancelled", "notified"}
    PROVE  CallbackOwns'
<1>1. \A x \in Callers : pc[x] \in {"forget", "notify"} => task[x] \in Tasks
  BY DEF Shape
<1>2. NoTask \notin Tasks
  BY ExecutorAssumption
<1> QED
  BY <1>1, <1>2 DEF CallbackOwns

\* submit makes a new task; nobody else has it.
LEMMA SubmitStep ==
    ASSUME ExecutorInv, NEW x \in Callers, NEW t \in Tasks, Submit(x, t) PROVE ExecutorInv'
<1> USE ExecutorAssumption DEF Actors, CallerSteps, HoldingSteps, FreeSteps, ExecutorInv, Submit,
       countVars
<1>1. Shape'
  BY DEF Shape, cycleVars, GoTo
<1>2. QueueOwns'
  BY DEF QueueOwns
<1>3. ThreadOwns'
  BY DEF ThreadOwns, GoTo
<1>4. SubmitOwns'
  BY DEF Shape, SubmitOwns, CountAgrees, GoTo
<1>5. CallbackOwns'
  BY DEF CallbackOwns, GoTo
<1>6. CountAgrees'
  BY DEF CountAgrees
<1> QED
  BY <1>1, <1>2, <1>3, <1>4, <1>5, <1>6

\* A dropped task never had an owner.
LEMMA DropStep ==
    ASSUME ExecutorInv, NEW x \in Callers,
            pc[x] = "enqueue", Drop(x), UNCHANGED <<cycleVars, cycleOf, running, end>>
    PROVE  ExecutorInv'
<1> USE ExecutorAssumption DEF Actors, CallerSteps, HoldingSteps, FreeSteps, ExecutorInv, Drop,
       countVars, SetFuture
<1>1. Shape'
  BY DEF Shape, cycleVars, GoTo, LetGo
<1>2. QueueOwns'
  BY DEF QueueOwns, SubmitOwns
<1>3. ThreadOwns'
  BY DEF ThreadOwns, SubmitOwns, GoTo, LetGo
<1>4. SubmitOwns'
  BY DEF Shape, SubmitOwns, GoTo, LetGo
<1>5. CallbackOwns'
  BY DEF SubmitOwns, CallbackOwns, GoTo, LetGo
<1>6. CountAgrees'
  BY DEF SubmitOwns, CountAgrees
<1> QED
  BY <1>1, <1>2, <1>3, <1>4, <1>5, <1>6

\* The place of a waiting task, and the task, pass to the submit that replaces it.
LEMMA ReplaceStep ==
    ASSUME ExecutorInv, NEW x \in Callers,
            NEW old \in Under(task[x]), pc[x] = "enqueue", Replace(x, old), UNCHANGED <<cycleVars, cycleOf, running, end>>
    PROVE  ExecutorInv'
<1> USE ExecutorAssumption DEF Actors, CallerSteps, HoldingSteps, FreeSteps, ExecutorInv, Replace,
       Under, Queue, Tally, SetFuture
<1>1. Shape'
  BY DEF Shape, QueueOwns, cycleVars, GoTo
<1>2. QueueOwns'
  BY DEF Shape, QueueOwns, SubmitOwns, CountAgrees
<1>3. ThreadOwns'
  BY DEF Shape, ThreadOwns, SubmitOwns, GoTo
<1>4. SubmitOwns'
  BY DEF Shape, QueueOwns, SubmitOwns, GoTo
<1>5. CallbackOwns'
  BY DEF Shape, QueueOwns, SubmitOwns, CallbackOwns, GoTo
<1>6. CountAgrees'
  BY DEF Shape, QueueOwns, CountAgrees
<1> QED
  BY <1>1, <1>2, <1>3, <1>4, <1>5, <1>6

\* A task that is appended is owned by the queue; the thread that is woken has none.
LEMMA AppendStep ==
    ASSUME ExecutorInv, NEW x \in Callers,
            pc[x] = "enqueue", AppendTo(x), UNCHANGED <<cycleVars, cycleOf, running, end>>
    PROVE  ExecutorInv'
<1> USE ExecutorAssumption DEF Actors, CallerSteps, HoldingSteps, FreeSteps, ExecutorInv, AppendTo,
       SetFuture
<1>1. Shape'
  BY DEF Shape, cycleVars, GoTo, LetGo
<1>2. QueueOwns'
  BY DEF Shape, QueueOwns, SubmitOwns, CountAgrees
<1>3. ThreadOwns'
  BY DEF Shape, ThreadOwns, SubmitOwns, GoTo, LetGo
<1>4. SubmitOwns'
  BY DEF Shape, SubmitOwns, GoTo, LetGo
<1>5. CallbackOwns'
  BY DEF Shape, SubmitOwns, CallbackOwns, GoTo, LetGo
<1>6. CountAgrees'
  BY DEF SubmitOwns, CountAgrees
<1> QED
  BY <1>1, <1>2, <1>3, <1>4, <1>5, <1>6

\* The submit that replaced a task resolves its future.
LEMMA ReleaseStep ==
    ASSUME ExecutorInv, NEW x \in Callers, Release(x) PROVE ExecutorInv'
<1> USE ExecutorAssumption DEF Actors, CallerSteps, HoldingSteps, FreeSteps, ExecutorInv, Release,
       queueVars, countVars, SetFuture
<1>1. Shape'
  BY DEF Shape, SubmitOwns, Notified, cycleVars, GoTo, LetGo
<1>2. QueueOwns'
  BY DEF Shape, QueueOwns
<1>3. ThreadOwns'
  BY DEF Shape, ThreadOwns, GoTo, LetGo
<1>4. SubmitOwns'
  BY DEF Shape, SubmitOwns, Notified, GoTo, LetGo
<1>5. CallbackOwns'
  BY DEF Shape, SubmitOwns, CallbackOwns, Notified, GoTo, LetGo
<1>6. CountAgrees'
  BY DEF SubmitOwns, CountAgrees, Notified
<1> QED
  BY <1>1, <1>2, <1>3, <1>4, <1>5, <1>6

\* A cancel changes no owner; the callback is the only one about this task.
LEMMA CancelStep ==
    ASSUME ExecutorInv, NEW x \in Callers, NEW t \in Tasks, Cancel(x, t) PROVE ExecutorInv'
<1> USE ExecutorAssumption DEF Actors, CallerSteps, HoldingSteps, FreeSteps, ExecutorInv, Cancel,
       queueVars, countVars, SetFuture
<1>1. Shape'
  BY DEF Shape, cycleVars, GoTo
<1>2. QueueOwns'
  BY DEF QueueOwns
<1>3. ThreadOwns'
  BY DEF ThreadOwns, GoTo
<1>4. SubmitOwns'
  BY DEF SubmitOwns, GoTo
<1>5. CallbackOwns'
  BY DEF Shape, CallbackOwns, GoTo
<1>6. CountAgrees'
  BY DEF CountAgrees
<1> QED
  BY <1>1, <1>2, <1>3, <1>4, <1>5, <1>6

\* The callback becomes the owner of a task that still waits, and of no other.
LEMMA ForgetStep ==
    ASSUME ExecutorInv, NEW x \in Callers, Forget(x) PROVE ExecutorInv'
<1> USE ExecutorAssumption DEF Actors, CallerSteps, HoldingSteps, FreeSteps, ExecutorInv, Forget,
       CountOut, Tally, countVars
<1>1. Shape'
  BY DEF Shape, QueueOwns, StillQueued, cycleVars, GoTo, LetGo
<1>2. QueueOwns'
  BY DEF Shape, QueueOwns
<1>3. ThreadOwns'
  BY DEF Shape, ThreadOwns, StillQueued, GoTo, LetGo
<1>4. SubmitOwns'
  BY DEF Shape, SubmitOwns, StillQueued, GoTo, LetGo
<1>5. CallbackOwns'
  BY DEF Shape, QueueOwns, ThreadOwns, CallbackOwns, StillQueued, GoTo, LetGo
<1>6. CountAgrees'
  BY DEF QueueOwns, CountAgrees, StillQueued
<1> QED
  BY <1>1, <1>2, <1>3, <1>4, <1>5, <1>6

\* The callback resolves the future.
LEMMA NotifyStep ==
    ASSUME ExecutorInv, NEW x \in Callers, NotifyCancelled(x) PROVE ExecutorInv'
<1> USE ExecutorAssumption DEF Actors, CallerSteps, HoldingSteps, FreeSteps, ExecutorInv,
       NotifyCancelled, queueVars, countVars, SetFuture
<1>1. Shape'
  BY DEF Shape, CallbackOwns, Notified, cycleVars, GoTo, LetGo
<1>2. QueueOwns'
  BY DEF QueueOwns, CallbackOwns
<1>3. ThreadOwns'
  BY DEF ThreadOwns, CallbackOwns, GoTo, LetGo
<1>4. SubmitOwns'
  BY DEF Shape, SubmitOwns, CallbackOwns, Notified, GoTo, LetGo
<1>5. CallbackOwns'
  BY DEF Shape, CallbackOwns, GoTo, LetGo
<1>6. CountAgrees'
  BY DEF CallbackOwns, CountAgrees, Notified
<1> QED
  BY <1>1, <1>2, <1>3, <1>4, <1>5, <1>6

\* discard takes a task from the queue and resolves it under the lock.
LEMMA DiscardStep ==
    ASSUME ExecutorInv, NEW x \in Callers, NEW t \in Tasks, Discard(x, t) PROVE ExecutorInv'
<1> USE ExecutorAssumption DEF Actors, CallerSteps, HoldingSteps, FreeSteps, ExecutorInv, Discard,
       CancelQueued, CountOut, Tally
<1>1. Shape'
  BY DEF Shape, QueueOwns, Notified, cycleVars, actorVars
<1>2. QueueOwns'
  BY DEF Shape, QueueOwns
<1>3. ThreadOwns'
  BY DEF Shape, ThreadOwns, actorVars
<1>4. SubmitOwns'
  BY DEF Shape, QueueOwns, SubmitOwns, Notified, actorVars
<1>5. CallbackOwns'
  BY DEF Shape, CallbackOwns, actorVars
<1>6. CountAgrees'
  BY DEF CountAgrees, Notified
<1> QED
  BY <1>1, <1>2, <1>3, <1>4, <1>5, <1>6

\* A thread without a task sleeps or ends.
LEMMA RestStep ==
    ASSUME ExecutorInv, NEW w \in Workers, Sleep(w) \/ Leave(w) PROVE ExecutorInv'
<1> USE ExecutorAssumption DEF Actors, CallerSteps, HoldingSteps, FreeSteps, ExecutorInv, Sleep,
       Leave, queueVars, countVars
<1>1. Shape'
  BY ZenonT(60) DEF Shape, cycleVars, GoTo
<1>2. QueueOwns'
  BY DEF QueueOwns
<1>3. ThreadOwns'
  <2>1. /\ UNCHANGED <<waiting, heir, future, outcome, task, end>>
        /\ \A v \in Workers : pc'[v] \in HoldingSteps => pc'[v] = pc[v]
    BY DEF Shape, GoTo
  <2> QED
    BY ZenonT(60), <2>1 DEF ThreadOwns
<1>4. SubmitOwns'
  BY DEF Shape, SubmitOwns, GoTo
<1>5. CallbackOwns'
  BY DEF Shape, CallbackOwns, GoTo
<1>6. CountAgrees'
  BY DEF CountAgrees
<1> QED
  BY <1>1, <1>2, <1>3, <1>4, <1>5, <1>6

\* A task passes from the queue to one thread.
LEMMA TakeStep ==
    ASSUME ExecutorInv, NEW w \in Workers, NEW t \in Tasks, Take(w, t) PROVE ExecutorInv'
<1> USE ExecutorAssumption DEF Actors, CallerSteps, HoldingSteps, FreeSteps, ExecutorInv, Take,
       countVars
<1>1. Shape'
  BY DEF Shape, cycleVars, GoTo
<1>2. QueueOwns'
  BY DEF QueueOwns
<1>3. ThreadOwns'
  <2>1. /\ t \in waiting /\ waiting' = waiting \ {t} /\ future[t] \in {"pending", "cancelled"}
        /\ outcome[t] = "none" /\ heir[t] = NoTask
    BY DEF QueueOwns, IsFirst, Queue
  <2>2. /\ UNCHANGED <<heir, future, outcome, end>> /\ pc'[w] = "took" /\ task'[w] = t
        /\ \A v \in Workers : v # w => pc'[v] = pc[v] /\ task'[v] = task[v]
    BY DEF Shape, GoTo
  <2>3. \A v \in Workers : task[v] \in Tasks => pc[v] \in HoldingSteps /\ task[v] \notin waiting
    BY DEF Shape, ThreadOwns
  <2>4. \A v, u \in Workers : task'[v] = task'[u] /\ task'[u] \in Tasks => v = u
    <3>1. \A v, u \in Workers : task[v] = task[u] /\ task[u] \in Tasks => v = u
      BY ZenonT(60) DEF ThreadOwns
    <3> QED
      BY ONLY <2>1, <2>2, <2>3, <3>1
  <2> QED
    BY ONLY <2>1, <2>2, <2>4, ThreadOwns DEF ThreadOwns, HoldingSteps
<1>4. SubmitOwns'
  <2>1. UNCHANGED <<heir, cycleOf, future, outcome>> /\ \A x \in Callers : pc'[x] = pc[x] /\ task'[x] = task[x]
    BY DEF Shape, GoTo
  <2> QED
    BY <2>1, SubmitsKept
<1>5. CallbackOwns'
  BY DEF QueueOwns, CallbackOwns, IsFirst, Queue, GoTo
<1>6. CountAgrees'
  BY DEF CountAgrees
<1> QED
  BY <1>1, <1>2, <1>3, <1>4, <1>5, <1>6

\* A cancelled task is not started.
LEMMA LookStep ==
    ASSUME ExecutorInv, NEW w \in Workers, Look(w) PROVE ExecutorInv'
<1> USE ExecutorAssumption DEF Actors, CallerSteps, HoldingSteps, FreeSteps, ExecutorInv, Look,
       queueVars, countVars
<1>1. Shape'
  BY DEF Shape, cycleVars, GoTo
<1>2. QueueOwns'
  BY DEF QueueOwns
<1>3. ThreadOwns'
  BY DEF Shape, ThreadOwns, GoTo
<1>4. SubmitOwns'
  BY DEF Shape, SubmitOwns, GoTo
<1>5. CallbackOwns'
  BY DEF Shape, CallbackOwns, GoTo
<1>6. CountAgrees'
  BY DEF CountAgrees
<1> QED
  BY <1>1, <1>2, <1>3, <1>4, <1>5, <1>6

\* The future tells whether the task was cancelled since.
LEMMA StartStep ==
    ASSUME ExecutorInv, NEW w \in Workers, Start(w) PROVE ExecutorInv'
<1> USE ExecutorAssumption DEF Actors, CallerSteps, HoldingSteps, FreeSteps, ExecutorInv, Start,
       queueVars, countVars, SetFuture
<1>1. Shape'
  BY DEF Shape, ThreadOwns, Notified, cycleVars, GoTo
<1>2. QueueOwns'
  BY DEF QueueOwns, ThreadOwns
<1>3. ThreadOwns'
  BY DEF Shape, ThreadOwns, Notified, GoTo
<1>4. SubmitOwns'
  BY DEF Shape, ThreadOwns, SubmitOwns, Notified, GoTo
<1>5. CallbackOwns'
  BY DEF Shape, ThreadOwns, CallbackOwns, Notified, GoTo
<1>6. CountAgrees'
  <2>1. /\ UNCHANGED <<cycleOf, outcome>> /\ task[w] \in Tasks /\ outcome[task[w]] = "none"
        /\ future'[task[w]] \in {"notified", "running"} /\ future[task[w]] \in {"pending", "cancelled"}
    BY DEF Shape, ThreadOwns, Notified
  <2>2. \A t \in Tasks : t # task[w] => future'[t] = future[t]
    BY DEF Shape
  <2>3. \A t \in Tasks : future[t] \in {"pending", "cancelled"} => cycleOf[t] # 0
    BY DEF CountAgrees
  <2> QED
    BY <2>1, <2>2, <2>3 DEF CountAgrees
<1> QED
  BY <1>1, <1>2, <1>3, <1>4, <1>5, <1>6

\* A task that ran ends.
LEMMA RunEndsStep ==
    ASSUME ExecutorInv, NEW w \in Workers, RunEnds(w) PROVE ExecutorInv'
<1> USE ExecutorAssumption DEF Actors, CallerSteps, HoldingSteps, FreeSteps, ExecutorInv, RunEnds,
       queueVars, countVars
<1>1. Shape'
  BY DEF Shape, cycleVars, GoTo
<1>2. QueueOwns'
  BY DEF QueueOwns
<1>3. ThreadOwns'
  BY DEF Shape, ThreadOwns, GoTo
<1>4. UNCHANGED <<heir, cycleOf, future, outcome>> /\ \A x \in Callers : pc'[x] = pc[x] /\ task'[x] = task[x]
  BY DEF Shape, GoTo
<1>5. SubmitOwns' /\ CallbackOwns'
  <2>1. UNCHANGED <<heir, future, outcome, task>>
    OBVIOUS
  <2>2. CallbackOwns
    OBVIOUS
  <2>3. CallbackOwns'
    BY ZenonT(60), <1>4, <2>1, <2>2, CallbacksUntouched
  <2>4. SubmitOwns'
    BY <1>4, SubmitsKept
  <2> QED
    BY <2>3, <2>4
<1>6. CountAgrees'
  BY DEF CountAgrees
<1> QED
  BY <1>1, <1>2, <1>3, <1>4, <1>5, <1>6

\* The thread counts its task.
LEMMA CountStep ==
    ASSUME ExecutorInv, NEW w \in Workers, Count(w) PROVE ExecutorInv'
<1> USE ExecutorAssumption DEF Actors, CallerSteps, HoldingSteps, FreeSteps, ExecutorInv, Count,
       CountOut, Tally, queueVars
<1>1. Shape'
  BY DEF Shape, ThreadOwns, cycleVars, GoTo
<1>2. QueueOwns'
  <2>1. UNCHANGED <<waiting, heir, future>> /\ task[w] \notin waiting /\ waiting \subseteq Tasks
    BY DEF Shape, ThreadOwns
  <2>2. \A t \in Tasks : t # task[w] => outcome'[t] = outcome[t]
    BY DEF Shape
  <2> QED
    BY ZenonT(60), <2>1, <2>2 DEF QueueOwns
<1>3. ThreadOwns'
  <2>1. /\ UNCHANGED <<waiting, heir, future, task, end>> /\ pc[w] = "count" /\ pc'[w] = "slot"
        /\ \A v \in Workers : v # w => pc'[v] = pc[v]
    BY DEF Shape, GoTo
  <2>2. task[w] \in Tasks /\ outcome[task[w]] = "none"
    BY DEF Shape, ThreadOwns
  <2>3. /\ outcome'[task[w]] = IF end[w] = "told" THEN "canceled" ELSE end[w]
        /\ \A t \in Tasks : t # task[w] => outcome'[t] = outcome[t]
    BY <2>2 DEF Shape
  <2>4. \A v \in Workers : v # w /\ pc[v] \in HoldingSteps => outcome'[task[v]] = outcome[task[v]]
    BY <2>2, <2>3 DEF Shape, ThreadOwns
  <2> QED
    BY ONLY <2>1, <2>3, <2>4, ThreadOwns DEF ThreadOwns, HoldingSteps
<1>4. SubmitOwns'
  <2>1. /\ UNCHANGED <<heir, cycleOf, future>> /\ task[w] \in Tasks /\ heir[task[w]] = NoTask
        /\ \A x \in Callers : pc'[x] = pc[x] /\ task'[x] = task[x]
    BY DEF Shape, ThreadOwns, GoTo
  <2>2. \A t \in Tasks : t # task[w] => outcome'[t] = outcome[t]
    BY DEF Shape
  <2> QED
    BY <2>1, <2>2, SubmitsKept
<1>5. CallbackOwns'
  BY ZenonT(60) DEF Shape, CallbackOwns, GoTo
<1>6. CountAgrees'
  <2>1. /\ UNCHANGED <<cycleOf, future>> /\ task[w] \in Tasks /\ outcome[task[w]] = "none"
        /\ end[w] \in {"completed", "failed", "canceled", "told"}
        /\ end[w] \in {"completed", "failed"} => future[task[w]] = "running"
        /\ end[w] = "canceled" => future[task[w]] = "cancelled"
        /\ end[w] = "told" => future[task[w]] = "notified"
    BY DEF Shape, ThreadOwns
  <2>2. /\ outcome'[task[w]] = IF end[w] = "told" THEN "canceled" ELSE end[w]
        /\ \A t \in Tasks : t # task[w] => outcome'[t] = outcome[t]
    BY <2>1 DEF Shape
  <2>3. \A t \in Tasks : \/ t # task[w] /\ outcome'[t] = outcome[t]
                         \/ /\ t = task[w] /\ future[t] \in {"running", "cancelled", "notified"}
                            /\ outcome'[t] \in {"completed", "failed", "canceled"}
                            /\ outcome'[t] = "canceled" => future[t] \in {"cancelled", "notified"}
    BY <2>1, <2>2
  <2> QED
    BY ZenonT(60), <2>1, <2>3 DEF CountAgrees
<1> QED
  BY <1>1, <1>2, <1>3, <1>4, <1>5, <1>6

\* The thread lets go of a task whose future was notified before.
LEMMA FreeSlotStep ==
    ASSUME ExecutorInv, NEW w \in Workers, FreeSlot(w) PROVE ExecutorInv'
<1> USE ExecutorAssumption DEF Actors, CallerSteps, HoldingSteps, FreeSteps, ExecutorInv, FreeSlot,
       queueVars, countVars
<1>1. Shape'
  BY DEF Shape, cycleVars, GoTo, LetGo
<1>2. QueueOwns'
  BY DEF QueueOwns
<1>3. ThreadOwns'
  BY DEF Shape, ThreadOwns, GoTo, LetGo
<1>4. SubmitOwns'
  BY DEF Shape, SubmitOwns, GoTo, LetGo
<1>5. CallbackOwns'
  BY DEF Shape, CallbackOwns, GoTo, LetGo
<1>6. CountAgrees'
  BY DEF CountAgrees
<1> QED
  BY <1>1, <1>2, <1>3, <1>4, <1>5, <1>6

\* The thread resolves the future of its task.
LEMMA ResolveStep ==
    ASSUME ExecutorInv, NEW w \in Workers, Resolve(w) PROVE ExecutorInv'
<1> USE ExecutorAssumption DEF Actors, CallerSteps, HoldingSteps, FreeSteps, ExecutorInv, Resolve,
       queueVars, countVars, SetFuture
<1>1. Shape'
  BY DEF Shape, ThreadOwns, Notified, Finished, cycleVars, GoTo, LetGo
<1>2. QueueOwns'
  <2>1. UNCHANGED <<waiting, heir, outcome>> /\ task[w] \notin waiting /\ waiting \subseteq Tasks
    BY DEF Shape, ThreadOwns
  <2>2. \A t \in Tasks : t # task[w] => future'[t] = future[t]
    BY DEF Shape
  <2> QED
    BY <2>1, <2>2 DEF QueueOwns
<1>3. ThreadOwns'
  BY DEF Shape, ThreadOwns, GoTo, LetGo
<1>a. /\ UNCHANGED <<heir, cycleOf, outcome>> /\ task[w] \in Tasks /\ heir[task[w]] = NoTask
      /\ \A x \in Callers : pc'[x] = pc[x] /\ task'[x] = task[x]
      /\ \A t \in Tasks : t # task[w] => future'[t] = future[t]
  BY DEF Shape, ThreadOwns, GoTo, LetGo
<1>b. /\ future'[task[w]] \in {"notified", "finished"} /\ future[task[w]] \in {"cancelled", "running"}
      /\ future[task[w]] = "cancelled" => future'[task[w]] = "notified"
  BY DEF Shape, ThreadOwns, Notified, Finished
<1>4. SubmitOwns'
  BY <1>a, <1>b, SubmitsKept
<1>5. CallbackOwns'
  <2>1. \A v \in Workers : task'[v] \in {task[v], NoTask}
    BY DEF Shape, LetGo
  <2>2. /\ \A t \in Tasks : t # task[w] => future'[t] = future[t] /\ outcome'[t] = outcome[t]
        /\ future[task[w]] \in {"cancelled", "notified"} => future'[task[w]] \in {"cancelled", "notified"}
    BY <1>a, <1>b
  <2> QED
    BY <1>a, <2>1, <2>2, CallbacksKept
<1>6. CountAgrees'
  <2>1. /\ UNCHANGED <<cycleOf, outcome>>
        /\ \A t \in Tasks : t # task[w] => future'[t] = future[t]
    BY DEF Shape
  <2>2. /\ task[w] \in Tasks /\ end[w] \in {"completed", "failed", "canceled"} /\ outcome[task[w]] = end[w]
        /\ end[w] \in {"completed", "failed"} => future[task[w]] = "running"
        /\ end[w] = "canceled" => future[task[w]] = "cancelled"
    BY DEF Shape, ThreadOwns
  <2>3. /\ end[w] \in {"completed", "failed"} => future'[task[w]] = "finished"
        /\ end[w] = "canceled" => future'[task[w]] = "notified"
    BY <2>2 DEF Shape, Notified, Finished
  <2> QED
    BY ZenonT(60), <2>1, <2>2, <2>3 DEF CountAgrees
<1> QED
  BY ZenonT(60), <1>1, <1>2, <1>3, <1>4, <1>5, <1>6

\* The threads of a new cycle have no tasks.
LEMMA BeginStep ==
    ASSUME ExecutorInv, NEW x \in Callers, Begin(x) PROVE ExecutorInv'
<1> USE ExecutorAssumption DEF Actors, CallerSteps, HoldingSteps, FreeSteps, ExecutorInv, Begin,
       queueVars
<1>1. Shape'
  <2>1. /\ begun' \in Nat /\ cycle' \in Nat
        /\ \A w \in Workers : w[1] > begun' => w[1] > begun /\ w[1] # begun + 1
    BY DEF Shape, Workers, Cycles
  <2>2. /\ UNCHANGED <<waiting, heir, cycleOf, future, outcome, task, end>> /\ DOMAIN pc' = Actors
        /\ \A y \in Callers : pc'[y] = pc[y]
        /\ \A w \in Workers : pc'[w] = IF w[1] = begun + 1 THEN "loop" ELSE pc[w]
    OBVIOUS
  <2>3. \A w \in Workers : w[1] = begun + 1 => pc[w] = "exit" /\ task[w] = NoTask
    BY DEF Shape, Workers, Cycles
  <2> QED
    BY ZenonT(60), <2>1, <2>2, <2>3 DEF Shape
<1>2. QueueOwns'
  BY ZenonT(60) DEF QueueOwns
<1>3. ThreadOwns'
  BY ZenonT(60) DEF ThreadOwns
<1>4. SubmitOwns'
  <2>1. UNCHANGED <<heir, cycleOf, future, outcome, task>> /\ \A y \in Callers : pc'[y] = pc[y]
    BY DEF Shape
  <2> QED
    BY <2>1, SubmitsKept
<1>5. CallbackOwns'
  BY DEF CallbackOwns
<1>6. CountAgrees'
  BY DEF CountAgrees
<1> QED
  BY ZenonT(60), <1>1, <1>2, <1>3, <1>4, <1>5, <1>6

\* The task of a thread that calls shutdown goes on running.
LEMMA ShutdownStep ==
    ASSUME ExecutorInv, NEW a \in Actors,
            CallShutdown(a) \/ TakeCycle(a) \/ Join(a)
    PROVE  ExecutorInv'
<1>0. Shape /\ QueueOwns /\ ThreadOwns /\ SubmitOwns /\ CallbackOwns /\ CountAgrees
  BY DEF ExecutorInv
<1>1. /\ UNCHANGED <<waiting, cycleOf, heir, future, outcome, task, end>>
      /\ begun' = begun /\ cycle' \in {cycle, 0}
  BY ZenonT(60) DEF CallShutdown, TakeCycle, Join, Return, queueVars, countVars, cycleVars
<1>2. \E step \in {"idle", "run", "lock", "stop"} :
         /\ pc' = [pc EXCEPT ![a] = step]
         /\ a \in Callers => pc[a] \in {"idle", "lock", "join"} /\ step # "run"
         /\ a \notin Callers => pc[a] \in {"run", "lock", "join"} /\ step # "idle"
  <2>1. CASE CallShutdown(a)
    BY ZenonT(60), <2>1, ExecutorAssumption DEF CallShutdown, GoTo
  <2>2. CASE TakeCycle(a)
    BY <2>2 DEF TakeCycle, Return, GoTo
  <2>3. CASE Join(a)
    BY ZenonT(60), <2>3 DEF Join, Return, GoTo
  <2> QED
    BY <2>1, <2>2, <2>3
<1>3. /\ DOMAIN pc' = Actors
      /\ \A x \in Callers : pc'[x] = pc[x] \/ pc'[x] \in {"idle", "lock", "stop"}
      /\ \A w \in Workers : \/ pc'[w] = pc[w]
                            \/ pc[w] \in {"run", "lock", "join"} /\ pc'[w] \in {"run", "lock", "stop"}
  <2>1. DOMAIN pc = Actors /\ Callers \cap Workers = {} /\ Callers \subseteq Actors /\ Workers \subseteq Actors
    BY <1>0, ExecutorAssumption DEF Shape, Actors
  <2> QED
    BY <1>2, <2>1
<1>4. Shape'
  <2>1. /\ \A x \in Callers : pc'[x] \in CallerSteps
        /\ \A x \in Callers : pc'[x] \in {"enqueue", "release", "forget", "notify"} => task'[x] \in Tasks
    BY <1>0, <1>1, <1>3 DEF Shape, CallerSteps
  <2>2. \A w \in Workers : /\ \/ pc'[w] \in HoldingSteps /\ task'[w] \in Tasks
                              \/ pc'[w] \in FreeSteps /\ task'[w] = NoTask
                           /\ w[1] > begun' => pc'[w] = "exit"
    BY <1>0, <1>1, <1>3 DEF Shape, HoldingSteps, FreeSteps
  <2> QED
    BY <1>0, <1>1, <1>3, <2>1, <2>2 DEF Shape
<1>5. QueueOwns'
  BY ZenonT(60), <1>0, <1>1 DEF QueueOwns
<1>6. ThreadOwns'
  <2>1. \A v, w \in Workers : task'[v] = task'[w] /\ task'[w] \in Tasks => v = w
    BY ZenonT(60), <1>0, <1>1 DEF ThreadOwns
  <2>2. ASSUME NEW w \in Workers, pc'[w] # pc[w]
        PROVE  /\ pc[w] \in HoldingSteps /\ pc'[w] \in {"run", "lock", "stop"}
               /\ task[w] \notin waiting /\ heir[task[w]] = NoTask
               /\ future[task[w]] = "running" /\ outcome[task[w]] = "none"
    BY <1>0, <1>3, <2>2 DEF ThreadOwns, HoldingSteps
  <2> QED
    BY ZenonT(60), <1>0, <1>1, <2>1, <2>2 DEF ThreadOwns
<1>7. SubmitOwns'
  BY <1>0, <1>1, <1>3, SubmitsKept
<1>8. CallbackOwns'
  <2>1. \A x \in Callers : pc'[x] \in {"forget", "notify"} => pc'[x] = pc[x]
    BY <1>3
  <2>2. UNCHANGED <<heir, future, outcome, task>>
    BY <1>1
  <2> QED
    BY ZenonT(60), <1>0, <2>1, <2>2, CallbacksUntouched
<1>9. CountAgrees'
  BY ZenonT(60), <1>0, <1>1 DEF CountAgrees
<1> QED
  BY ZenonT(60), <1>4, <1>5, <1>6, <1>7, <1>8, <1>9 DEF ExecutorInv

\* shutdown takes the tasks from the queue and resolves them under the lock.
LEMMA StopStep ==
    ASSUME ExecutorInv, NEW a \in Actors, StopCycle(a) PROVE ExecutorInv'
<1> DEFINE hit == {t \in Queue(closing) : future[t] = "pending"}
<1> USE ExecutorAssumption DEF ExecutorInv
<1>1. /\ hit \subseteq waiting /\ waiting' = waiting \ hit
      /\ future' = [t \in Tasks |-> IF t \in hit THEN "notified" ELSE future[t]]
      /\ outcome' = [t \in Tasks |-> IF t \notin hit THEN outcome[t] ELSE IF outcome[t] = "none" THEN "canceled" ELSE "twice"]
      /\ UNCHANGED <<cycle, begun, cycleOf, heir, task, end>>
  BY DEF StopCycle, CancelQueued, CountOut, Tally, Notified, Queue
<1>2. \A t \in hit : t \in Tasks /\ future[t] = "pending" /\ outcome[t] = "none" /\ heir[t] = NoTask
  BY DEF Shape, QueueOwns, Queue
<1>3. /\ DOMAIN pc' = Actors
      /\ \A x \in Callers : pc'[x] = pc[x] \/ (pc[x] = "stop" /\ pc'[x] = "join")
      /\ \A w \in Workers : \/ pc'[w] = pc[w]
                            \/ pc[w] = "stop" /\ pc'[w] = "join"
                            \/ pc[w] = "sleep" /\ pc'[w] = "loop"
  <2>1. \A x \in Callers : pc[x] # "sleep"
    BY DEF Shape, CallerSteps
  <2> QED
    BY <2>1 DEF StopCycle, Actors
<1> HIDE DEF hit
<1>4. Shape'
  <2>1. /\ \A x \in Callers : pc'[x] \in CallerSteps
        /\ \A x \in Callers : pc'[x] \in {"enqueue", "release", "forget", "notify"} => task'[x] \in Tasks
    BY <1>1, <1>3 DEF Shape, CallerSteps
  <2>2. \A w \in Workers : /\ \/ pc'[w] \in HoldingSteps /\ task'[w] \in Tasks
                              \/ pc'[w] \in FreeSteps /\ task'[w] = NoTask
                           /\ w[1] > begun' => pc'[w] = "exit"
    BY <1>1, <1>3 DEF Shape, HoldingSteps, FreeSteps
  <2> QED
    BY <1>1, <1>2, <1>3, <2>1, <2>2 DEF Shape
<1>5. QueueOwns'
  BY <1>1 DEF Shape, QueueOwns
<1>6. ThreadOwns'
  <2>1. \A w \in Workers : pc'[w] \in HoldingSteps => pc[w] \in HoldingSteps /\ task[w] \in Tasks /\ task[w] \notin hit
    <3>1. \A w \in Workers : pc'[w] \in HoldingSteps => pc[w] \in HoldingSteps
      BY <1>3 DEF HoldingSteps
    <3>2. HoldingSteps \cap FreeSteps = {}
      BY DEF HoldingSteps, FreeSteps
    <3>3. \A w \in Workers : pc[w] \in HoldingSteps => task[w] \in Tasks
      BY ZenonT(60), <3>2 DEF Shape
    <3>4. \A w \in Workers : pc[w] \in HoldingSteps => task[w] \notin waiting
      BY ZenonT(60) DEF ThreadOwns
    <3> QED
      BY ZenonT(60), <1>1, <3>1, <3>3, <3>4
  <2>2. \A w \in Workers : pc'[w] \in HoldingSteps => pc'[w] = pc[w] \/ (pc[w] = "stop" /\ pc'[w] = "join")
    BY <1>3 DEF HoldingSteps
  <2>3. \A w \in Workers : pc'[w] \in HoldingSteps => /\ future'[task[w]] = future[task[w]]
                                                      /\ outcome'[task[w]] = outcome[task[w]]
    BY ZenonT(60), <1>1, <2>1
  <2>4. \A v, w \in Workers : task'[v] = task'[w] /\ task'[w] \in Tasks => v = w
    BY ZenonT(60), <1>1 DEF ThreadOwns
  <2>5. \A w \in Workers : pc'[w] \in HoldingSteps => task'[w] \notin waiting' /\ heir'[task'[w]] = NoTask
    BY ZenonT(60), <1>1, <2>1 DEF ThreadOwns
  <2>6. \A w \in Workers : pc'[w] \in HoldingSteps =>
           LET t == task[w]
           IN  /\ pc'[w] \in {"took", "start"} => future[t] \in {"pending", "cancelled"} /\ outcome[t] = "none"
               /\ pc'[w] \in {"run", "lock", "stop", "join"} => future[t] = "running" /\ outcome[t] = "none"
               /\ pc'[w] = "count" => outcome[t] = "none"
               /\ pc'[w] = "resolve" => end[w] # "told"
               /\ pc'[w] \in {"count", "slot", "resolve"} =>
                     /\ end[w] \in {"completed", "failed", "canceled", "told"}
                     /\ end[w] \in {"completed", "failed"} => future[t] = "running"
                     /\ end[w] = "canceled" => future[t] = "cancelled"
                     /\ end[w] = "told" => future[t] = "notified"
               /\ pc'[w] \in {"slot", "resolve"} => outcome[t] = IF end[w] = "told" THEN "canceled" ELSE end[w]
    BY <2>1, <2>2 DEF ThreadOwns
  <2>7. task' = task /\ end' = end
    BY <1>1
  <2>8. ASSUME NEW w \in Workers, pc'[w] \in HoldingSteps
        PROVE  /\ pc'[w] \in {"took", "start"} => future'[task'[w]] \in {"pending", "cancelled"} /\ outcome'[task'[w]] = "none"
               /\ pc'[w] \in {"run", "lock", "stop", "join"} => future'[task'[w]] = "running" /\ outcome'[task'[w]] = "none"
               /\ pc'[w] = "count" => outcome'[task'[w]] = "none"
               /\ pc'[w] = "resolve" => end'[w] # "told"
               /\ pc'[w] \in {"count", "slot", "resolve"} =>
                     /\ end'[w] \in {"completed", "failed", "canceled", "told"}
                     /\ end'[w] \in {"completed", "failed"} => future'[task'[w]] = "running"
                     /\ end'[w] = "canceled" => future'[task'[w]] = "cancelled"
                     /\ end'[w] = "told" => future'[task'[w]] = "notified"
               /\ pc'[w] \in {"slot", "resolve"} => outcome'[task'[w]] = IF end'[w] = "told" THEN "canceled" ELSE end'[w]
    <3>1. future'[task'[w]] = future[task[w]] /\ outcome'[task'[w]] = outcome[task[w]] /\ end'[w] = end[w]
      BY <2>3, <2>7, <2>8
    <3> QED
      BY ZenonT(60), <2>6, <2>8, <3>1
  <2> QED
    BY ZenonT(60), <2>4, <2>5, <2>8 DEF ThreadOwns
<1>a. \A t \in Tasks : \/ future'[t] = future[t] /\ outcome'[t] = outcome[t]
                       \/ heir[t] = NoTask /\ future[t] = "pending" /\ future'[t] = "notified"
  <2>1. \A t \in Tasks : t \in hit => heir[t] = NoTask /\ future[t] = "pending" /\ future'[t] = "notified"
    BY <1>1, <1>2
  <2>2. \A t \in Tasks : t \notin hit => future'[t] = future[t] /\ outcome'[t] = outcome[t]
    BY <1>1
  <2> QED
    BY ZenonT(60), <2>1, <2>2
<1>7. SubmitOwns'
  <2>1. \A x \in Callers : pc'[x] \in {"enqueue", "release"} => pc'[x] = pc[x] /\ task'[x] = task[x]
    BY <1>1, <1>3
  <2>2. \A t \in Tasks : \/ future'[t] = future[t] /\ outcome'[t] = outcome[t]
                         \/ heir[t] = NoTask /\ (future'[t] = "none" <=> future[t] = "none")
    BY <1>a
  <2>3. UNCHANGED <<heir, cycleOf>>
    BY <1>1
  <2>4. Shape /\ SubmitOwns
    OBVIOUS
  <2> QED
    BY ZenonT(60), <2>1, <2>2, <2>3, <2>4, SubmitsKept
<1>8. CallbackOwns'
  <2>1. \A x \in Callers : pc'[x] \in {"forget", "notify"} => pc'[x] = pc[x]
    BY <1>3
  <2>2. \A t \in Tasks : \/ future'[t] = future[t] /\ outcome'[t] = outcome[t]
                         \/ future[t] = "pending"
    BY <1>a
  <2>3. UNCHANGED <<heir, task>>
    BY <1>1
  <2>4. Shape /\ CallbackOwns
    OBVIOUS
  <2> QED
    BY ZenonT(60), <2>1, <2>2, <2>3, <2>4, CallbacksBeside
<1>9. CountAgrees'
  BY <1>1, <1>2 DEF CountAgrees
<1> QED
  BY <1>4, <1>5, <1>6, <1>7, <1>8, <1>9

-----------------------------------------------------------------------------

\* Every step of the executor keeps the ownership of every task.
LEMMA ExecutorStep == ExecutorInv /\ [Next]_vars => ExecutorInv'
<1> SUFFICES ASSUME ExecutorInv, [Next]_vars PROVE ExecutorInv'
  OBVIOUS
<1>1. ASSUME NEW x \in Callers, Call(x) PROVE ExecutorInv'
  BY <1>1, SubmitStep, CancelStep, DiscardStep, BeginStep DEF Call
<1>2. ASSUME NEW x \in Callers, Enqueue(x) PROVE ExecutorInv'
  BY <1>2, DropStep, ReplaceStep, AppendStep DEF Enqueue
<1>3. ASSUME NEW x \in Callers, Release(x) \/ Forget(x) \/ NotifyCancelled(x) PROVE ExecutorInv'
  BY <1>3, ReleaseStep, ForgetStep, NotifyStep
<1>4. ASSUME NEW a \in Actors, CallShutdown(a) \/ TakeCycle(a) \/ StopCycle(a) \/ Join(a) PROVE ExecutorInv'
  BY <1>4, ShutdownStep, StopStep
<1>5. ASSUME NEW w \in Workers, Sleep(w) \/ Leave(w) \/ \E t \in Tasks : Take(w, t) PROVE ExecutorInv'
  BY <1>5, RestStep, TakeStep
<1>6. ASSUME NEW w \in Workers,
             Look(w) \/ Start(w) \/ RunEnds(w) \/ Count(w) \/ FreeSlot(w) \/ Resolve(w)
      PROVE  ExecutorInv'
  BY <1>6, LookStep, StartStep, RunEndsStep, CountStep, FreeSlotStep, ResolveStep
<1>7. CASE UNCHANGED vars
  <2> USE <1>7 DEF vars, cycleVars, queueVars, countVars, actorVars, ExecutorInv
  <2>1. Shape' /\ QueueOwns' /\ CountAgrees'
    BY DEF Shape, QueueOwns, CountAgrees
  <2>2. ThreadOwns'
    BY DEF ThreadOwns
  <2>3. SubmitOwns'
    BY ZenonT(60) DEF SubmitOwns
  <2>4. CallbackOwns'
    BY DEF CallbackOwns
  <2> QED
    BY <2>1, <2>2, <2>3, <2>4
<1> QED
  BY <1>1, <1>2, <1>3, <1>4, <1>5, <1>6, <1>7 DEF Next, GoOn

\* In the beginning nobody owns anything.
LEMMA ExecutorStart == Init => ExecutorInv
<1> USE ExecutorAssumption DEF Init, Actors
<1>1. Init => Shape /\ QueueOwns
  BY DEF CallerSteps, HoldingSteps, FreeSteps, Shape, QueueOwns
<1>2. Init => ThreadOwns
  BY DEF HoldingSteps, ThreadOwns
<1>3. Init => SubmitOwns /\ CallbackOwns /\ CountAgrees
  <2> HAVE Init
  <2>1. /\ \A x \in Callers : pc[x] = "idle"
        /\ \A t \in Tasks : heir[t] = NoTask /\ future[t] = "none" /\ outcome[t] = "none"
    OBVIOUS
  <2> QED
    BY ZenonT(60), <2>1 DEF SubmitOwns, CallbackOwns, CountAgrees
<1> QED
  BY <1>1, <1>2, <1>3 DEF ExecutorInv

\* Whatever the number of tasks, callers, threads and cycles, no future is resolved
\* twice or used in a state in which it raises (forget_if_cancelled, submit, discard,
\* shutdown, _execute).
THEOREM ExecutorKeepsFutures == Spec => []FuturesIntact
<1>1. ExecutorInv => FuturesIntact
  BY DEF ExecutorInv, Shape, FuturesIntact
<1> QED
  BY <1>1, ExecutorStart, ExecutorStep, PTL DEF Spec

\* Whatever the number of tasks, callers, threads and cycles, a task is counted once
\* and as what happened to it (enqueue, forget_if_cancelled, _finish).
THEOREM ExecutorCountsOnce == Spec => []CountedOnce
<1>1. ExecutorInv => CountedOnce
  BY DEF ExecutorInv, Shape, CountAgrees, CountedOnce
<1> QED
  BY <1>1, ExecutorStart, ExecutorStep, PTL DEF Spec

-----------------------------------------------------------------------------
(* The pool: its share, its keys, its slots and its gauge. *)

BusySteps == HoldingSteps \ {"resolve"}

\* The threads of cycle c that occupy a slot.
Occupied(c) == {w \in Workers : w[1] = c /\ pc[w] \in BusySteps}

\* The tasks that were accepted and are not counted as finished.
Unfinished == {t \in Tasks : future[t] \notin {"none", "dropped"} /\ outcome[t] = "none"}

\* One shutdown at a time is stopping a cycle: _lifecycle is held (shutdown).
OneCloses ==
    /\ \A a \in Actors : pc[a] \in {"stop", "join"} => closing # 0
    /\ \A a, b \in Actors : pc[a] \in {"stop", "join"} /\ pc[b] \in {"stop", "join"} => a = b

\* The counters agree with what they count, and a process that never began a
\* cycle has accepted nothing.
PoolInv ==
    /\ PoolIsBounded
    /\ \A c \in Cycles : running[c] = Cardinality(Occupied(c))
    /\ begun = 0 => cycle = 0 /\ \A t \in Tasks : cycleOf[t] = 0
    /\ OneCloses

\* The rest counts.
INSTANCE FiniteSetTheorems

\* The sets that are counted are finite.
LEMMA PoolFinite ==
    ASSUME NEW c
    PROVE  /\ IsFiniteSet(Occupied(c)) /\ IsFiniteSet(Unfinished)
           /\ waiting \subseteq Tasks => IsFiniteSet(Queue(c)) /\ IsFiniteSet(waiting)
           /\ \A S \in SUBSET Tasks : IsFiniteSet(S) /\ Cardinality(S) \in Nat
  <1>1. IsFiniteSet(Workers)
    <2>1. IsFiniteSet(Cycles) /\ IsFiniteSet(Threads)
      BY ExecutorAssumption, FS_Interval DEF Cycles
    <2> QED
      BY ZenonT(60), <2>1, FS_Product DEF Workers
  <1>2. Occupied(c) \subseteq Workers /\ Unfinished \subseteq Tasks /\ (waiting \subseteq Tasks => Queue(c) \subseteq Tasks)
    BY DEF Occupied, Unfinished, Queue
  <1>3. \A S \in SUBSET Tasks : IsFiniteSet(S) /\ Cardinality(S) \in Nat
    BY ExecutorAssumption, FS_Subset, FS_CardinalityType
  <1> QED
    BY <1>1, <1>2, <1>3, FS_Subset

\* A thread occupies a slot from Take to FreeSlot, and no other step moves it in or out.
LEMMA SlotsKept ==
    ASSUME ExecutorInv, PoolInv, [Next]_vars,
           \A w \in Workers : ~FreeSlot(w) /\ \A t \in Tasks : ~Take(w, t)
    PROVE  running' = running /\ \A w \in Workers : pc'[w] \in BusySteps <=> pc[w] \in BusySteps
  <1> USE ExecutorAssumption DEF BusySteps, HoldingSteps
  <1> DOMAIN pc = Actors /\ pc = [a \in Actors |-> pc[a]] /\ \A w \in Workers : w[1] > begun => pc[w] = "exit"
    BY DEF ExecutorInv, Shape, PoolInv, PoolIsBounded, TypeOK
  <1> \A x \in Callers : x \in Actors /\ x \notin Workers
    BY DEF Actors
  <1> \A w \in Workers : w \in Actors /\ w \notin Callers
    BY DEF Actors
  <1>1. ASSUME NEW x \in Callers, NEW t \in Tasks, Submit(x, t) \/ Cancel(x, t) \/ Discard(x, t)
        PROVE  running' = running /\ \A w \in Workers : pc'[w] \in BusySteps <=> pc[w] \in BusySteps
    BY <1>1 DEF Submit, Cancel, Discard, GoTo, actorVars
  <1>2. ASSUME NEW x \in Callers, Begin(x)
        PROVE  running' = running /\ \A w \in Workers : pc'[w] \in BusySteps <=> pc[w] \in BusySteps
    <2>1. begun \in Nat
      BY DEF ExecutorInv, Shape
    <2> QED
      BY <1>2, <2>1 DEF Begin
  <1>3. ASSUME NEW x \in Callers, Enqueue(x)
        PROVE  running' = running /\ \A w \in Workers : pc'[w] \in BusySteps <=> pc[w] \in BusySteps
    <2>1. running' = running
      BY <1>3 DEF Enqueue
    <2>2. CASE Drop(x) \/ \E old \in Tasks : Replace(x, old)
      <3>1. pc' = [pc EXCEPT ![x] = "idle"] \/ pc' = [pc EXCEPT ![x] = "release"]
        BY ZenonT(60), <2>2 DEF Drop, Replace, GoTo
      <3> QED
        BY <2>1, <3>1
    <2>3. CASE AppendTo(x)
      <3>1. \/ pc' = [pc EXCEPT ![x] = "idle"]
            \/ \E w \in Workers : pc[w] = "sleep" /\ pc' = [pc EXCEPT ![x] = "idle", ![w] = "loop"]
        BY ZenonT(60), <2>3 DEF AppendTo, GoTo
      <3> QED
        BY <2>1, <3>1
    <2>4. Under(task[x]) \subseteq Tasks
      BY DEF Under, Queue, ExecutorInv, Shape
    <2> QED
      BY <1>3, <2>2, <2>3, <2>4 DEF Enqueue
  <1>4. ASSUME NEW x \in Callers, Release(x) \/ Forget(x) \/ NotifyCancelled(x)
        PROVE  running' = running /\ \A w \in Workers : pc'[w] \in BusySteps <=> pc[w] \in BusySteps
    BY <1>4 DEF Release, Forget, NotifyCancelled, GoTo
  <1>5. ASSUME NEW a \in Actors, CallShutdown(a) \/ TakeCycle(a) \/ Join(a)
        PROVE  running' = running /\ \A w \in Workers : pc'[w] \in BusySteps <=> pc[w] \in BusySteps
    BY <1>5 DEF CallShutdown, TakeCycle, Join, Return, GoTo
  <1>6. ASSUME NEW a \in Actors, StopCycle(a)
        PROVE  running' = running /\ \A w \in Workers : pc'[w] \in BusySteps <=> pc[w] \in BusySteps
    BY <1>6 DEF StopCycle
  <1>7. ASSUME NEW w \in Workers, Sleep(w) \/ Leave(w) \/ Look(w) \/ Start(w) \/ RunEnds(w) \/ Count(w) \/ Resolve(w)
        PROVE  running' = running /\ \A v \in Workers : pc'[v] \in BusySteps <=> pc[v] \in BusySteps
    BY <1>7 DEF Sleep, Leave, Look, Start, RunEnds, Count, Resolve, GoTo
  <1>8. CASE UNCHANGED vars
    BY <1>8 DEF vars, actorVars
  <1> HIDE ExecutorAssumption DEF BusySteps, HoldingSteps
  <1> QED
    BY <1>1, <1>2, <1>3, <1>4, <1>5, <1>6, <1>7, <1>8 DEF Next, Call, GoOn

\* running counts the threads that occupy a slot.
LEMMA SlotsCounted ==
    ASSUME ExecutorInv, PoolInv, [Next]_vars, NEW c \in Cycles
    PROVE  running'[c] = Cardinality(Occupied(c)') /\ running'[c] \in Nat
  <1>1. /\ running[c] = Cardinality(Occupied(c)) /\ running \in [Cycles -> Nat]
        /\ \A w \in Workers : w[1] \in Cycles /\ w \in Actors
        /\ pc = [a \in Actors |-> pc[a]] /\ DOMAIN pc = Actors
    BY DEF PoolInv, PoolIsBounded, TypeOK, Workers, Actors
  <1>2. IsFiniteSet(Occupied(c)) /\ Cardinality(Occupied(c)) \in Nat
    BY PoolFinite, FS_CardinalityType
  <1>3. ASSUME NEW w \in Workers, NEW t \in Tasks, Take(w, t)
        PROVE  running'[c] = Cardinality(Occupied(c)') /\ running'[c] \in Nat
    <2>1. /\ pc[w] = "loop" /\ pc' = [pc EXCEPT ![w] = "took"]
          /\ running' = [running EXCEPT ![w[1]] = @ + 1]
      BY ZenonT(60), <1>3 DEF Take, GoTo
    <2>2. Occupied(c)' = IF w[1] = c THEN Occupied(c) \cup {w} ELSE Occupied(c)
      BY <1>1, <2>1 DEF Occupied, BusySteps, HoldingSteps
    <2>3. w \notin Occupied(c)
      BY <2>1 DEF Occupied, BusySteps, HoldingSteps
    <2>4. Cardinality(Occupied(c) \cup {w}) = Cardinality(Occupied(c)) + 1
      <3>1. Cardinality(Occupied(c) \cup {w}) = IF w \in Occupied(c) THEN Cardinality(Occupied(c)) ELSE Cardinality(Occupied(c)) + 1
        BY ZenonT(60), <1>2, FS_AddElement
      <3> QED
        BY <2>3, <3>1
    <2> QED
      BY <1>1, <2>1, <2>2, <2>4
  <1>4. ASSUME NEW w \in Workers, FreeSlot(w)
        PROVE  running'[c] = Cardinality(Occupied(c)') /\ running'[c] \in Nat
    <2>1. /\ pc[w] = "slot" /\ running' = [running EXCEPT ![w[1]] = @ - 1]
          /\ pc' = [pc EXCEPT ![w] = "loop"] \/ pc' = [pc EXCEPT ![w] = "resolve"]
      BY ZenonT(60), <1>4 DEF FreeSlot, GoTo
    <2>2. Occupied(c)' = IF w[1] = c THEN Occupied(c) \ {w} ELSE Occupied(c)
      <3>1. \A v \in Workers : pc'[v] \in BusySteps <=> pc[v] \in BusySteps /\ v # w
        BY <1>1, <2>1 DEF BusySteps, HoldingSteps
      <3> QED
        BY <3>1 DEF Occupied
    <2>3. w[1] = c => w \in Occupied(c)
      BY <2>1 DEF Occupied, BusySteps, HoldingSteps
    <2>4. /\ w[1] = c => Cardinality(Occupied(c) \ {w}) = Cardinality(Occupied(c)) - 1
          /\ Cardinality(Occupied(c) \ {w}) \in Nat
      BY <1>2, <2>3, FS_RemoveElement, FS_CardinalityType
    <2> QED
      BY <1>1, <2>1, <2>2, <2>4
  <1>5. CASE \A w \in Workers : ~FreeSlot(w) /\ \A t \in Tasks : ~Take(w, t)
    <2>1. running' = running /\ \A w \in Workers : pc'[w] \in BusySteps <=> pc[w] \in BusySteps
      BY <1>5, SlotsKept
    <2>2. Occupied(c)' = Occupied(c)
      BY <2>1 DEF Occupied
    <2> QED
      BY <1>1, <2>1, <2>2
  <1> QED
    BY <1>3, <1>4, <1>5

\* Where a task comes into the queue, and where the running count grows with it.
LEMMA QueueChanges ==
    ASSUME ExecutorInv, PoolInv, [Next]_vars
    PROVE  \/ waiting' \subseteq waiting /\ running' = running /\ \A t \in waiting : cycleOf'[t] = cycleOf[t]
           \/ \E w \in Workers, t \in Tasks : Take(w, t)
           \/ \E w \in Workers : FreeSlot(w)
           \/ \E x \in Callers : Enqueue(x)
  <1> DEFINE Less == waiting' \subseteq waiting /\ running' = running /\ \A t \in waiting : cycleOf'[t] = cycleOf[t]
  <1>1. ASSUME NEW x \in Callers, NEW t \in Tasks, Submit(x, t) PROVE Less
    <2>1. t \notin waiting
      BY <1>1 DEF Submit, ExecutorInv, QueueOwns, CountAgrees
    <2> QED
      BY <1>1, <2>1 DEF Submit
  <1>2. ASSUME NEW x \in Callers, NEW t \in Tasks, Cancel(x, t) \/ Discard(x, t) PROVE Less
    BY <1>2 DEF Cancel, Discard, CancelQueued, queueVars
  <1>3. ASSUME NEW x \in Callers, Begin(x) \/ Release(x) \/ Forget(x) \/ NotifyCancelled(x) PROVE Less
    BY <1>3 DEF Begin, Release, Forget, NotifyCancelled, queueVars
  <1>4. ASSUME NEW a \in Actors, CallShutdown(a) \/ TakeCycle(a) \/ Join(a) \/ StopCycle(a) PROVE Less
    BY <1>4 DEF CallShutdown, TakeCycle, Join, StopCycle, CancelQueued, queueVars
  <1>5. ASSUME NEW w \in Workers, Sleep(w) \/ Leave(w) \/ Look(w) \/ Start(w) \/ RunEnds(w) \/ Count(w) \/ Resolve(w) PROVE Less
    BY <1>5 DEF Sleep, Leave, Look, Start, RunEnds, Count, Resolve, queueVars
  <1>6. ASSUME UNCHANGED vars PROVE Less
    BY <1>6 DEF vars, queueVars
  <1> HIDE DEF Less
  <1>7. Less \/ (\E w \in Workers, t \in Tasks : Take(w, t)) \/ (\E w \in Workers : FreeSlot(w)) \/ \E x \in Callers : Enqueue(x)
    <2>1. ASSUME NEW x \in Callers, Call(x) PROVE Less
      BY <1>1, <1>2, <1>3, <2>1 DEF Call
    <2>2. ASSUME NEW a \in Actors, GoOn(a)
          PROVE  Less \/ (\E w \in Workers, t \in Tasks : Take(w, t)) \/ (\E w \in Workers : FreeSlot(w)) \/ \E x \in Callers : Enqueue(x)
      <3>1. CASE a \in Callers /\ (Enqueue(a) \/ Release(a) \/ Forget(a) \/ NotifyCancelled(a))
        BY <1>3, <3>1
      <3>2. CASE TakeCycle(a) \/ StopCycle(a) \/ Join(a)
        BY <1>4, <3>2
      <3>3. CASE /\ a \in Workers
                 /\ \/ Sleep(a) \/ Leave(a) \/ \E t \in Tasks : Take(a, t)
                    \/ Look(a) \/ Start(a) \/ RunEnds(a) \/ Count(a) \/ FreeSlot(a) \/ Resolve(a)
        BY ZenonT(60), <1>5, <3>3
      <3> QED
        BY <2>2, <3>1, <3>2, <3>3 DEF GoOn
    <2> QED
      BY ZenonT(60), <1>4, <1>6, <2>1, <2>2 DEF Next
  <1> QED
    BY <1>7 DEF Less

\* The queue of a cycle and its running tasks stay within its share.
LEMMA ShareStep ==
    ASSUME ExecutorInv, PoolInv, [Next]_vars, NEW c \in Cycles
    PROVE  Cardinality(Queue(c)') + running'[c] <= PoolLimit
  <1> DEFINE n == Cardinality(Queue(c))
  <1>1. /\ n + running[c] <= PoolLimit /\ PoolLimit \in Nat
        /\ running \in [Cycles -> Nat] /\ waiting \subseteq Tasks /\ cycleOf \in [Tasks -> Nat]
        /\ \A w \in Workers : w[1] \in Cycles
    BY ExecutorAssumption DEF PoolInv, PoolIsBounded, ShareRespected, TypeOK, Workers
  <1>2. IsFiniteSet(Queue(c)) /\ n \in Nat
    BY <1>1, PoolFinite, FS_CardinalityType
  <1>3. ASSUME Queue(c)' \subseteq Queue(c)
        PROVE  Cardinality(Queue(c)') \in Nat /\ Cardinality(Queue(c)') <= n
    BY <1>2, <1>3, FS_Subset, FS_CardinalityType
  <1>4. CASE waiting' \subseteq waiting /\ running' = running /\ \A t \in waiting : cycleOf'[t] = cycleOf[t]
    <2>1. Queue(c)' \subseteq Queue(c)
      BY <1>4 DEF Queue
    <2> QED
      BY <1>1, <1>2, <1>3, <1>4, <2>1
  <1>5. ASSUME NEW w \in Workers, FreeSlot(w) PROVE Cardinality(Queue(c)') + running'[c] <= PoolLimit
    <2>1. Queue(c)' = Queue(c) /\ running' = [running EXCEPT ![w[1]] = @ - 1]
      BY ZenonT(60), <1>5 DEF FreeSlot, Queue, queueVars
    <2> QED
      BY <1>1, <1>2, <2>1
  <1>6. ASSUME NEW w \in Workers, NEW t \in Tasks, Take(w, t) PROVE Cardinality(Queue(c)') + running'[c] <= PoolLimit
    <2>1. /\ t \in Queue(w[1]) /\ waiting' = waiting \ {t} /\ cycleOf' = cycleOf
          /\ running' = [running EXCEPT ![w[1]] = @ + 1]
      BY ZenonT(60), <1>6 DEF Take, IsFirst
    <2>2. CASE w[1] = c
      <3>1. Queue(c)' = Queue(c) \ {t} /\ t \in Queue(c)
        BY <2>1, <2>2 DEF Queue
      <3>2. Cardinality(Queue(c)') = n - 1
        <4>1. Cardinality(Queue(c) \ {t}) = IF t \in Queue(c) THEN n - 1 ELSE n
          BY ZenonT(60), <1>2, FS_RemoveElement
        <4> QED
          BY <3>1, <4>1
      <3> QED
        BY <1>1, <1>2, <2>1, <3>2
    <2>3. CASE w[1] # c
      <3>1. Queue(c)' \subseteq Queue(c) /\ running'[c] = running[c]
        BY <2>1, <2>3 DEF Queue
      <3> QED
        BY <1>1, <1>2, <1>3, <3>1
    <2> QED
      BY <2>2, <2>3
  <1>7. ASSUME NEW x \in Callers, Enqueue(x) PROVE Cardinality(Queue(c)') + running'[c] <= PoolLimit
    <2> DEFINE t == task[x]
    <2>1. /\ pc[x] = "enqueue" /\ running' = running /\ cycleOf' = cycleOf
          /\ \/ Drop(x)
             \/ \E old \in Under(t) : Replace(x, old)
             \/ Pending(cycleOf[t]) < PoolLimit /\ AppendTo(x)
      BY ZenonT(60), <1>7 DEF Enqueue
    <2>2. t \in Tasks /\ t \notin waiting
      BY <2>1 DEF ExecutorInv, Shape, QueueOwns, SubmitOwns
    <2>3. CASE Drop(x)
      BY <1>1, <2>1, <2>3 DEF Drop, Queue
    <2>4. ASSUME NEW old \in Under(t), Replace(x, old) PROVE Cardinality(Queue(c)') + running'[c] <= PoolLimit
      <3>1. waiting' = (waiting \ {old}) \cup {t} /\ old \in waiting /\ cycleOf[old] = cycleOf[t]
        BY ZenonT(60), <2>4 DEF Replace, Under, Queue
      <3>2. CASE cycleOf[t] # c
        <4>1. Queue(c)' = Queue(c)
          BY <2>1, <3>1, <3>2 DEF Queue
        <4> QED
          BY <1>1, <2>1, <4>1
      <3>3. CASE cycleOf[t] = c
        <4>1. Queue(c)' = (Queue(c) \ {old}) \cup {t} /\ old \in Queue(c) /\ t \notin Queue(c) \ {old}
          BY <2>1, <2>2, <3>1, <3>3 DEF Queue
        <4>2. IsFiniteSet(Queue(c) \ {old}) /\ Cardinality(Queue(c) \ {old}) = n - 1
          BY <1>2, <4>1, FS_RemoveElement
        <4>3. Cardinality((Queue(c) \ {old}) \cup {t})
                = IF t \in Queue(c) \ {old} THEN Cardinality(Queue(c) \ {old}) ELSE Cardinality(Queue(c) \ {old}) + 1
          BY ZenonT(60), <4>2, FS_AddElement
        <4>4. Cardinality(Queue(c)') = n - 1 + 1 /\ running'[c] = running[c]
          BY ZenonT(60), <2>1, <4>1, <4>2, <4>3
        <4> HIDE DEF n, t
        <4> QED
          BY <1>1, <1>2, <4>4
      <3> QED
        BY <3>2, <3>3
    <2>5. CASE Pending(cycleOf[t]) < PoolLimit /\ AppendTo(x)
      <3>1. waiting' = waiting \cup {t}
        BY ZenonT(60), <2>5 DEF AppendTo
      <3>2. CASE cycleOf[t] # c
        <4>1. Queue(c)' = Queue(c)
          BY <2>1, <3>1, <3>2 DEF Queue
        <4> QED
          BY <1>1, <2>1, <4>1
      <3>3. CASE cycleOf[t] = c
        <4>1. Queue(c)' = Queue(c) \cup {t} /\ t \notin Queue(c)
          BY <2>1, <2>2, <3>1, <3>3 DEF Queue
        <4>2. Cardinality(Queue(c) \cup {t}) = IF t \in Queue(c) THEN n ELSE n + 1
          BY ZenonT(60), <1>2, FS_AddElement
        <4>3. n + running[c] < PoolLimit
          BY <2>5, <3>3 DEF Pending
        <4>4. Cardinality(Queue(c)') = n + 1 /\ running'[c] = running[c]
          BY ZenonT(60), <2>1, <4>1, <4>2
        <4> HIDE DEF n, t
        <4>5. ASSUME NEW m \in Nat, NEW k \in Nat, m + k < PoolLimit PROVE (m + 1) + k <= PoolLimit
          BY <4>5, ExecutorAssumption
        <4>6. (n + 1) + running[c] <= PoolLimit
          BY ZenonT(60), <1>1, <1>2, <4>3, <4>5
        <4> QED
          BY ZenonT(60), <4>4, <4>6
      <3> QED
        BY <3>2, <3>3
    <2> QED
      BY <2>1, <2>3, <2>4, <2>5
  <1> QED
    BY <1>4, <1>5, <1>6, <1>7, QueueChanges

\* Of two waiting tasks of one cycle no two have the same key.
LEMMA KeysStep ==
    ASSUME ExecutorInv, PoolInv, [Next]_vars
    PROVE  OneWaitsPerKey'
  <1>1. OneWaitsPerKey /\ waiting \subseteq Tasks
    BY DEF ExecutorInv, Shape, PoolInv, PoolIsBounded
  <1>2. ASSUME waiting' \subseteq waiting, \A t \in waiting : cycleOf'[t] = cycleOf[t] PROVE OneWaitsPerKey'
    BY <1>1, <1>2 DEF OneWaitsPerKey
  <1>3. ASSUME NEW w \in Workers, FreeSlot(w) \/ \E t \in Tasks : Take(w, t) PROVE OneWaitsPerKey'
    <2>1. waiting' \subseteq waiting /\ cycleOf' = cycleOf
      BY ZenonT(60), <1>3 DEF FreeSlot, Take, queueVars
    <2> QED
      BY <1>2, <2>1
  <1>4. ASSUME NEW x \in Callers, Enqueue(x) PROVE OneWaitsPerKey'
    <2> DEFINE t == task[x]
    <2>1. /\ cycleOf' = cycleOf
          /\ \/ Drop(x)
             \/ \E old \in Under(t) : Replace(x, old)
             \/ Under(t) = {} /\ AppendTo(x)
      BY ZenonT(60), <1>4 DEF Enqueue
    <2>2. \A u \in waiting : KeyOf[t] # NoKey /\ KeyOf[u] = KeyOf[t] /\ cycleOf[u] = cycleOf[t] => u \in Under(t)
      BY DEF Under, Queue
    <2>3. CASE Drop(x)
      BY <1>2, <2>1, <2>3 DEF Drop
    <2>4. ASSUME NEW old \in Under(t), Replace(x, old) PROVE OneWaitsPerKey'
      <3>1. waiting' = (waiting \ {old}) \cup {t}
        BY ZenonT(60), <2>4 DEF Replace
      <3>2. \A u \in Under(t) : u = old
        BY <1>1 DEF Under, Queue, OneWaitsPerKey
      <3>3. \A u \in waiting \ {old} : ~(KeyOf[t] # NoKey /\ KeyOf[u] = KeyOf[t] /\ cycleOf[u] = cycleOf[t])
        BY <2>2, <3>2
      <3> QED
        BY ZenonT(60), <1>1, <2>1, <3>1, <3>3 DEF OneWaitsPerKey
    <2>5. CASE Under(t) = {} /\ AppendTo(x)
      <3>1. waiting' = waiting \cup {t}
        BY ZenonT(60), <2>5 DEF AppendTo
      <3>2. \A u \in waiting : ~(KeyOf[t] # NoKey /\ KeyOf[u] = KeyOf[t] /\ cycleOf[u] = cycleOf[t])
        BY <2>2, <2>5
      <3> QED
        BY ZenonT(60), <1>1, <2>1, <3>1, <3>2 DEF OneWaitsPerKey
    <2> QED
      BY <2>1, <2>3, <2>4, <2>5
  <1> QED
    BY <1>2, <1>3, <1>4, QueueChanges

\* A future is accepted: submit did not drop it.
Accepted(f) == f \notin {"none", "dropped"}

\* A count takes its tasks out of Unfinished, and the gauge falls by as many.
LEMMA TalliesOut ==
    ASSUME NEW S, S \subseteq Unfinished, NEW o, o # "none", CountOut(S, o),
           \A t \in Tasks : Accepted(future'[t]) <=> Accepted(future[t]),
           gauge \in Int, gauge = Cardinality(Unfinished)
    PROVE  gauge' = Cardinality(Unfinished')
  <1>1. gauge' = gauge - Cardinality(S) /\ Tally(S, o)
    BY DEF CountOut
  <1>2. \A t \in Tasks : outcome'[t] = IF t \notin S THEN outcome[t] ELSE IF outcome[t] = "none" THEN o ELSE "twice"
    BY <1>1 DEF Tally
  <1>3. \A t \in Tasks : t \in Unfinished' <=> t \in Unfinished /\ t \notin S
    BY <1>2 DEF Unfinished, Accepted
  <1>4. Unfinished' = Unfinished \ S /\ Unfinished \cap S = S
    BY <1>3 DEF Unfinished
  <1>5. Cardinality(Unfinished \ S) = Cardinality(Unfinished) - Cardinality(Unfinished \cap S)
    BY ZenonT(60), PoolFinite, FS_Difference
  <1> QED
    BY <1>1, <1>4, <1>5

\* A step that counts nothing and accepts nothing leaves Unfinished alone.
LEMMA TalliesNothing ==
    ASSUME UNCHANGED countVars, gauge = Cardinality(Unfinished),
           \A t \in Tasks : Accepted(future'[t]) <=> Accepted(future[t])
    PROVE  gauge' = Cardinality(Unfinished')
  <1>1. Unfinished' = Unfinished /\ gauge' = gauge
    BY DEF Unfinished, Accepted, countVars
  <1> QED
    BY <1>1

\* The steps of the callers keep the gauge exact.
LEMMA GaugeCallers ==
    ASSUME ExecutorInv, PoolInv, gauge = Cardinality(Unfinished), NEW x \in Callers,
           Enqueue(x) \/ Release(x) \/ Forget(x) \/ NotifyCancelled(x) \/ \E t \in Tasks : Submit(x, t) \/ Cancel(x, t) \/ Discard(x, t)
    PROVE  gauge' = Cardinality(Unfinished')
  <1> gauge \in Int /\ future \in [Tasks -> {"none", "dropped", "pending", "running", "cancelled", "notified", "finished"}] /\ waiting \subseteq Tasks
      /\ outcome \in [Tasks -> {"none", "completed", "failed", "canceled", "replaced"}]
    BY DEF ExecutorInv, Shape, PoolInv, PoolIsBounded, TypeOK
  <1>1. waiting \subseteq Unfinished
    BY DEF ExecutorInv, QueueOwns, Unfinished
  <1>2. ASSUME NEW t \in Tasks, Submit(x, t) \/ Cancel(x, t) PROVE gauge' = Cardinality(Unfinished')
    BY <1>2, TalliesNothing DEF Submit, Cancel, SetFuture, Accepted
  <1>3. ASSUME NEW t \in Tasks, Discard(x, t) PROVE gauge' = Cardinality(Unfinished')
    <2> DEFINE hit == {u \in {t} : future[u] = "pending"}
    <2>1. CountOut(hit, "canceled") /\ future' = [u \in Tasks |-> IF u \in hit THEN "notified" ELSE future[u]] /\ hit \subseteq waiting
      BY <1>3 DEF Discard, CancelQueued, Notified
    <2>2. \A u \in Tasks : Accepted(future'[u]) <=> Accepted(future[u])
      BY <2>1 DEF Accepted
    <2> HIDE DEF hit
    <2> QED
      BY <1>1, <2>1, <2>2, TalliesOut
  <1>4. CASE Release(x) \/ NotifyCancelled(x)
    <2>1. ASSUME NEW t \in Tasks, future[t] \in {"pending", "cancelled"}, future' = [future EXCEPT ![t] = "notified"],
                 UNCHANGED countVars
          PROVE  gauge' = Cardinality(Unfinished')
      BY <2>1, TalliesNothing DEF Accepted
    <2>2. CASE NotifyCancelled(x)
      <3>1. task[x] \in Tasks /\ future[task[x]] = "cancelled"
        BY <2>2 DEF NotifyCancelled, ExecutorInv, Shape, CallbackOwns
      <3>2. future' = [future EXCEPT ![task[x]] = "notified"] /\ UNCHANGED countVars
        BY <2>2, <3>1 DEF NotifyCancelled, SetFuture, Notified
      <3> QED
        BY ZenonT(60), <2>1, <3>1, <3>2
    <2>3. CASE Release(x)
      <3>1. PICK old \in Tasks : /\ heir[old] = task[x] /\ pc[x] = "release"
                                 /\ SetFuture(old, Notified(IF future[old] = "pending" THEN "cancelled" ELSE future[old]))
        BY <2>3 DEF Release
      <3>2. future[old] \in {"pending", "cancelled"}
        BY <3>1 DEF ExecutorInv, SubmitOwns
      <3>3. Notified(IF future[old] = "pending" THEN "cancelled" ELSE future[old]) = "notified"
        BY <3>2 DEF Notified
      <3>4. future' = [future EXCEPT ![old] = "notified"] /\ UNCHANGED countVars
        BY ZenonT(60), <2>3, <3>1, <3>3 DEF Release, SetFuture
      <3> QED
        BY ZenonT(60), <2>1, <3>2, <3>4
    <2> QED
      BY <1>4, <2>2, <2>3
  <1>5. CASE Forget(x)
    <2>1. future' = future
      BY <1>5 DEF Forget
    <2>2. CASE UNCHANGED countVars
      BY <2>1, <2>2, TalliesNothing
    <2>3. CASE task[x] \in waiting /\ CountOut({task[x]}, "canceled")
      BY <1>1, <2>1, <2>3, TalliesOut
    <2> QED
      BY <1>5, <2>2, <2>3 DEF Forget, StillQueued
  <1>6. CASE Enqueue(x)
    <2> DEFINE t == task[x]
    <2>1. t \in Tasks /\ future[t] = "none" /\ outcome[t] = "none" /\ t \notin waiting
      BY <1>6 DEF Enqueue, ExecutorInv, Shape, SubmitOwns, CountAgrees, QueueOwns
    <2>2. CASE Drop(x)
      <3>1. future' = [future EXCEPT ![t] = "dropped"] /\ UNCHANGED countVars
        BY ZenonT(60), <2>2 DEF Drop, SetFuture
      <3> QED
        BY <2>1, <3>1, TalliesNothing DEF Accepted
    <2>3. ASSUME NEW old \in Under(t), Replace(x, old) PROVE gauge' = Cardinality(Unfinished')
      <3>1. /\ future' = [future EXCEPT ![t] = "pending"] /\ gauge' = gauge /\ old \in waiting
            /\ Tally({old}, IF future[old] = "cancelled" THEN "canceled" ELSE "replaced")
        BY ZenonT(60), <2>3 DEF Replace, SetFuture, Under, Queue
      <3>2. \A u \in Tasks : outcome'[u] = "none" <=> outcome[u] = "none" /\ u # old
        BY <3>1 DEF Tally
      <3>3. old \in Unfinished /\ t \notin Unfinished
        BY <1>1, <2>1, <3>1 DEF Unfinished
      <3>4. \A u \in Tasks : u \in Unfinished' <=> (u \in Unfinished /\ u # old) \/ u = t
        BY <2>1, <3>1, <3>2 DEF Unfinished
      <3>5. Unfinished' = (Unfinished \ {old}) \cup {t} /\ t \notin Unfinished \ {old}
        BY ZenonT(60), <2>1, <3>4 DEF Unfinished
      <3>6. /\ IsFiniteSet(Unfinished \ {old})
            /\ Cardinality(Unfinished \ {old}) = IF old \in Unfinished THEN Cardinality(Unfinished) - 1 ELSE Cardinality(Unfinished)
        BY ZenonT(60), PoolFinite, FS_RemoveElement
      <3>7. Cardinality((Unfinished \ {old}) \cup {t})
              = IF t \in Unfinished \ {old} THEN Cardinality(Unfinished \ {old}) ELSE Cardinality(Unfinished \ {old}) + 1
        BY ZenonT(60), <3>6, FS_AddElement
      <3> QED
        BY <3>1, <3>3, <3>5, <3>6, <3>7
    <2>4. CASE AppendTo(x)
      <3>1. future' = [future EXCEPT ![t] = "pending"] /\ gauge' = gauge + 1 /\ outcome' = outcome
        BY ZenonT(60), <2>4 DEF AppendTo, SetFuture
      <3>2. \A u \in Tasks : u \in Unfinished' <=> u \in Unfinished \/ u = t
        BY <2>1, <3>1 DEF Unfinished
      <3>3. Unfinished' = Unfinished \cup {t} /\ t \notin Unfinished
        BY <2>1, <3>2 DEF Unfinished
      <3>4. Cardinality(Unfinished \cup {t}) = IF t \in Unfinished THEN Cardinality(Unfinished) ELSE Cardinality(Unfinished) + 1
        BY ZenonT(60), PoolFinite, FS_AddElement
      <3> QED
        BY <3>1, <3>3, <3>4
    <2> QED
      BY ZenonT(60), <1>6, <2>2, <2>3, <2>4 DEF Enqueue
  <1> QED
    BY <1>2, <1>3, <1>4, <1>5, <1>6

\* So do the steps of the threads and of shutdown.
LEMMA GaugeThreads ==
    ASSUME ExecutorInv, PoolInv, gauge = Cardinality(Unfinished), NEW a \in Actors,
           \/ CallShutdown(a) \/ TakeCycle(a) \/ StopCycle(a) \/ Join(a)
           \/ a \in Workers /\ (\/ Sleep(a) \/ Leave(a) \/ Look(a) \/ Start(a) \/ RunEnds(a) \/ Count(a) \/ FreeSlot(a) \/ Resolve(a)
                                \/ \E t \in Tasks : Take(a, t))
    PROVE  gauge' = Cardinality(Unfinished')
  <1> gauge \in Int /\ future \in [Tasks -> {"none", "dropped", "pending", "running", "cancelled", "notified", "finished"}] /\ waiting \subseteq Tasks
    BY DEF ExecutorInv, Shape, PoolInv, PoolIsBounded, TypeOK
  <1>1. waiting \subseteq Unfinished
    BY DEF ExecutorInv, QueueOwns, Unfinished
  <1>2. ASSUME future' = future, UNCHANGED countVars PROVE gauge' = Cardinality(Unfinished')
    BY <1>2, TalliesNothing
  <1>3. CASE CallShutdown(a) \/ TakeCycle(a) \/ Join(a) \/ Sleep(a) \/ Leave(a) \/ Look(a) \/ RunEnds(a) \/ FreeSlot(a)
    BY <1>2, <1>3 DEF CallShutdown, TakeCycle, Join, Sleep, Leave, Look, RunEnds, FreeSlot
  <1>4. ASSUME NEW t \in Tasks, Take(a, t) PROVE gauge' = Cardinality(Unfinished')
    BY <1>2, <1>4 DEF Take
  <1>5. CASE StopCycle(a)
    <2> DEFINE hit == {u \in Queue(closing) : future[u] = "pending"}
    <2>1. CountOut(hit, "canceled") /\ future' = [u \in Tasks |-> IF u \in hit THEN "notified" ELSE future[u]] /\ hit \subseteq waiting
      BY <1>5 DEF StopCycle, CancelQueued, Notified, Queue
    <2>2. \A u \in Tasks : Accepted(future'[u]) <=> Accepted(future[u])
      BY <2>1 DEF Accepted
    <2> HIDE DEF hit
    <2> QED
      BY <1>1, <2>1, <2>2, TalliesOut
  <1>6. CASE a \in Workers /\ Start(a)
    <2>1. task[a] \in Tasks /\ future[task[a]] \in {"pending", "cancelled"}
      BY <1>6 DEF Start, ExecutorInv, Shape, ThreadOwns, FreeSteps
    <2>2. future' = [future EXCEPT ![task[a]] = Notified(future[task[a]])] /\ UNCHANGED countVars
      BY <1>6 DEF Start, SetFuture
    <2>3. \A u \in Tasks : Accepted(future'[u]) <=> Accepted(future[u])
      BY <2>1, <2>2 DEF Accepted, Notified
    <2> QED
      BY <2>2, <2>3, TalliesNothing
  <1>7. CASE a \in Workers /\ Resolve(a)
    <2>1. task[a] \in Tasks /\ future[task[a]] \in {"running", "cancelled", "notified"}
      BY <1>7 DEF Resolve, ExecutorInv, Shape, ThreadOwns, FreeSteps
    <2>2. \E f \in {"notified", "running", "finished", "broken"} : future' = [future EXCEPT ![task[a]] = f]
      BY ZenonT(60), <1>7 DEF Resolve, SetFuture, Notified, Finished
    <2>3. \A u \in Tasks : Accepted(future'[u]) <=> Accepted(future[u])
      BY <2>1, <2>2 DEF Accepted
    <2> QED
      BY <1>7, <2>3, TalliesNothing DEF Resolve
  <1>8. CASE a \in Workers /\ Count(a)
    <2>1. task[a] \in Unfinished /\ end[a] \in {"completed", "failed", "canceled", "told"}
      BY <1>8 DEF Count, ExecutorInv, Shape, ThreadOwns, FreeSteps, Unfinished
    <2> DEFINE o == IF end[a] = "told" THEN "canceled" ELSE end[a]
    <2>2. CountOut({task[a]}, o) /\ future' = future
      BY <1>8 DEF Count
    <2>3. {task[a]} \subseteq Unfinished /\ o # "none"
      BY <2>1
    <2> HIDE DEF o
    <2> QED
      BY <2>2, <2>3, TalliesOut
  <1> QED
    BY ZenonT(60), <1>3, <1>4, <1>5, <1>6, <1>7, <1>8

\* In the first cycle the gauge says how many tasks are unfinished.
LEMMA GaugeStep ==
    ASSUME ExecutorInv, PoolInv, [Next]_vars
    PROVE  GaugeExact'
  <1> SUFFICES ASSUME begun' = 1
               PROVE  gauge' = Cardinality(Unfinished')
    BY DEF GaugeExact, Unfinished
  <1>1. begun = 1 => gauge = Cardinality(Unfinished)
    BY DEF PoolInv, PoolIsBounded, GaugeExact, Unfinished
  <1>2. ASSUME NEW x \in Callers, Begin(x) PROVE gauge' = Cardinality(Unfinished')
    <2>1. begun = 0 /\ gauge' = 0 /\ future' = future /\ outcome' = outcome
      <3>1. begun \in Nat /\ begun' = begun + 1
        BY ZenonT(60), <1>2 DEF Begin, ExecutorInv, Shape
      <3>2. begun = 0
        BY <3>1
      <3> QED
        BY ZenonT(60), <1>2, <3>2 DEF Begin
    <2>2. Unfinished' = {}
      BY <2>1 DEF PoolInv, ExecutorInv, CountAgrees, Unfinished
    <2> QED
      BY <2>1, <2>2, FS_EmptySet
  <1>3. CASE begun' = begun
    <2>1. ASSUME NEW x \in Callers, Call(x) PROVE gauge' = Cardinality(Unfinished')
      BY <1>1, <1>2, <1>3, <2>1, GaugeCallers DEF Call
    <2>2. ASSUME NEW a \in Actors, CallShutdown(a) \/ GoOn(a) PROVE gauge' = Cardinality(Unfinished')
      BY ZenonT(60), <1>1, <1>3, <2>2, GaugeCallers, GaugeThreads DEF GoOn
    <2>3. CASE UNCHANGED vars
      BY <1>1, <1>3, <2>3, TalliesNothing DEF vars
    <2> QED
      BY <2>1, <2>2, <2>3 DEF Next
  <1>4. CASE begun' # begun
    <2>1. \E x \in Callers : Begin(x)
      <3>1. ASSUME NEW x \in Callers, Call(x) PROVE begun' = begun \/ Begin(x)
        BY ZenonT(60), <3>1 DEF Call, Submit, Cancel, Discard, cycleVars
      <3>2. ASSUME NEW a \in Actors, CallShutdown(a) \/ GoOn(a) PROVE begun' = begun
        <4>1. CASE CallShutdown(a) \/ TakeCycle(a) \/ StopCycle(a) \/ Join(a)
          BY <4>1 DEF CallShutdown, TakeCycle, StopCycle, Join, cycleVars
        <4>2. CASE Enqueue(a) \/ Release(a) \/ Forget(a) \/ NotifyCancelled(a)
          BY <4>2 DEF Enqueue, Release, Forget, NotifyCancelled, cycleVars
        <4>3. CASE Sleep(a) \/ Leave(a) \/ Look(a) \/ Start(a) \/ RunEnds(a) \/ Count(a) \/ FreeSlot(a) \/ Resolve(a) \/ \E t \in Tasks : Take(a, t)
          BY <4>3 DEF Sleep, Leave, Look, Start, RunEnds, Count, FreeSlot, Resolve, Take, cycleVars
        <4> QED
          BY ZenonT(60), <3>2, <4>1, <4>2, <4>3 DEF GoOn
      <3>3. UNCHANGED vars => begun' = begun
        BY DEF vars, cycleVars
      <3> QED
        BY <1>4, <3>1, <3>2, <3>3 DEF Next
    <2> QED
      BY <1>2, <2>1
  <1> QED
    BY <1>3, <1>4

\* Every step keeps the types, given the shape that it leaves and the counts.
LEMMA PoolTypes ==
    ASSUME ExecutorInv, ExecutorInv', PoolInv, [Next]_vars, running' \in [Cycles -> Nat]
    PROVE  TypeOK'
  <1>1. /\ waiting' \subseteq Tasks /\ heir' \in [Tasks -> Tasks \cup {NoTask}]
        /\ future' \in [Tasks -> {"none", "dropped", "pending", "running", "cancelled", "notified", "finished", "broken"}]
        /\ outcome' \in [Tasks -> {"none", "completed", "failed", "canceled", "replaced", "twice"}]
    BY ZenonT(60) DEF ExecutorInv, Shape
  <1>2. TypeOK
    BY DEF PoolInv, PoolIsBounded
  <1> DEFINE Lifetimes ==
        /\ cycle' \in 0..MaxCycles /\ begun' \in 0..MaxCycles /\ closing' \in 0..MaxCycles
        /\ stopping' \subseteq Cycles /\ cycleOf' \in [Tasks -> 0..MaxCycles]
  <1> DEFINE Counters == place' \in [Tasks -> Nat] /\ gauge' \in Int
  <1> DEFINE Locals ==
        /\ pc' \in [Actors -> {"idle", "enqueue", "release", "forget", "notify", "lock", "stop", "join", "loop",
                               "sleep", "took", "start", "run", "count", "slot", "resolve", "exit"}]
        /\ task' \in [Actors -> Tasks \cup {NoTask}]
        /\ end' \in [Actors -> {"none", "completed", "failed", "canceled", "told"}]
  <1> DEFINE Kept == Lifetimes /\ Counters /\ Locals
  <1> SUFFICES Kept
    BY <1>1 DEF TypeOK
  <1> USE <1>2 DEF TypeOK
  <1>a. \A S \in SUBSET Tasks : Cardinality(S) \in Nat
    BY ZenonT(60), PoolFinite, FS_CardinalityType
  <1>b. Callers \subseteq Actors /\ Workers \subseteq Actors
    BY DEF Actors
  <1>3. ASSUME NEW x \in Callers, NEW t \in Tasks, Submit(x, t) \/ Cancel(x, t) \/ Discard(x, t)
        PROVE  Kept
    <2>1. CASE Submit(x, t) \/ Cancel(x, t)
      BY <2>1 DEF Submit, Cancel, GoTo, cycleVars, queueVars, countVars
    <2>2. CASE Discard(x, t)
      <3>1. {u \in {t} : future[u] = "pending"} \in SUBSET Tasks
        OBVIOUS
      <3>2. gauge' = gauge - Cardinality({u \in {t} : future[u] = "pending"}) /\ place' = place
        BY <2>2 DEF Discard, CancelQueued, CountOut
      <3>3. Counters
        BY <3>2
      <3> QED
        BY <2>2, <3>3 DEF Discard, CancelQueued, cycleVars, actorVars
    <2> QED
      BY <1>3, <2>1, <2>2
  <1>4. ASSUME NEW x \in Callers, Begin(x) PROVE Kept
    BY <1>4, ExecutorAssumption DEF Begin, queueVars
  <1>5. ASSUME NEW x \in Callers, Enqueue(x) PROVE Kept
    <2>1. /\ UNCHANGED <<cycleVars, cycleOf, end>>
          /\ Drop(x) \/ (\E old \in Under(task[x]) : Replace(x, old)) \/ AppendTo(x)
      BY ZenonT(60), <1>5 DEF Enqueue
    <2>2. Under(task[x]) \subseteq Tasks
      BY DEF Under, Queue
    <2>3. CASE Drop(x)
      BY <1>b, <2>1, <2>3 DEF Drop, GoTo, LetGo, cycleVars, countVars
    <2>4. ASSUME NEW old \in Under(task[x]), Replace(x, old)
          PROVE  Kept
      <3>1. /\ place' = [place EXCEPT ![task[x]] = place[old]] /\ pc' = [pc EXCEPT ![x] = "release"]
            /\ task' = task /\ gauge' = gauge
        BY ZenonT(60), <2>4 DEF Replace, GoTo
      <3> QED
        BY ZenonT(60), <2>1, <2>2, <3>1 DEF cycleVars
    <2>5. CASE AppendTo(x)
      <3> DEFINE n == Cardinality({u \in Tasks : future[u] \notin {"none", "dropped"}})
      <3>1. /\ place' = [place EXCEPT ![task[x]] = 1 + n]
            /\ gauge' = gauge + 1 /\ task' = [task EXCEPT ![x] = NoTask]
            /\ \/ pc' = [pc EXCEPT ![x] = "idle"]
               \/ \E w \in Workers : pc' = [pc EXCEPT ![x] = "idle", ![w] = "loop"]
        BY ZenonT(60), <2>5 DEF AppendTo, GoTo, LetGo
      <3>2. n \in Nat
        BY <1>a
      <3> HIDE DEF n
      <3>3. Locals
        <4>1. pc' \in [Actors -> {"idle", "enqueue", "release", "forget", "notify", "lock", "stop", "join", "loop",
                                  "sleep", "took", "start", "run", "count", "slot", "resolve", "exit"}]
          BY <3>1
        <4> QED
          BY <1>b, <2>1, <3>1
      <3>4. Counters
        <4>1. 1 + n \in Nat
          BY <3>2
        <4>2. ASSUME NEW m \in Nat, place' = [place EXCEPT ![task[x]] = m] PROVE place' \in [Tasks -> Nat]
          BY ZenonT(60), <4>2
        <4>3. place' \in [Tasks -> Nat]
          BY ZenonT(60), <3>1, <4>1
        <4> QED
          BY <3>1, <4>3
      <3> QED
        BY <2>1, <3>3, <3>4 DEF cycleVars
    <2> QED
      BY <2>1, <2>3, <2>4, <2>5
  <1>6. ASSUME NEW x \in Callers, Release(x) \/ Forget(x) \/ NotifyCancelled(x) PROVE Kept
    <2>1. CASE Release(x) \/ NotifyCancelled(x)
      BY <2>1 DEF Release, NotifyCancelled, GoTo, LetGo, cycleVars, queueVars, countVars
    <2>2. CASE Forget(x)
      <3>1. {task[x]} \in SUBSET Tasks
        <4>1. pc[x] = "forget"
          BY <2>2 DEF Forget
        <4>2. task[x] \in Tasks
          BY <4>1, ZenonT(60) DEF ExecutorInv, Shape
        <4> QED
          BY <4>2
      <3>2. gauge' = gauge \/ gauge' = gauge - Cardinality({task[x]})
        BY <2>2 DEF Forget, CountOut, countVars
      <3>3. gauge' \in Int
        BY <1>a, <3>1, <3>2
      <3> QED
        BY <2>2, <3>3 DEF Forget, GoTo, LetGo, cycleVars
    <2> QED
      BY <1>6, <2>1, <2>2
  <1>7. ASSUME NEW a \in Actors, CallShutdown(a) \/ TakeCycle(a) \/ Join(a) PROVE Kept
    <2>1. CASE CallShutdown(a)
      BY <2>1 DEF CallShutdown, GoTo, cycleVars, queueVars, countVars
    <2>2. CASE TakeCycle(a)
      BY <2>2 DEF TakeCycle, Return, GoTo, queueVars, countVars
    <2>3. CASE Join(a)
      <3>1. /\ UNCHANGED <<cycle, begun, stopping, place, cycleOf, gauge, task, end>> /\ closing' = 0
            /\ \E t \in {"idle", "run"} : pc' = [pc EXCEPT ![a] = t]
        BY ZenonT(60), <2>3 DEF Join, Return, GoTo, queueVars, countVars
      <3>2. 0 \in 0..MaxCycles
        BY ExecutorAssumption
      <3>3. Locals
        BY <3>1
      <3> QED
        BY ZenonT(60), <3>1, <3>2, <3>3
    <2> QED
      BY <1>7, <2>1, <2>2, <2>3
  <1>8. ASSUME NEW a \in Actors, StopCycle(a) PROVE Kept
    <2>1. {t \in Queue(closing) : future[t] = "pending"} \in SUBSET Tasks
      BY DEF Queue
    <2>2. gauge' = gauge - Cardinality({t \in Queue(closing) : future[t] = "pending"}) /\ place' = place
      BY <1>8 DEF StopCycle, CancelQueued, CountOut
    <2>3. Counters
      BY <2>2
    <2>4. closing \in Cycles
      BY <1>8 DEF StopCycle, PoolInv, OneCloses, Cycles
    <2> QED
      BY <1>8, <2>3, <2>4 DEF StopCycle, CancelQueued
  <1>9. ASSUME NEW w \in Workers, Sleep(w) \/ Leave(w) \/ Look(w) \/ Start(w) PROVE Kept
    BY ZenonT(60), <1>9 DEF Sleep, Leave, Look, Start, GoTo, cycleVars, queueVars, countVars
  <1>10. ASSUME NEW w \in Workers, RunEnds(w) \/ FreeSlot(w) \/ Resolve(w) PROVE Kept
    <2>1. CASE RunEnds(w)
      BY ZenonT(60), <2>1 DEF RunEnds, GoTo, cycleVars, queueVars, countVars
    <2>2. CASE FreeSlot(w)
      BY <2>2 DEF FreeSlot, GoTo, LetGo, cycleVars, queueVars, countVars
    <2>3. CASE Resolve(w)
      BY ZenonT(60), <2>3 DEF Resolve, GoTo, LetGo, cycleVars, queueVars, countVars
    <2> QED BY <1>10, <2>1, <2>2, <2>3
  <1>11. ASSUME NEW w \in Workers, Count(w) PROVE Kept
    <2>1. {task[w]} \in SUBSET Tasks
      <3>1. pc[w] = "count"
        BY <1>11 DEF Count
      <3>2. task[w] \in Tasks
        BY <3>1, ZenonT(60) DEF ExecutorInv, Shape, FreeSteps
      <3> QED
        BY <3>2
    <2>2. gauge' = gauge - Cardinality({task[w]})
      BY <1>11 DEF Count, CountOut
    <2>3. gauge' \in Int
      BY <2>2
    <2> QED
      BY <1>b, <1>11, <2>3 DEF Count, GoTo, cycleVars, queueVars
  <1>12. ASSUME NEW w \in Workers, NEW t \in Tasks, Take(w, t) PROVE Kept
    BY <1>b, <1>12 DEF Take, GoTo, cycleVars, countVars
  <1>13. ASSUME UNCHANGED vars PROVE Kept
    BY <1>13 DEF vars, cycleVars, queueVars, countVars, actorVars
  <1> HIDE <1>2 DEF Kept, TypeOK
  <1>14. ASSUME NEW x \in Callers, Call(x) PROVE Kept
    BY <1>3, <1>4, <1>14 DEF Call
  <1>15. ASSUME NEW a \in Actors, CallShutdown(a) \/ GoOn(a) PROVE Kept
    BY ZenonT(60), <1>5, <1>6, <1>7, <1>8, <1>9, <1>10, <1>11, <1>12, <1>15 DEF GoOn
  <1> QED
    BY ZenonT(60), <1>13, <1>14, <1>15 DEF Next

\* _lifecycle is taken by one shutdown at a time.
LEMMA ClosesStep ==
    ASSUME ExecutorInv, PoolInv, [Next]_vars
    PROVE  OneCloses'
  <1>1. OneCloses /\ DOMAIN pc = Actors /\ pc = [a \in Actors |-> pc[a]]
    BY DEF PoolInv, PoolIsBounded, TypeOK
  <1>2. ASSUME closing' = closing, \A a \in Actors : pc'[a] \in {"stop", "join"} => pc[a] \in {"stop", "join"}
        PROVE  OneCloses'
    BY <1>1, <1>2 DEF OneCloses
  <1>b. Callers \subseteq Actors /\ Workers \subseteq Actors
    BY DEF Actors
  <1>3. ASSUME NEW x \in Callers, Call(x) PROVE OneCloses'
    <2>1. ASSUME NEW t \in Tasks, Submit(x, t) \/ Cancel(x, t) \/ Discard(x, t) PROVE OneCloses'
      BY <1>1, <1>2, <2>1 DEF Submit, Cancel, Discard, GoTo, cycleVars, actorVars
    <2>2. CASE Begin(x)
      BY <1>2, <2>2 DEF Begin
    <2> QED
      BY <1>3, <2>1, <2>2 DEF Call
  <1>4. ASSUME NEW x \in Callers, Enqueue(x) PROVE OneCloses'
    <2>1. /\ closing' = closing
          /\ \/ pc' = [pc EXCEPT ![x] = "idle"] \/ pc' = [pc EXCEPT ![x] = "release"]
             \/ \E w \in Workers : pc' = [pc EXCEPT ![x] = "idle", ![w] = "loop"]
      BY ZenonT(60), <1>4 DEF Enqueue, Drop, Replace, AppendTo, GoTo, cycleVars
    <2> QED
      BY <1>1, <1>2, <2>1
  <1>5. ASSUME NEW x \in Callers, Release(x) \/ Forget(x) \/ NotifyCancelled(x) PROVE OneCloses'
    BY <1>1, <1>2, <1>5 DEF Release, Forget, NotifyCancelled, GoTo, cycleVars
  <1>6. ASSUME NEW a \in Actors, CallShutdown(a) PROVE OneCloses'
    <2>1. closing' = closing /\ pc' = [pc EXCEPT ![a] = "lock"]
      BY ZenonT(60), <1>6 DEF CallShutdown, GoTo, cycleVars
    <2> QED
      BY <1>1, <1>2, <2>1
  <1>7. ASSUME NEW a \in Actors, TakeCycle(a) PROVE OneCloses'
    <2>1. /\ \A b \in Actors : pc[b] \notin {"stop", "join"}
          /\ closing' = cycle
          /\ \/ cycle = 0 /\ pc' \in {[pc EXCEPT ![a] = "idle"], [pc EXCEPT ![a] = "run"]}
             \/ cycle # 0 /\ pc' = [pc EXCEPT ![a] = "stop"]
      BY <1>1, <1>7 DEF TakeCycle, OneCloses, Return, GoTo
    <2> QED
      BY <1>1, <2>1 DEF OneCloses
  <1>8. ASSUME NEW a \in Actors, StopCycle(a) PROVE OneCloses'
    BY <1>2, <1>8 DEF StopCycle
  <1>9. ASSUME NEW a \in Actors, Join(a) PROVE OneCloses'
    <2>1. pc[a] = "join" /\ (pc' = [pc EXCEPT ![a] = "idle"] \/ pc' = [pc EXCEPT ![a] = "run"])
      BY ZenonT(60), <1>9 DEF Join, Return, GoTo
    <2>2. \A b \in Actors : pc'[b] \notin {"stop", "join"}
      BY <1>1, <2>1 DEF OneCloses
    <2> QED
      BY <2>2 DEF OneCloses
  <1>10. ASSUME NEW w \in Workers, Sleep(w) \/ Leave(w) \/ Look(w) \/ Start(w) \/ RunEnds(w) \/ FreeSlot(w) \/ Resolve(w) \/ Count(w)
         PROVE  OneCloses'
    BY <1>1, <1>2, <1>10 DEF Sleep, Leave, Look, Start, RunEnds, FreeSlot, Resolve, Count, GoTo, cycleVars
  <1>11. ASSUME NEW w \in Workers, NEW t \in Tasks, Take(w, t) PROVE OneCloses'
    <2>1. closing' = closing /\ pc' = [pc EXCEPT ![w] = "took"]
      BY ZenonT(60), <1>11 DEF Take, GoTo, cycleVars
    <2> QED
      BY <1>1, <1>2, <2>1
  <1>12. ASSUME UNCHANGED vars PROVE OneCloses'
    BY <1>2, <1>12 DEF vars, cycleVars, actorVars
  <1>13. ASSUME NEW a \in Actors, CallShutdown(a) \/ GoOn(a) PROVE OneCloses'
    BY ZenonT(60), <1>4, <1>5, <1>6, <1>7, <1>8, <1>9, <1>10, <1>11, <1>13 DEF GoOn
  <1> QED
    BY ZenonT(60), <1>3, <1>12, <1>13 DEF Next

\* A process that never began a cycle has none, and has accepted nothing.
LEMMA BegunStep ==
    ASSUME ExecutorInv, PoolInv, [Next]_vars
    PROVE  begun' = 0 => cycle' = 0 /\ \A t \in Tasks : cycleOf'[t] = 0
  <1> DEFINE New == begun' = 0 => cycle' = 0 /\ \A t \in Tasks : cycleOf'[t] = 0
  <1>1. (begun = 0 => cycle = 0 /\ \A t \in Tasks : cycleOf[t] = 0) /\ begun \in Nat
    BY DEF PoolInv, ExecutorInv, Shape
  <1>2. ASSUME UNCHANGED <<cycle, begun, cycleOf>> PROVE New
    BY <1>1, <1>2
  <1>3. ASSUME NEW x \in Callers, Call(x) PROVE New
    <2>1. ASSUME NEW t \in Tasks, Submit(x, t) PROVE New
      BY <1>1, <2>1 DEF Submit, cycleVars
    <2>2. ASSUME NEW t \in Tasks, Cancel(x, t) \/ Discard(x, t) PROVE New
      BY <1>2, <2>2 DEF Cancel, Discard, CancelQueued, cycleVars, queueVars
    <2>3. CASE Begin(x)
      <3>1. begun' = begun + 1
        BY ZenonT(60), <2>3 DEF Begin
      <3> QED
        BY <1>1, <3>1
    <2> QED
      BY <1>3, <2>1, <2>2, <2>3 DEF Call
  <1>4. ASSUME NEW a \in Actors, CallShutdown(a) \/ TakeCycle(a) \/ StopCycle(a) \/ Join(a) PROVE New
    BY <1>1, <1>4 DEF CallShutdown, TakeCycle, StopCycle, Join, CancelQueued, cycleVars, queueVars
  <1>5. ASSUME NEW x \in Callers, Enqueue(x) \/ Release(x) \/ Forget(x) \/ NotifyCancelled(x) PROVE New
    BY <1>2, <1>5 DEF Enqueue, Release, Forget, NotifyCancelled, cycleVars, queueVars
  <1>6. ASSUME NEW w \in Workers, Sleep(w) \/ Leave(w) \/ Look(w) \/ Start(w) \/ RunEnds(w) \/ FreeSlot(w) \/ Resolve(w) \/ Count(w)
        PROVE  New
    BY <1>2, <1>6 DEF Sleep, Leave, Look, Start, RunEnds, FreeSlot, Resolve, Count, cycleVars, queueVars
  <1>7. ASSUME NEW w \in Workers, NEW t \in Tasks, Take(w, t) PROVE New
    BY <1>2, <1>7 DEF Take, cycleVars
  <1>8. ASSUME UNCHANGED vars PROVE New
    BY <1>2, <1>8 DEF vars, cycleVars, queueVars
  <1> HIDE DEF New
  <1>9. ASSUME NEW a \in Actors, CallShutdown(a) \/ GoOn(a) PROVE New
    BY ZenonT(60), <1>4, <1>5, <1>6, <1>7, <1>9 DEF GoOn
  <1>10. New
    BY ZenonT(60), <1>3, <1>8, <1>9 DEF Next
  <1> QED
    BY <1>10 DEF New

\* The strengthened invariant of the pool holds at the start ...
LEMMA PoolInit == Init => PoolInv
  <1> SUFFICES ASSUME Init PROVE PoolInv
    OBVIOUS
  <1> USE DEF Init
  <1>1. TypeOK
    BY ExecutorAssumption DEF TypeOK
  <1>2. \A c : Queue(c) = {} /\ Occupied(c) = {}
    BY DEF Queue, Occupied, BusySteps, HoldingSteps, Actors
  <1>3. ShareRespected /\ \A c \in Cycles : running[c] = Cardinality(Occupied(c))
    BY SMTT(60), <1>2, FS_EmptySet, ExecutorAssumption DEF ShareRespected
  <1>4. OneWaitsPerKey /\ GaugeExact /\ OneCloses
    BY DEF OneWaitsPerKey, GaugeExact, OneCloses
  <1> QED
    BY <1>1, <1>3, <1>4 DEF PoolInv, PoolIsBounded

\* ... and every step keeps it.
LEMMA PoolStep ==
    ASSUME ExecutorInv, ExecutorInv', PoolInv, [Next]_vars
    PROVE  PoolInv'
  <1>1. \A c \in Cycles : running'[c] = Cardinality(Occupied(c)') /\ running'[c] \in Nat
    BY SlotsCounted
  <1>2. running' \in [Cycles -> Nat]
    <2>1. running \in [Cycles -> Nat]
      BY DEF PoolInv, PoolIsBounded, TypeOK
    <2>2. CASE running' = running
      BY <2>1, <2>2
    <2>3. ASSUME NEW w \in Workers, FreeSlot(w) \/ \E t \in Tasks : Take(w, t) PROVE running' \in [Cycles -> Nat]
      <3>1. running' = [running EXCEPT ![w[1]] = @ - 1] \/ running' = [running EXCEPT ![w[1]] = @ + 1]
        BY <2>3 DEF FreeSlot, Take
      <3> QED
        BY <1>1, <2>1, <3>1
    <2>4. ASSUME NEW x \in Callers, Enqueue(x) PROVE running' = running
      BY <2>4 DEF Enqueue
    <2> QED
      BY <2>2, <2>3, <2>4, QueueChanges
  <1>3. TypeOK'
    BY <1>2, PoolTypes
  <1>4. ShareRespected'
    <2>1. \A c \in Cycles : Cardinality(Queue(c)') + running'[c] <= PoolLimit
      BY ShareStep
    <2> QED
      BY <2>1 DEF ShareRespected
  <1>5. OneWaitsPerKey' /\ GaugeExact' /\ OneCloses' /\ (begun' = 0 => cycle' = 0 /\ \A t \in Tasks : cycleOf'[t] = 0)
    BY KeysStep, GaugeStep, ClosesStep, BegunStep
  <1> QED
    BY <1>1, <1>3, <1>4, <1>5 DEF PoolInv, PoolIsBounded

\* However submits, replacements, cancellations, threads and shutdowns interleave,
\* and whatever the tasks, the threads and the limit, the pool of a cycle never
\* holds more unfinished tasks than its share, at most one task waits under a key,
\* and in the first cycle background_executor_pending is exact (enqueue, pending,
\* waiting_index, _finish).
THEOREM ExecutorPoolIsBounded == Spec => []PoolIsBounded
  <1>1. Init => ExecutorInv /\ PoolInv
    BY ExecutorStart, PoolInit
  <1>2. ExecutorInv /\ PoolInv /\ [Next]_vars => (ExecutorInv /\ PoolInv)'
    BY ExecutorStep, PoolStep
  <1>3. PoolInv => PoolIsBounded
    BY DEF PoolInv
  <1> QED
    BY <1>1, <1>2, <1>3, PTL DEF Spec

=============================================================================
