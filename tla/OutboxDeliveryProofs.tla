------------------------ MODULE OutboxDeliveryProofs ------------------------
(***************************************************************************)
(* The delivery of the outbox keeps the promise of AtLeastOnce, and a      *)
(* confirmed row is not sent again, for every set of rows, channels and    *)
(* regions and every value of the configuration.                           *)
(***************************************************************************)
EXTENDS OutboxDelivery, TLAPS

\* Where the rows of the drain are: what is about to be sent or was sent in vain
\* is still owed, what is about to be deleted has landed, and a confirmed row
\* that is still in the table is the next to be deleted.
DrainInv ==
    /\ table \subseteq ever /\ ever \subseteq Rows
    /\ tries \in [Rows -> 0..2]
    /\ batch \cup failed \subseteq table \ parked
    /\ acked \subseteq (table \cap landed) \ parked
    /\ batch \cap (acked \cup failed) = {}
    /\ acked \cap failed = {}
    /\ pc # "delete" => acked = {}
    /\ pc \notin {"delete", "keep", "park"} => failed = {}
    /\ confirmed \cap table \subseteq acked
    /\ confirmed \subseteq ever

\* The first rows of a set are rows of the set.
LEMMA FirstRowsSubset == ASSUME NEW S PROVE FirstRows(S) \subseteq S
  BY DEF FirstRows

\* A send counts the rows it was given, and only those.
LEMMA SentTries ==
    ASSUME NEW S, NEW b, NEW s, NEW d, tries \in [Rows -> 0..2], Sent(S, b, s, d)
    PROVE  /\ tries' \in [Rows -> 0..2]
           /\ \A r \in Rows : tries'[r] > tries[r] => r \in S
  BY DEF Sent, Least

\* The same, for the two outcomes the breaker is told of.
LEMMA SentEitherWayTries ==
    ASSUME NEW S, NEW b, NEW d, tries \in [Rows -> 0..2], SentWell(S, b, d) \/ SentInVain(S, b, d)
    PROVE  /\ tries' \in [Rows -> 0..2]
           /\ \A r \in Rows : tries'[r] > tries[r] => r \in S
  BY SentTries DEF SentWell, SentInVain

\* Initially the table is empty.
LEMMA DrainInit == Init => DrainInv
  BY DEF Init, DrainInv

\* A row only goes from the batch to the rows to delete, to keep or to park.
LEMMA DrainStep ==
    ASSUME DrainInv, [Next]_vars
    PROVE  DrainInv'
  <1>1. ASSUME NEW r \in Rows, Enqueue(r) PROVE DrainInv'
    BY <1>1 DEF DrainInv, Enqueue, drainVars
  <1>2. CASE RunTask
    <2>1. tries' \in [Rows -> 0..2]
      BY <1>2 DEF RunTask
    <2> QED
      BY <1>2, <2>1 DEF DrainInv, RunTask
  <1>3. CASE Drain
    BY <1>3 DEF DrainInv, Drain, tableVars, historyVars
  <1>4. CASE NextRegion
    BY <1>4 DEF DrainInv, NextRegion, tableVars, historyVars
  <1>5. CASE Fetch
    <2>1. batch' \subseteq table \ parked
      BY <1>5, FirstRowsSubset DEF Fetch, DueOf
    <2>2. acked = {} /\ failed = {}
      BY <1>5 DEF Fetch, DrainInv
    <2> QED
      BY <1>5, <2>1, <2>2 DEF DrainInv, Fetch, tableVars, historyVars
  <1>6. CASE SendBatch
    <2>1. PICK ok \in SUBSET batch, late \in SUBSET batch, d \in SendTimes :
             /\ landed' = landed \cup ok \cup late
             /\ confirmed' = confirmed \cup ok
             /\ acked' = ok
             /\ failed' = batch \ ok
             /\ \/ ok # {} /\ SentWell(batch, breaker, d) /\ pc' = "delete"
                \/ ok = {} /\ SentInVain(batch, breaker, d) /\ pc' = "keep"
      BY <1>6 DEF SendBatch
    <2>2. tries' \in [Rows -> 0..2]
      BY <2>1, SentEitherWayTries DEF DrainInv
    <2>3. batch' = {} /\ table' = table /\ parked' = parked /\ ever' = ever /\ acked = {}
      BY <1>6 DEF SendBatch, DrainInv
    <2> QED
      BY <2>1, <2>2, <2>3 DEF DrainInv
  <1>7. CASE LeaveBatch
    BY <1>7 DEF DrainInv, LeaveBatch, tableVars, historyVars
  <1>8. CASE SendOne
    <2>1. PICK r \in batch, d \in SendTimes, b \in {Asked(breaker, Pause)} :
             /\ batch' = batch \ {r}
             /\ OneDelivered(r, b, d) \/ OneRetryable(r, b, d) \/ OnePermanent(r, b, d)
      BY <1>8 DEF SendOne
    <2>2. tries' \in [Rows -> 0..2]
      BY <2>1, SentTries, SentEitherWayTries DEF DrainInv, OneDelivered, OneRetryable, OnePermanent
    <2>3. table' = table /\ parked' = parked /\ ever' = ever /\ acked = {} /\ failed = {}
      BY <1>8 DEF SendOne, DrainInv
    <2>5. CASE OneDelivered(r, b, d)
      BY <2>1, <2>2, <2>3, <2>5 DEF DrainInv, OneDelivered
    <2>6. CASE OneRetryable(r, b, d)
      BY <2>1, <2>2, <2>3, <2>6 DEF DrainInv, OneRetryable
    <2>7. CASE OnePermanent(r, b, d)
      BY <2>1, <2>2, <2>3, <2>7 DEF DrainInv, OnePermanent
    <2> QED
      BY <2>1, <2>5, <2>6, <2>7
  <1>9. CASE DeleteDelivered
    BY <1>9 DEF DrainInv, DeleteDelivered, Continue, historyVars
  <1>10. CASE KeepForRetry
    BY <1>10 DEF DrainInv, KeepForRetry, Continue, historyVars
  <1>11. CASE MarkUnrecoverable
    BY <1>11 DEF DrainInv, MarkUnrecoverable, Continue, historyVars
  <1>12. CASE DatabaseFails \/ Restart
    BY <1>12 DEF DrainInv, DatabaseFails, Restart, Abandon, tableVars
  <1>13. CASE UNCHANGED vars
    BY <1>13 DEF DrainInv, vars, tableVars, historyVars, drainVars
  <1> QED
    BY <1>1, <1>2, <1>3, <1>4, <1>5, <1>6, <1>7, <1>8, <1>9, <1>10, <1>11, <1>12, <1>13 DEF Next, Tick

\* Every step takes, deletes or parks rows the way AtLeastOnce allows, or leaves
\* the table and the destination alone.
LEMMA PromiseStep ==
    ASSUME DrainInv, [Next]_vars
    PROVE  [Promise!Next]_(Promise!promiseVars)
  <1> USE DEF Promise!Next, Promise!promiseVars
  <1>1. ASSUME NEW r \in Rows, Enqueue(r) PROVE Promise!Insert(r)
    BY <1>1 DEF Enqueue, Promise!Insert
  <1>2. CASE SendBatch
    <2>1. PICK ok \in SUBSET batch, late \in SUBSET batch : landed' = landed \cup ok \cup late
      BY ZenonT(60), <1>2 DEF SendBatch
    <2>2. Promise!Take(ok \cup late)
      BY <1>2, <2>1 DEF SendBatch, DrainInv, Promise!Take
    <2> QED
      BY <2>2 DEF DrainInv
  <1>3. CASE SendOne
    <2>1. PICK r \in batch : UNCHANGED landed \/ landed' = landed \cup {r}
      BY <1>3 DEF SendOne, OneDelivered, OneRetryable, OnePermanent
    <2>2. Promise!Take({r}) \/ UNCHANGED <<table, parked, landed, ever>>
      BY <1>3, <2>1 DEF SendOne, DrainInv, Promise!Take
    <2>3. {r} \in SUBSET Rows
      BY DEF DrainInv
    <2> QED
      BY <2>2, <2>3
  <1>4. CASE DeleteDelivered
    <2>1. Promise!Leave(acked)
      BY <1>4 DEF DeleteDelivered, Continue, historyVars, DrainInv, Promise!Leave
    <2>2. acked \in SUBSET Rows
      BY DEF DrainInv
    <2> QED
      BY <2>1, <2>2
  <1>5. CASE MarkUnrecoverable
    <2>1. Promise!Park(failed)
      BY <1>5 DEF MarkUnrecoverable, historyVars, DrainInv, Promise!Park
    <2>2. failed \in SUBSET Rows
      BY DEF DrainInv
    <2> QED
      BY <2>1, <2>2
  <1>6. CASE RunTask \/ Drain \/ NextRegion \/ Fetch \/ LeaveBatch \/ KeepForRetry
    BY <1>6 DEF RunTask, Drain, NextRegion, Fetch, LeaveBatch, KeepForRetry, tableVars, historyVars
  <1>7. CASE DatabaseFails \/ Restart
    BY <1>7 DEF DatabaseFails, Restart, Abandon, tableVars
  <1>8. CASE UNCHANGED vars
    BY <1>8 DEF vars, tableVars, historyVars
  <1> QED
    BY <1>1, <1>2, <1>3, <1>4, <1>5, <1>6, <1>7, <1>8 DEF Next, Tick

\* Initially nothing is owed.
LEMMA PromiseInit == Init => Promise!Init
  BY DEF Init, Promise!Init

\* DrainInv holds in every reachable state.
THEOREM DrainCorrect == Spec => []DrainInv
  BY DrainInit, DrainStep, PTL DEF Spec

\* The outbox delivers every message at least once or keeps its row, whatever
\* restarts, database errors and lost confirmations come in between.
THEOREM OutboxKeepsItsPromise == Spec => DeliversAtLeastOnce
  BY DrainCorrect, PromiseInit, PromiseStep, PTL DEF Spec, DeliversAtLeastOnce, Promise!Spec

\* A send is the only way to count a try, and only the rows of the batch are sent.
LEMMA OnlyTheBatchIsSent ==
    ASSUME DrainInv, [Next]_vars, NEW r \in Rows, tries'[r] > tries[r]
    PROVE  r \in batch /\ (SendBatch \/ SendOne)
  <1>1. tries \in [Rows -> 0..2]
    BY DEF DrainInv
  <1>2. CASE SendBatch
    <2>1. PICK d : SentWell(batch, breaker, d) \/ SentInVain(batch, breaker, d)
      BY <1>2 DEF SendBatch
    <2> QED
      BY SMTT(60), <1>1, <1>2, <2>1, SentEitherWayTries
  <1>3. CASE SendOne
    <2>1. PICK q \in batch, d \in SendTimes, b \in {Asked(breaker, Pause)} :
             OneDelivered(q, b, d) \/ OneRetryable(q, b, d) \/ OnePermanent(q, b, d)
      BY SMTT(60), <1>3 DEF SendOne
    <2>2. r \in {q}
      BY <1>1, <2>1, SentTries, SentEitherWayTries DEF OneDelivered, OneRetryable, OnePermanent
    <2> QED
      BY <1>3, <2>2
  <1>4. CASE RunTask
    BY SMTT(60), <1>1, <1>4 DEF RunTask
  <1>5. CASE \/ Drain \/ NextRegion \/ Fetch \/ LeaveBatch \/ DeleteDelivered \/ KeepForRetry \/ MarkUnrecoverable
             \/ DatabaseFails \/ Restart \/ \E q \in Rows : Enqueue(q)
    BY <1>1, <1>5 DEF Drain, NextRegion, Fetch, LeaveBatch, DeleteDelivered, KeepForRetry, MarkUnrecoverable,
       DatabaseFails, Restart, Abandon, Enqueue, historyVars
  <1>6. CASE UNCHANGED vars
    BY <1>1, <1>6 DEF vars, historyVars
  <1> QED
    BY <1>2, <1>3, <1>4, <1>5, <1>6 DEF Next, Tick

\* None of the rows that are sent was confirmed before.
LEMMA ConfirmedStep ==
    ASSUME DrainInv, [Next]_vars
    PROVE  \A r \in Rows : tries'[r] > tries[r] => r \notin confirmed
  <1> SUFFICES ASSUME NEW r \in Rows, tries'[r] > tries[r] PROVE r \notin confirmed
    OBVIOUS
  <1>1. r \in batch /\ pc = "send"
    BY OnlyTheBatchIsSent DEF SendBatch, SendOne
  <1> QED
    BY <1>1 DEF DrainInv

\* A confirmed row is not sent again, unless its delete was lost.
THEOREM OutboxConfirmsOnce == Spec => ConfirmedOnce
  <1>1. DrainInv /\ [Next]_vars => [\A r \in Rows : tries'[r] > tries[r] => r \notin confirmed]_vars
    BY ConfirmedStep
  <1> QED
    BY <1>1, DrainCorrect, PTL DEF Spec, ConfirmedOnce

-----------------------------------------------------------------------------
(* A tick makes at most one attempt per row. *)

Draining == pc \notin {"idle", "drain"}
Sending == {"send", "delete", "keep", "park"}

\* The types, and the rows in hand belong to the channel that is drained.
TickTypes ==
    /\ attempts \in [Rows -> Nat]
    /\ wait \in [Rows -> Nat]
    /\ left \in Nat /\ left <= Budget
    /\ channel \in Nat \ {0}
    /\ Draining => channel <= Len(Channels)
    /\ pc \notin Sending => batch \cup failed = {}
    /\ \A r \in batch \cup failed : ChannelOf[r] = Channels[channel]

\* The channel of the row has had its turn, or has it now.
Served(r) ==
    \E i \in DOMAIN Channels : ChannelOf[r] = Channels[i] /\ (i < channel \/ (i = channel /\ pc # "drain"))

\* A row that was sent in this tick is not in the batch, and if it is still owed
\* it waits for longer than the drain of its channel may go on.
TickInv ==
    /\ \A r \in Rows : tries[r] <= 1
    /\ \A r \in batch : tries[r] = 0
    /\ \A r \in Rows : tries[r] > 0 => r \in ever /\ (pc # "idle" => Served(r))
    /\ Draining => \A r \in (table \ parked) \ (acked \cup failed) :
          tries[r] > 0 /\ ChannelOf[r] = Channels[channel] => wait[r] >= left

\* The constants as the provers need them.
LEMMA Constants ==
    /\ MIN_RETRY_WAIT \in Nat /\ MAX_RETRY_WAIT \in Nat /\ MAX_RETRY_DOUBLINGS \in Nat
    /\ RetryBase \in Nat /\ RetryMax \in Nat /\ Budget \in Nat /\ Gap \in Nat /\ MaxAttempts \in Nat
    /\ SendTimes \subseteq Nat
    /\ Budget <= MIN_RETRY_WAIT
    /\ Len(Channels) \in Nat /\ DOMAIN Channels = 1..Len(Channels)
    /\ \A i, k \in DOMAIN Channels : Channels[i] = Channels[k] => i = k
  BY SMTT(60), OutboxAssumption

\* No wait is shorter than the minimum.
LEMMA RetryWaitType == ASSUME NEW n \in Nat PROVE RetryWait(n + 1) \in Nat /\ RetryWait(n + 1) >= MIN_RETRY_WAIT
  <1>1. Least((n + 1) - 1, MAX_RETRY_DOUBLINGS) \in Nat
    BY Constants DEF Least
  <1>2. ASSUME NEW k \in Nat PROVE 2 ^ k \in Int
    BY SMT
  <1>3. RetryBase * 2 ^ Least((n + 1) - 1, MAX_RETRY_DOUBLINGS) \in Int
    BY <1>1, <1>2, Constants
  <1> DEFINE w == RetryBase * 2 ^ Least((n + 1) - 1, MAX_RETRY_DOUBLINGS)
  <1> HIDE DEF w
  <1>4. w \in Int
    BY <1>3 DEF w
  <1>5. Most(MIN_RETRY_WAIT, Least(Least(w, RetryMax), MAX_RETRY_WAIT)) \in Nat
    BY <1>4, Constants DEF Most, Least
  <1>6. Most(MIN_RETRY_WAIT, Least(Least(w, RetryMax), MAX_RETRY_WAIT)) >= MIN_RETRY_WAIT
    BY <1>4, Constants DEF Most, Least
  <1> QED
    BY <1>5, <1>6 DEF RetryWait, w

\* Time runs down alike for the waits and for the budget.
LEMMA AfterType ==
    ASSUME NEW d \in Nat, NEW n \in Nat
    PROVE  After(n, d) \in Nat /\ After(n, d) <= n /\ \A k \in Nat : n <= k => After(n, d) <= After(k, d)
  BY DEF After

\* Every step keeps the types.
LEMMA TickTypesStep ==
    ASSUME TickTypes, DrainInv, [Next]_vars
    PROVE  TickTypes'
  <1> USE DEF Draining, Sending
  <1>1. ASSUME NEW r \in Rows, Enqueue(r) PROVE TickTypes'
    BY SMTT(60), <1>1 DEF TickTypes, Enqueue, drainVars
  <1>2. CASE RunTask
    <2>1. wait' \in [Rows -> Nat]
      BY ZenonT(60), <1>2, Constants, AfterType DEF RunTask, WaitAfter, TickTypes
    <2> QED
      BY SMTT(60), <1>2, <2>1 DEF TickTypes, RunTask
  <1>3. CASE Drain
    BY SMTT(60), <1>3, Constants DEF TickTypes, Drain, tableVars
  <1>4. CASE NextRegion
    BY SMTT(60), <1>4, Constants DEF TickTypes, NextRegion, tableVars
  <1>5. CASE Fetch
    <2>1. \A r \in batch' : ChannelOf[r] = Channels[channel]
      BY <1>5, FirstRowsSubset DEF Fetch, DueOf
    <2> QED
      BY <1>5, <2>1 DEF TickTypes, Fetch, tableVars
  <1>6. ASSUME NEW S, NEW b, NEW s, NEW d \in SendTimes, Sent(S, b, s, d)
        PROVE  wait' \in [Rows -> Nat] /\ left' \in Nat /\ left' <= Budget
    <2>1. d \in Nat /\ Budget \in Nat
      BY SMTT(60), Constants
    <2> QED
      BY <1>6, <2>1, AfterType DEF Sent, WaitAfter, TickTypes
  <1>7. CASE SendBatch
    <2>1. PICK ok \in SUBSET batch, d \in SendTimes :
             /\ failed' = batch \ ok
             /\ SentWell(batch, breaker, d) \/ SentInVain(batch, breaker, d)
             /\ pc' \in {"delete", "keep"}
      BY ZenonT(60), <1>7 DEF SendBatch
    <2>2. wait' \in [Rows -> Nat] /\ left' \in Nat /\ left' <= Budget
      BY <1>6, <2>1 DEF SentWell, SentInVain
    <2> QED
      BY <1>7, <2>1, <2>2 DEF TickTypes, SendBatch
  <1>8. CASE LeaveBatch
    BY <1>8 DEF TickTypes, LeaveBatch, tableVars, DrainInv
  <1>9. CASE SendOne
    <2>1. PICK r \in batch, d \in SendTimes, b \in {Asked(breaker, Pause)} :
             /\ batch' = batch \ {r}
             /\ OneDelivered(r, b, d) \/ OneRetryable(r, b, d) \/ OnePermanent(r, b, d)
      BY SMTT(60), <1>9 DEF SendOne
    <2>2. wait' \in [Rows -> Nat] /\ left' \in Nat /\ left' <= Budget
      BY <1>6, <2>1 DEF OneDelivered, OneRetryable, OnePermanent, SentWell, SentInVain
    <2>3. failed' \subseteq {r} /\ pc' \in {"delete", "keep", "park"}
      BY <2>1 DEF OneDelivered, OneRetryable, OnePermanent
    <2> QED
      BY <1>9, <2>1, <2>2, <2>3 DEF TickTypes, SendOne
  <1>10. CASE DeleteDelivered
    BY SMTT(60), <1>10 DEF TickTypes, DeleteDelivered, Continue
  <1>11. CASE KeepForRetry
    <2>1. attempts' \in [Rows -> Nat] /\ wait' \in [Rows -> Nat]
      BY SMTT(60), <1>11, Constants, RetryWaitType DEF KeepForRetry, Least, TickTypes
    <2> QED
      BY <1>11, <2>1 DEF TickTypes, KeepForRetry, Continue
  <1>12. CASE MarkUnrecoverable
    <2>1. attempts' \in [Rows -> Nat]
      BY SMTT(60), <1>12, Constants DEF MarkUnrecoverable, Least, TickTypes
    <2> QED
      BY <1>12, <2>1 DEF TickTypes, MarkUnrecoverable, Continue
  <1>13. CASE DatabaseFails \/ Restart
    BY SMTT(60), <1>13 DEF TickTypes, DatabaseFails, Restart, Abandon, tableVars
  <1>14. CASE UNCHANGED vars
    BY SMTT(60), <1>14 DEF TickTypes, vars, tableVars, drainVars
  <1> QED
    BY SMTT(60), <1>1, <1>2, <1>3, <1>4, <1>5, <1>7, <1>8, <1>9, <1>10, <1>11, <1>12, <1>13, <1>14 DEF Next, Tick

\* Sending a row that was not tried in this tick, from the channel in turn.
LEMMA TickSend ==
    ASSUME TickTypes, DrainInv, TickInv, pc = "send", pc' \in {"delete", "keep", "park"},
           NEW S \in SUBSET batch, NEW b, NEW s, NEW d \in SendTimes, Sent(S, b, s, d),
           batch' \subseteq batch \ S, acked' \cup failed' = S,
           UNCHANGED <<table, parked, ever, channel>>
    PROVE  TickInv'
  <1> USE DEF Draining, Sending
  <1>1. S \subseteq Rows /\ S \subseteq ever /\ batch \subseteq Rows /\ tries \in [Rows -> 0..2]
    BY DEF DrainInv
  <1>2. tries' = [r \in Rows |-> IF r \in S THEN Least(tries[r] + 1, 2) ELSE tries[r]]
    BY SMTT(60) DEF Sent
  <1>3. \A r \in S : tries'[r] = 1
    BY <1>1, <1>2 DEF TickInv, Least
  <1>4. \A r \in Rows \ S : tries'[r] = tries[r]
    BY SMTT(60), <1>2
  <1>5. channel \in DOMAIN Channels /\ \A r \in batch : ChannelOf[r] = Channels[channel]
    BY Constants DEF TickTypes
  <1>6. \A r \in Rows : tries'[r] > 0 => r \in ever' /\ Served(r)'
    <2> SUFFICES ASSUME NEW r \in Rows, tries'[r] > 0 PROVE r \in ever' /\ Served(r)'
      BY SMTT(60)
    <2>1. CASE r \in S
      BY SMTT(60), <1>1, <1>5, <2>1 DEF Served
    <2>2. CASE r \notin S
      BY SMTT(60), <1>4, <2>2 DEF TickInv, Served
    <2> QED
      BY <2>1, <2>2
  <1>7. ASSUME NEW r \in ((table \ parked) \ (acked \cup failed))', tries'[r] > 0, ChannelOf[r] = Channels[channel]
        PROVE  wait'[r] >= left'
    <2>1. r \in (table \ parked) \ S /\ r \in Rows /\ acked = {} /\ failed = {}
      BY <1>7 DEF DrainInv
    <2>2. wait[r] >= left
      BY <1>4, <1>7, <2>1 DEF TickInv
    <2>3. wait'[r] = After(wait[r], d) /\ left' = After(left, d)
      BY <2>1 DEF Sent, WaitAfter
    <2>4. wait[r] \in Nat /\ left \in Nat /\ d \in Nat
      BY <2>1, Constants DEF TickTypes
    <2>5. After(wait[r], d) >= After(left, d)
      BY <2>2, <2>4 DEF After
    <2> QED
      BY <2>3, <2>5
  <1>8. \A r \in batch' : tries'[r] = 0
    BY <1>1, <1>4 DEF TickInv
  <1>9. \A r \in Rows : tries'[r] <= 1
    BY <1>1, <1>3, <1>4 DEF TickInv
  <1> QED
    BY <1>6, <1>7, <1>8, <1>9 DEF TickInv

\* Every step keeps TickInv.
LEMMA TickStep ==
    ASSUME TickTypes, DrainInv, TickInv, [Next]_vars
    PROVE  TickInv'
  <1> USE DEF Draining, Sending
  <1>0. tries \in [Rows -> 0..2] /\ table \subseteq Rows
    BY DEF DrainInv
  <1>1. ASSUME NEW r \in Rows, Enqueue(r) PROVE TickInv'
    <2>1. tries[r] = 0
      BY <1>0, <1>1 DEF TickInv, Enqueue
    <2> QED
      BY <1>0, <1>1, <2>1 DEF TickInv, Enqueue, drainVars, Served
  <1>2. CASE RunTask
    BY <1>2 DEF TickInv, TickTypes, RunTask, Served
  <1>3. CASE Drain
    <2>1. CASE channel <= Len(Channels)
      <3>1. ASSUME NEW r \in Rows, tries[r] > 0 PROVE ChannelOf[r] # Channels[channel]
        <4>1. PICK i \in DOMAIN Channels : ChannelOf[r] = Channels[i] /\ i < channel
          BY <1>3, <3>1 DEF Drain, TickInv, Served
        <4> QED
          BY SMTT(60), <2>1, <4>1, Constants DEF TickTypes
      <3> QED
        BY <1>0, <1>3, <2>1, <3>1 DEF TickInv, Drain, Served, tableVars, historyVars
    <2>2. CASE ~(channel <= Len(Channels))
      BY SMTT(60), <1>3, <2>2, Constants DEF TickInv, TickTypes, Drain, tableVars, historyVars
    <2> QED
      BY <2>1, <2>2
  <1>4. CASE NextRegion
    <2>1. CASE pc' = "drain"
      <3>1. channel' = channel + 1
        BY SMTT(60), <1>4, <2>1 DEF NextRegion
      <3>2. ASSUME NEW r \in Rows, tries[r] > 0 PROVE Served(r)'
        <4>1. PICK i \in DOMAIN Channels : ChannelOf[r] = Channels[i] /\ i <= channel
          BY SMTT(60), <1>4, <3>2, Constants DEF TickInv, TickTypes, NextRegion, Served
        <4>2. i < channel'
          BY <3>1, <4>1, Constants DEF TickTypes
        <4> QED
          BY SMTT(60), <4>1, <4>2 DEF Served
      <3> QED
        BY <1>4, <2>1, <3>2 DEF TickInv, NextRegion, tableVars, historyVars
    <2>2. CASE pc' # "drain"
      BY <1>4, <2>2 DEF TickInv, NextRegion, tableVars, historyVars, Served
    <2> QED
      BY <2>1, <2>2
  <1>5. CASE Fetch
    <2>1. acked = {} /\ failed = {}
      BY <1>5 DEF Fetch, DrainInv
    <2>2. ASSUME NEW r \in batch' PROVE tries[r] = 0
      <3>1. r \in table \ parked /\ ChannelOf[r] = Channels[channel] /\ wait[r] = 0 /\ left > 0
        BY SMTT(60), <1>5, <2>2, FirstRowsSubset DEF Fetch, DueOf
      <3>2. ~(wait[r] >= left)
        BY SMTT(60), <3>1 DEF TickTypes
      <3>3. ~(tries[r] > 0)
        BY SMTT(60), <1>5, <2>1, <3>1, <3>2 DEF Fetch, TickInv
      <3> QED
        BY SMTT(60), <1>0, <3>1, <3>3
    <2> QED
      BY <1>5, <2>2 DEF TickInv, Fetch, tableVars, historyVars, Served
  <1>6. CASE SendBatch
    <2>1. PICK ok \in SUBSET batch, d \in SendTimes :
             /\ acked' = ok /\ failed' = batch \ ok
             /\ SentWell(batch, breaker, d) \/ SentInVain(batch, breaker, d)
             /\ pc' \in {"delete", "keep"}
      BY SMTT(60), <1>6 DEF SendBatch
    <2>2. PICK b, s : Sent(batch, b, s, d)
      BY SMTT(60), <2>1 DEF SentWell, SentInVain
    <2>3. acked' \cup failed' = batch /\ batch' \subseteq batch \ batch /\ pc = "send"
      BY <1>6, <2>1 DEF SendBatch
    <2>4. UNCHANGED <<table, parked, ever, channel>>
      BY <1>6 DEF SendBatch
    <2>5. batch \in SUBSET batch
      BY SMTT(60)
    <2> HIDE DEF Draining, Sending
    <2> QED
      BY <2>1, <2>2, <2>3, <2>4, <2>5, TickSend
  <1>7. CASE LeaveBatch
    BY <1>7 DEF TickInv, LeaveBatch, tableVars, historyVars, Served
  <1>8. CASE SendOne
    <2>1. PICK r \in batch, d \in SendTimes, b \in {Asked(breaker, Pause)} :
             /\ batch' = batch \ {r}
             /\ OneDelivered(r, b, d) \/ OneRetryable(r, b, d) \/ OnePermanent(r, b, d)
      BY SMTT(60), <1>8 DEF SendOne
    <2>2. PICK c, s : Sent({r}, c, s, d)
      BY SMTT(60), <2>1 DEF OneDelivered, OneRetryable, OnePermanent, SentWell, SentInVain
    <2>3. acked' \cup failed' = {r} /\ pc' \in {"delete", "keep", "park"}
      BY <2>1 DEF OneDelivered, OneRetryable, OnePermanent
    <2>4. pc = "send" /\ UNCHANGED <<table, parked, ever, channel>>
      BY <1>8 DEF SendOne
    <2>5. {r} \in SUBSET batch /\ batch' \subseteq batch \ {r}
      BY SMTT(60), <2>1
    <2> HIDE DEF Draining, Sending
    <2> QED
      BY SMTT(60), <2>2, <2>3, <2>4, <2>5, TickSend
  <1>9. CASE DeleteDelivered
    BY SMTT(60), <1>9 DEF TickInv, DeleteDelivered, Continue, historyVars, Served
  <1>10. CASE KeepForRetry
    <2>1. ASSUME NEW r \in failed PROVE wait'[r] >= left
      <3>1. r \in Rows /\ attempts[r] \in Nat
        BY SMTT(60), <2>1 DEF DrainInv, TickTypes
      <3>2. wait'[r] = RetryWait(attempts[r] + 1)
        BY SMTT(60), <1>10, <2>1, <3>1 DEF KeepForRetry
      <3> QED
        BY SMTT(60), <3>1, <3>2, RetryWaitType, Constants DEF TickTypes
    <2>2. ASSUME NEW r \in Rows \ failed PROVE wait'[r] = wait[r]
      BY SMTT(60), <1>10, <2>2 DEF KeepForRetry
    <2>3. acked = {} /\ left' = left /\ channel' = channel
      BY SMTT(60), <1>10 DEF KeepForRetry, Continue, DrainInv
    <2>4. ASSUME NEW r \in table \ parked, tries[r] > 0, ChannelOf[r] = Channels[channel] PROVE wait'[r] >= left
      BY SMTT(60), <1>0, <1>10, <2>1, <2>2, <2>3, <2>4 DEF TickInv, KeepForRetry
    <2> QED
      BY SMTT(60), <1>10, <2>3, <2>4 DEF TickInv, KeepForRetry, Continue, historyVars, Served
  <1>11. CASE MarkUnrecoverable
    <2>1. acked = {}
      BY SMTT(60), <1>11 DEF MarkUnrecoverable, DrainInv
    <2> QED
      BY <1>11, <2>1 DEF TickInv, MarkUnrecoverable, Continue, historyVars, Served
  <1>12. CASE DatabaseFails \/ Restart
    BY SMTT(60), <1>12 DEF TickInv, DatabaseFails, Restart, Abandon, tableVars
  <1>13. CASE UNCHANGED vars
    BY <1>13 DEF TickInv, vars, tableVars, historyVars, drainVars, Served
  <1> QED
    BY <1>1, <1>2, <1>3, <1>4, <1>5, <1>6, <1>7, <1>8, <1>9, <1>10, <1>11, <1>12, <1>13 DEF Next, Tick

\* A tick makes at most one attempt per row, for every configuration whose
\* budget is no longer than the minimum wait.
THEOREM OutboxTriesOnceATick == Spec => []OnceATick
  <1>1. Init => TickTypes /\ TickInv
    BY Constants DEF Init, TickTypes, TickInv, Draining, Sending
  <1>2. TickTypes /\ TickInv /\ DrainInv /\ [Next]_vars => (TickTypes /\ TickInv)'
    BY TickTypesStep, TickStep
  <1>3. TickInv => OnceATick
    BY DEF TickInv, OnceATick
  <1> QED
    BY <1>1, <1>2, <1>3, DrainCorrect, PTL DEF Spec

-----------------------------------------------------------------------------
(* The breakers. *)

BreakerStates == [failures : Nat, opened : BOOLEAN, age : Nat]

\* A breaker and the failures in a row since it last opened: as long as it is not
\* open it counts no failure that did not happen.
Counted(b, s) == ~b.opened => b.failures <= s \/ s >= MaxStreak

BreakerTypes ==
    /\ breakers \in [Destinations -> [Regions -> BreakerStates]]
    /\ streak \in [Destinations -> [Regions -> Nat]]

StreakInv == \A d \in Destinations, g \in Regions : Counted(breakers[d][g], streak[d][g])

\* The rows in hand are of the region that is drained; a batch sender has its
\* whole batch sent at once, and gets one only while the breaker is closed.
BatchInv ==
    /\ \A r \in batch : RegionOf[r] = region
    /\ pc \in {"delete", "keep", "park"} /\ batch # {} => dest \notin BatchSenders
    /\ pc = "send" /\ batch # {} /\ dest \in BatchSenders => ~IsOpen(breaker, Pause)

\* The threshold that is the largest bounds the others.
LEMMA MaxStreakType == MaxStreak \in Nat /\ \A n \in Thresholds : n \in Nat /\ n <= MaxStreak
  <1>1. \E n \in Thresholds : \A k \in Thresholds : k <= n
    BY OutboxAssumption
  <1>2. MaxStreak \in Thresholds /\ \A n \in Thresholds : n <= MaxStreak
    BY <1>1 DEF MaxStreak
  <1>3. Thresholds \subseteq Nat
    BY OutboxAssumption
  <1> QED
    BY <1>2, <1>3

\* The pause and the gap are numbers.
LEMMA Times == Pause \in Nat /\ Gap \in Nat /\ SendTimes \subseteq Nat
  BY OutboxAssumption

\* A new breaker counts nothing.
LEMMA ClosedCounted ==
    ASSUME NEW s \in Nat PROVE Closed \in BreakerStates /\ ~Closed.opened /\ Counted(Closed, s)
  BY DEF Closed, BreakerStates, Counted

\* Time passing neither opens a breaker nor closes it.
LEMMA AgedCounted ==
    ASSUME NEW b \in BreakerStates, NEW s \in Nat, NEW d \in Nat, Counted(b, s)
    PROVE  /\ Aged(b, d, Pause) \in BreakerStates
           /\ Aged(b, d, Pause).opened = b.opened
           /\ Counted(Aged(b, d, Pause), s)
  <1>1. CASE ~b.opened
    BY <1>1 DEF Aged
  <1>2. CASE b.opened
    <2> DEFINE a == IF b.age + d < Pause THEN b.age + d ELSE Pause
    <2>1. a \in Nat
      BY Times DEF BreakerStates
    <2>2. Aged(b, d, Pause) = [b EXCEPT !.age = a]
      BY <1>2 DEF Aged
    <2> HIDE DEF a
    <2> QED
      BY ZenonT(60), <1>2, <2>1, <2>2 DEF BreakerStates, Counted
  <1> QED
    BY <1>1, <1>2

\* Asking a breaker can only close it.
LEMMA AskedCounted ==
    ASSUME NEW b \in BreakerStates, NEW s \in Nat, Counted(b, s)
    PROVE  /\ Asked(b, Pause) \in BreakerStates
           /\ Counted(Asked(b, Pause), s)
           /\ ~b.opened => Asked(b, Pause) = b
           /\ ~IsOpen(b, Pause) => ~Asked(b, Pause).opened
           /\ Asked(b, Pause).opened => b.opened
  <1>1. b.opened \in BOOLEAN /\ b.age \in Nat /\ Pause \in Nat
    BY Times DEF BreakerStates
  <1> QED
    BY <1>1, ClosedCounted DEF Asked, IsOpen

\* A success ends the count.
LEMMA SucceededCounted ==
    ASSUME NEW b \in BreakerStates
    PROVE  Succeeded(b) \in BreakerStates /\ Succeeded(b).opened = b.opened /\ Counted(Succeeded(b), 0)
  BY DEF Succeeded, BreakerStates, Counted

\* A failure is counted on both sides, and a breaker opens at its threshold.
LEMMA FailedCounted ==
    ASSUME NEW b \in BreakerStates, NEW s \in Nat, Counted(b, s), NEW n \in Thresholds
    PROVE  /\ Failed(b, n) \in BreakerStates
           /\ ~Failed(b, n).opened => Counted(Failed(b, n), Least(s + 1, MaxStreak))
           /\ ~b.opened /\ Failed(b, n).opened => s + 1 >= n
  <1>1. b.failures \in Nat /\ b.opened \in BOOLEAN /\ b.age \in Nat
    BY DEF BreakerStates
  <1>2. n \in Nat /\ n <= MaxStreak /\ MaxStreak \in Nat
    BY MaxStreakType
  <1>3. CASE b.failures + 1 >= n /\ ~b.opened
    <2>1. Failed(b, n) = [failures |-> b.failures + 1, opened |-> TRUE, age |-> 0]
      BY <1>3 DEF Failed
    <2>2. s + 1 >= n
      BY <1>1, <1>2, <1>3 DEF Counted
    <2> QED
      BY <1>1, <2>1, <2>2 DEF BreakerStates
  <1>4. CASE ~(b.failures + 1 >= n /\ ~b.opened)
    <2>1. Failed(b, n) = [b EXCEPT !.failures = b.failures + 1]
      BY <1>4 DEF Failed
    <2>2. /\ Failed(b, n) \in BreakerStates
          /\ Failed(b, n).opened = b.opened
          /\ Failed(b, n).failures = b.failures + 1
      BY <1>1, <2>1 DEF BreakerStates
    <2>3. ~b.opened => b.failures + 1 <= Least(s + 1, MaxStreak) \/ Least(s + 1, MaxStreak) >= MaxStreak
      BY <1>1, <1>2 DEF Counted, Least
    <2> QED
      BY <2>2, <2>3 DEF Counted
  <1> QED
    BY <1>3, <1>4

\* A breaker opens for a reason: a threshold's worth of failures in a row.
OpensRightly(d, g) ==
    ~breakers[d][g].opened /\ breakers'[d][g].opened => \E n \in Thresholds : streak[d][g] + 1 >= n

\* What a step may do to the breakers.
BreakersKept == BreakerTypes' /\ StreakInv' /\ \A d \in Destinations, g \in Regions : OpensRightly(d, g)

\* A step that asks or ages the breakers, each on its own, keeps them.
LEMMA EachKept ==
    ASSUME BreakerTypes, StreakInv, UNCHANGED streak,
           breakers' \in [Destinations -> [Regions -> BreakerStates]],
           \A d \in Destinations, g \in Regions :
               /\ Counted(breakers'[d][g], streak[d][g])
               /\ breakers'[d][g].opened => breakers[d][g].opened
    PROVE  BreakersKept
  BY DEF BreakersKept, BreakerTypes, StreakInv, OpensRightly

\* The state of a breaker and its streak.
LEMMA BreakerFacts ==
    ASSUME BreakerTypes, StreakInv, NEW d \in Destinations, NEW g \in Regions
    PROVE  breakers[d][g] \in BreakerStates /\ streak[d][g] \in Nat /\ Counted(breakers[d][g], streak[d][g])
  BY DEF BreakerTypes, StreakInv

\* Asking one breaker keeps them.
LEMMA AskedKept ==
    ASSUME BreakerTypes, StreakInv, UNCHANGED streak, NEW x, NEW y, NEW v, v = Asked(breakers[x][y], Pause),
           breakers' = [breakers EXCEPT ![x][y] = v]
    PROVE  BreakersKept
  <1>1. x \in Destinations /\ y \in Regions =>
           /\ v \in BreakerStates /\ Counted(v, streak[x][y])
           /\ v.opened => breakers[x][y].opened
    BY BreakerFacts, AskedCounted
  <1>2. breakers \in [Destinations -> [Regions -> BreakerStates]]
    BY DEF BreakerTypes
  <1>3. /\ breakers' \in [Destinations -> [Regions -> BreakerStates]]
        /\ \A d \in Destinations, g \in Regions : breakers'[d][g] = IF d = x /\ g = y THEN v ELSE breakers[d][g]
    BY ZenonT(60), <1>1, <1>2
  <1>4. ASSUME NEW d \in Destinations, NEW g \in Regions
        PROVE  Counted(breakers'[d][g], streak[d][g]) /\ (breakers'[d][g].opened => breakers[d][g].opened)
    BY <1>1, <1>3, BreakerFacts
  <1> QED
    BY <1>3, <1>4, EachKept

\* A send to the region at hand, after which its breaker is b.
LEMMA SentKept ==
    ASSUME BreakerTypes, StreakInv, NEW S, NEW b, NEW s, NEW t \in SendTimes, Sent(S, b, s, t),
           dest \in Destinations /\ region \in Regions =>
               /\ b \in BreakerStates /\ s \in Nat
               /\ ~b.opened => Counted(b, s)
               /\ ~breaker.opened /\ b.opened => \E n \in Thresholds : streak[dest][region] + 1 >= n
    PROVE  BreakersKept
  <1> DEFINE aged == BreakersAfter(breakers, t)
             z == IF b.opened THEN 0 ELSE s
  <1>1. t \in Nat
    BY Times
  <1>2. ASSUME NEW d \in Destinations, NEW g \in Regions
        PROVE  /\ Aged(breakers[d][g], t, Pause) \in BreakerStates
               /\ Aged(breakers[d][g], t, Pause).opened = breakers[d][g].opened
               /\ Counted(Aged(breakers[d][g], t, Pause), streak[d][g])
    BY <1>1, BreakerFacts, AgedCounted
  <1>3. /\ aged \in [Destinations -> [Regions -> BreakerStates]]
        /\ \A d \in Destinations, g \in Regions : aged[d][g] = Aged(breakers[d][g], t, Pause)
    BY <1>2 DEF BreakersAfter
  <1>4. breakers' = [aged EXCEPT ![dest][region] = b] /\ streak' = [streak EXCEPT ![dest][region] = z]
    BY DEF Sent
  <1> HIDE DEF aged
  <1>5. /\ breakers' \in [Destinations -> [Regions -> BreakerStates]]
        /\ \A d \in Destinations, g \in Regions :
              breakers'[d][g] = IF d = dest /\ g = region THEN b ELSE aged[d][g]
    BY ZenonT(60), <1>3, <1>4
  <1>6. dest \in Destinations /\ region \in Regions => z \in Nat
    OBVIOUS
  <1>7. streak \in [Destinations -> [Regions -> Nat]]
    BY DEF BreakerTypes
  <1>8. dest \in Destinations /\ region \in Regions => Counted(b, z)
    BY DEF Counted
  <1> HIDE DEF z
  <1>9. /\ streak' \in [Destinations -> [Regions -> Nat]]
        /\ \A d \in Destinations, g \in Regions :
              streak'[d][g] = IF d = dest /\ g = region THEN z ELSE streak[d][g]
    BY ZenonT(60), <1>4, <1>6, <1>7
  <1>10. ASSUME NEW d \in Destinations, NEW g \in Regions
         PROVE  Counted(breakers'[d][g], streak'[d][g]) /\ OpensRightly(d, g)
    <2>1. CASE d = dest /\ g = region
      BY <1>5, <1>8, <1>9, <2>1 DEF OpensRightly, breaker
    <2>2. CASE ~(d = dest /\ g = region)
      <3>1. breakers'[d][g] = Aged(breakers[d][g], t, Pause) /\ streak'[d][g] = streak[d][g]
        BY ZenonT(60), <1>3, <1>5, <1>9, <2>2
      <3>2. /\ Aged(breakers[d][g], t, Pause).opened = breakers[d][g].opened
            /\ Counted(Aged(breakers[d][g], t, Pause), streak[d][g])
        BY ZenonT(60), <1>2
      <3> QED
        BY ZenonT(60), <3>1, <3>2 DEF OpensRightly
    <2> QED
      BY <2>1, <2>2
  <1> QED
    BY <1>5, <1>9, <1>10 DEF BreakersKept, BreakerTypes, StreakInv

\* The two outcomes the breaker is told of, from the breaker b it is asked as.
LEMMA ToldKept ==
    ASSUME BreakerTypes, StreakInv, NEW S, NEW b, NEW t \in SendTimes, SentWell(S, b, t) \/ SentInVain(S, b, t),
           b \in {breaker, Asked(breaker, Pause)}
    PROVE  BreakersKept
  <1>1. ASSUME dest \in Destinations, region \in Regions
        PROVE  /\ b \in BreakerStates /\ streak[dest][region] \in Nat
               /\ Counted(b, streak[dest][region])
               /\ ~breaker.opened => ~b.opened
    <2>1. breaker \in BreakerStates /\ streak[dest][region] \in Nat /\ Counted(breaker, streak[dest][region])
      BY ZenonT(60), <1>1, BreakerFacts DEF breaker
    <2>2. CASE b = breaker
      BY ZenonT(60), <2>1, <2>2
    <2>3. CASE b = Asked(breaker, Pause)
      BY <2>1, <2>3, AskedCounted
    <2> QED
      BY <2>2, <2>3
  <1>2. CASE SentWell(S, b, t)
    <2>1. Sent(S, Succeeded(b), 0, t)
      BY <1>2 DEF SentWell
    <2>2. dest \in Destinations /\ region \in Regions =>
             /\ Succeeded(b) \in BreakerStates /\ 0 \in Nat
             /\ ~Succeeded(b).opened => Counted(Succeeded(b), 0)
             /\ ~(~breaker.opened /\ Succeeded(b).opened)
      BY <1>1, SucceededCounted
    <2> QED
      BY <2>1, <2>2, SentKept
  <1>3. CASE SentInVain(S, b, t)
    <2>1. PICK n \in Thresholds : Sent(S, Failed(b, n), Least(streak[dest][region] + 1, MaxStreak), t)
      BY <1>3 DEF SentInVain
    <2>2. ASSUME dest \in Destinations, region \in Regions
          PROVE  /\ Failed(b, n) \in BreakerStates
                 /\ ~Failed(b, n).opened => Counted(Failed(b, n), Least(streak[dest][region] + 1, MaxStreak))
                 /\ ~breaker.opened /\ Failed(b, n).opened => streak[dest][region] + 1 >= n
      BY <1>1, <2>2, FailedCounted
    <2>3. ASSUME dest \in Destinations, region \in Regions
          PROVE  Least(streak[dest][region] + 1, MaxStreak) \in Nat
      BY <1>1, <2>3, MaxStreakType DEF Least
    <2> QED
      BY <2>1, <2>2, <2>3, SentKept
  <1> QED
    BY <1>2, <1>3

\* Every step keeps the count of every breaker, and opens none too early.
LEMMA BreakersStep ==
    ASSUME BreakerTypes, StreakInv, [Next]_vars
    PROVE  BreakersKept
  <1>1. ASSUME UNCHANGED <<breakers, streak>> PROVE BreakersKept
    BY <1>1, BreakerFacts, EachKept DEF BreakerTypes
  <1>2. CASE RunTask
    <2>1. ASSUME NEW d \in Destinations, NEW g \in Regions
          PROVE  /\ Aged(breakers[d][g], Gap, Pause) \in BreakerStates
                 /\ Aged(breakers[d][g], Gap, Pause).opened = breakers[d][g].opened
                 /\ Counted(Aged(breakers[d][g], Gap, Pause), streak[d][g])
      BY Times, BreakerFacts, AgedCounted
    <2>2. streak' = streak
      BY <1>2 DEF RunTask
    <2>3. breakers' = [d \in Destinations |-> [g \in Regions |-> Aged(breakers[d][g], Gap, Pause)]]
      BY <1>2 DEF RunTask, BreakersAfter
    <2> QED
      BY <2>1, <2>2, <2>3, EachKept
  <1>3. CASE Drain
    <2>1. ASSUME NEW d \in Destinations, NEW g \in Regions
          PROVE  /\ Asked(breakers[d][g], Pause) \in BreakerStates
                 /\ Asked(breakers[d][g], Pause).opened => breakers[d][g].opened
                 /\ Counted(Asked(breakers[d][g], Pause), streak[d][g])
      BY BreakerFacts, AskedCounted
    <2>2. streak' = streak
      BY <1>3 DEF Drain, historyVars
    <2>3. UNCHANGED breakers \/ breakers' = [d \in Destinations |-> [g \in Regions |-> Asked(breakers[d][g], Pause)]]
      BY <1>3 DEF Drain
    <2> QED
      BY <1>1, <2>1, <2>2, <2>3, EachKept
  <1>4. CASE NextRegion
    <2>1. streak' = streak
      BY <1>4 DEF NextRegion, historyVars
    <2>2. \/ UNCHANGED breakers
          \/ breakers' = [breakers EXCEPT ![dest][Head(regions)] = Asked(breakers[dest][Head(regions)], Pause)]
      BY ZenonT(60), <1>4 DEF NextRegion
    <2> QED
      BY <1>1, <2>1, <2>2, AskedKept
  <1>5. CASE Fetch \/ LeaveBatch
    <2>1. streak' = streak
      BY <1>5 DEF Fetch, LeaveBatch, historyVars
    <2>2. breakers' = [breakers EXCEPT ![dest][region] = Asked(breakers[dest][region], Pause)]
      BY ZenonT(60), <1>5 DEF Fetch, LeaveBatch
    <2> QED
      BY ZenonT(60), <2>1, <2>2, AskedKept
  <1>6. CASE SendBatch
    <2>1. PICK t \in SendTimes : SentWell(batch, breaker, t) \/ SentInVain(batch, breaker, t)
      BY ZenonT(60), <1>6 DEF SendBatch
    <2> QED
      BY ZenonT(60), <2>1, ToldKept
  <1>7. CASE SendOne
    <2>1. PICK r \in batch, t \in SendTimes, b \in {Asked(breaker, Pause)} :
             OneDelivered(r, b, t) \/ OneRetryable(r, b, t) \/ OnePermanent(r, b, t)
      BY SMTT(60), <1>7 DEF SendOne
    <2>2. CASE SentWell({r}, b, t) \/ SentInVain({r}, b, t)
      BY <2>2, ToldKept
    <2>3. CASE Sent({r}, b, streak[dest][region], t)
      <3>1. dest \in Destinations /\ region \in Regions =>
               /\ b \in BreakerStates /\ streak[dest][region] \in Nat
               /\ Counted(b, streak[dest][region])
               /\ ~(~breaker.opened /\ b.opened)
        BY BreakerFacts, AskedCounted DEF breaker
      <3> QED
        BY <2>3, <3>1, SentKept
    <2> QED
      BY <2>1, <2>2, <2>3 DEF OneDelivered, OneRetryable, OnePermanent
  <1>8. CASE Restart
    <2>1. /\ breakers' = [d \in Destinations |-> [g \in Regions |-> Closed]]
          /\ streak' = [d \in Destinations |-> [g \in Regions |-> 0]]
      BY <1>8 DEF Restart
    <2>2. Closed \in BreakerStates /\ ~Closed.opened /\ Counted(Closed, 0)
      BY ClosedCounted
    <2> QED
      BY <2>1, <2>2 DEF BreakersKept, BreakerTypes, StreakInv, OpensRightly
  <1>9. CASE DeleteDelivered \/ KeepForRetry \/ MarkUnrecoverable
    BY <1>1, <1>9 DEF DeleteDelivered, KeepForRetry, MarkUnrecoverable, Continue, historyVars
  <1>10. CASE DatabaseFails \/ (\E r \in Rows : Enqueue(r)) \/ UNCHANGED vars
    BY <1>1, <1>10 DEF DatabaseFails, Enqueue, vars, historyVars
  <1> QED
    BY <1>2, <1>3, <1>4, <1>5, <1>6, <1>7, <1>8, <1>9, <1>10 DEF Next, Tick

\* The channel that is drained has a destination.
LEMMA DestType == ASSUME TickTypes, Draining PROVE dest \in Destinations
  <1>1. channel \in DOMAIN Channels
    BY Constants DEF TickTypes
  <1>2. Channels[channel] \in DOMAIN DestinationOf
    BY <1>1, OutboxAssumption
  <1> QED
    BY <1>2 DEF dest, Destinations

\* Every step keeps BatchInv: only Fetch fills the batch, and it has asked the
\* breaker.
LEMMA BatchStep ==
    ASSUME TickTypes, DrainInv, BreakerTypes, StreakInv, BatchInv, [Next]_vars
    PROVE  BatchInv'
  <1>1. ASSUME batch' = {} PROVE BatchInv'
    BY <1>1 DEF BatchInv
  <1>2. CASE RunTask \/ Drain \/ NextRegion
    <2>1. batch' = {}
      BY <1>2 DEF RunTask, Drain, NextRegion, TickTypes, Sending
    <2> QED
      BY <1>1, <2>1
  <1>3. CASE SendBatch \/ LeaveBatch \/ DatabaseFails \/ Restart
    BY <1>1, <1>3 DEF SendBatch, LeaveBatch, DatabaseFails, Restart, Abandon
  <1>4. CASE Fetch
    <2>1. pc' \in {"send", "region"} /\ UNCHANGED <<channel, region>>
      BY <1>4 DEF Fetch
    <2>2. batch' \subseteq {r \in DueOf(Channels[channel]) : RegionOf[r] = region}
      BY <1>4, FirstRowsSubset DEF Fetch
    <2>3. ASSUME pc' = "send", batch' # {} PROVE ~IsOpen(breaker, Pause)'
      <3>1. PICK r \in Rows : RegionOf[r] = region
        BY <2>2, <2>3 DEF DueOf, DrainInv
      <3>2. region \in Regions /\ dest \in Destinations
        BY <1>4, <3>1, DestType DEF Regions, Fetch, Draining
      <3>3. ~IsOpen(breaker, Pause)
        BY <1>4, <2>3 DEF Fetch
      <3>4. ~Asked(breaker, Pause).opened
        BY <3>2, <3>3, BreakerFacts, AskedCounted DEF breaker
      <3>5. breakers' = [breakers EXCEPT ![dest][region] = Asked(breaker, Pause)]
        BY ZenonT(60), <1>4 DEF Fetch, breaker
      <3>6. breakers'[dest][region] = Asked(breaker, Pause)
        BY <3>2, <3>5 DEF BreakerTypes
      <3>7. dest' = dest
        BY <2>1 DEF dest
      <3> QED
        BY <2>1, <3>4, <3>6, <3>7 DEF IsOpen, breaker
    <2> QED
      BY <2>1, <2>2, <2>3 DEF BatchInv
  <1>5. CASE SendOne
    <2>1. batch' \subseteq batch /\ pc' \in {"delete", "keep", "park"}
      BY <1>5 DEF SendOne, OneDelivered, OneRetryable, OnePermanent
    <2>2. UNCHANGED <<channel, region>> /\ dest \notin BatchSenders
      BY <1>5 DEF SendOne
    <2> QED
      BY <2>1, <2>2 DEF BatchInv, dest
  <1>6. CASE DeleteDelivered \/ KeepForRetry \/ MarkUnrecoverable
    <2>1. UNCHANGED <<batch, channel, region>> /\ pc \in {"delete", "keep", "park"}
      BY <1>6 DEF DeleteDelivered, KeepForRetry, MarkUnrecoverable, Continue
    <2> QED
      BY <2>1 DEF BatchInv, dest
  <1>7. CASE (\E r \in Rows : Enqueue(r)) \/ UNCHANGED vars
    <2>1. UNCHANGED <<batch, channel, region, pc, breakers>>
      BY <1>7 DEF Enqueue, vars, drainVars
    <2> QED
      BY <2>1 DEF BatchInv, dest, breaker
  <1> QED
    BY <1>2, <1>3, <1>4, <1>5, <1>6, <1>7 DEF Next, Tick

\* A row is sent only while the breaker of its region is closed.
LEMMA PausedStep ==
    ASSUME TickTypes, DrainInv, BatchInv, [Next]_vars, NEW r \in Rows, tries'[r] > tries[r]
    PROVE  ~IsOpen(breakers[DestinationOf[ChannelOf[r]]][RegionOf[r]], Pause)
  <1>1. r \in batch /\ (SendBatch \/ SendOne)
    BY OnlyTheBatchIsSent
  <1>2. ChannelOf[r] = Channels[channel] /\ RegionOf[r] = region
    BY <1>1 DEF TickTypes, BatchInv
  <1>3. ~IsOpen(breaker, Pause)
    BY <1>1 DEF SendBatch, SendOne, SendStops, BatchInv
  <1> QED
    BY <1>2, <1>3 DEF breaker, dest

\* A paused region is left alone, and only a whole streak of failures pauses it
\* again, for every set of thresholds and every pause.
THEOREM OutboxKeepsBreakers == Spec => BreakerIsKept
  <1>1. Init => TickTypes /\ BreakerTypes /\ StreakInv /\ BatchInv
    <2>1. ASSUME Init PROVE TickTypes
      BY <2>1, Constants DEF Init, TickTypes, Draining, Sending
    <2>2. ASSUME Init PROVE BreakerTypes /\ StreakInv
      BY <2>2, ClosedCounted DEF Init, BreakerTypes, StreakInv
    <2>3. ASSUME Init PROVE BatchInv
      BY <2>3 DEF Init, BatchInv
    <2> QED
      BY <2>1, <2>2, <2>3
  <1>2. TickTypes /\ DrainInv /\ BreakerTypes /\ StreakInv /\ BatchInv /\ [Next]_vars
           => (TickTypes /\ BreakerTypes /\ StreakInv /\ BatchInv)'
    BY TickTypesStep, BreakersStep, BatchStep DEF BreakersKept
  <1>3. TickTypes /\ DrainInv /\ BatchInv /\ [Next]_vars
           => [\A r \in Rows : tries'[r] > tries[r] =>
                  ~IsOpen(breakers[DestinationOf[ChannelOf[r]]][RegionOf[r]], Pause)]_vars
    BY PausedStep
  <1>4. BreakerTypes /\ StreakInv /\ [Next]_vars
           => [\A d \in Destinations, g \in Regions : ~breakers[d][g].opened /\ breakers'[d][g].opened =>
                  \E n \in Thresholds : streak[d][g] + 1 >= n]_vars
    BY BreakersStep DEF BreakersKept, OpensRightly
  <1> QED
    BY <1>1, <1>2, <1>3, <1>4, DrainCorrect, PTL DEF Spec, BreakerIsKept, PausedIsLeftAlone, WholeStreakToOpen

=============================================================================
