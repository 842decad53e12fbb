------------------------ MODULE AccountEventsProofs ------------------------
(***************************************************************************)
(* What the mirror of the blocked accounts guarantees for every value of   *)
(* its constants, whatever is retried, redelivered, rewound or lost.       *)
(***************************************************************************)
EXTENDS AccountEvents, TLAPS

\* The resources that the events of a queue are about.
ResourcesOf(q) == {EventLog[q][i].resource : i \in DOMAIN EventLog[q]}

\* The rows have taken the first m events of the queue, and perhaps more, up to the last.
AppliedTo(rows, last, q, m) ==
    \A resource \in ResourcesOf(q) : \E n \in m..last : BlockedRow(q, resource) \in rows <=> SaysBlocked(q, resource, n)

\* The table has taken the first m published events.
Applied(q, m) == AppliedTo(blocked, published[q], q, m)

\* The messages of a queue that are left in the batch.
LeftOf(q) == {i \in DOMAIN batch : batch[i].error = "none" /\ batch[i].queue = q}

\* The next message of an assigned queue is the one at its position.  It is not
\* once a batch was dropped, and then the consumer is closed before it goes on.
InPlace(q) ==
    /\ q \in assigned /\ LeftOf(q) = {} /\ RegionOf[q] \notin fatal
    /\ killed => drainPc \in {"consume", "handle"}

\* Where the drain is.
DrainInv ==
    /\ drainPc \in {"consume", "handle"} => todo # <<>>
    /\ drainPc = "consume" => Head(todo) \notin fatal
    /\ drainPc # "handle" => batch = <<>> /\ done = NoOffsets

\* The messages of a queue that are left come in order and without a gap, up to the position.
OrderInv(q) ==
    /\ position[q] <= published[q] /\ published[q] <= Len(EventLog[q])
    /\ LeftOf(q) # {} => RegionOf[q] = Head(todo)
    /\ \A i, k \in LeftOf(q) : i < k => batch[i].offset < batch[k].offset
    /\ \A i \in LeftOf(q) :
          /\ batch[i].offset < position[q]
          /\ \A o \in batch[i].offset..(position[q] - 1) : \E k \in LeftOf(q) : batch[k].offset = o

\* What is committed, on its way to be, finished, or before the next message, was applied.
LevelInv(q) ==
    /\ committed[q] <= published[q] /\ Applied(q, committed[q])
    /\ q \notin assigned => commits[q] = 0
    /\ q \in assigned => committed[q] <= position[q] /\ commits[q] <= position[q]
    /\ commits[q] > 0 => committed[q] <= commits[q] /\ Applied(q, commits[q])
    /\ done[q] <= position[q]
    /\ done[q] > 0 => committed[q] <= done[q] /\ commits[q] <= done[q] /\ Applied(q, done[q])
    /\ InPlace(q) => Applied(q, position[q])
    /\ \A i \in LeftOf(q) : (\A k \in LeftOf(q) : i <= k) =>
          /\ Applied(q, batch[i].offset)
          /\ committed[q] <= batch[i].offset /\ commits[q] <= batch[i].offset /\ done[q] <= batch[i].offset

\* The inductive invariant.
EventsInv == EventsTypeOK /\ DrainInv /\ \A q \in Queues : OrderInv(q) /\ LevelInv(q)

\* The log of a queue is a sequence of payloads.
LEMMA LogTypes ==
    ASSUME NEW q \in Queues
    PROVE  /\ Len(EventLog[q]) \in Nat /\ DOMAIN EventLog[q] = 1..Len(EventLog[q])
           /\ \A k \in 1..Len(EventLog[q]) :
                 /\ EventLog[q][k].form \in {"bare", "prefixed", "unusable"}
                 /\ EventLog[q][k].deleted \in {"absent", "false", "true", "unusable"}
                 /\ EventLog[q][k].resource \in ResourcesOf(q)
  <1> DEFINE P == [resource : ResourcesOf(q), form : {"bare", "prefixed", "unusable"},
                   deleted : {"absent", "false", "true", "unusable"}]
  <1>1. EventLog[q] \in Seq(P)
    BY ZenonT(60), AccountEventsAssumption DEF ResourcesOf
  <1> HIDE DEF P
  <1>2. \A k \in 1..Len(EventLog[q]) : EventLog[q][k] \in P
    BY <1>1
  <1> QED
    BY <1>1, <1>2 DEF P

\* What an event changes of what billing-service says: the resource it is about, if it is usable.
LEMMA SaysNext ==
    ASSUME NEW q \in Queues, NEW o \in Nat, o < Len(EventLog[q]), NEW resource
    PROVE  LET event == ParseEvent(EventLog[q][o + 1])
           IN IF event.resource = resource /\ ~event.invalid
              THEN SaysBlocked(q, resource, o + 1) <=> ~event.deleted
              ELSE SaysBlocked(q, resource, o + 1) <=> SaysBlocked(q, resource, o)
  <1> DEFINE e == EventLog[q][o + 1]
             Usable(k) == EventLog[q][k].form # "unusable" /\ EventLog[q][k].deleted # "unusable"
             Blocking(k) == EventLog[q][k].form # "unusable" /\ EventLog[q][k].deleted \in {"absent", "false"}
             Latest(k, n) == \A i \in (k + 1)..n : EventLog[q][i].resource = resource => ~Usable(i)
  <1>1. o + 1 \in 1..Len(EventLog[q]) /\ e.deleted \in {"absent", "false", "true", "unusable"}
    BY LogTypes
  <1>2. \A n \in Nat : SaysBlocked(q, resource, n) <=>
            \E k \in 1..n : Blocking(k) /\ EventLog[q][k].resource = resource /\ Latest(k, n)
    BY ZenonT(60) DEF SaysBlocked
  <1>3. /\ ParseEvent(e).invalid <=> ~Usable(o + 1)
        /\ ParseEvent(e).resource = e.resource
        /\ ParseEvent(e).deleted <=> e.deleted = "true"
    BY ZenonT(60) DEF ParseEvent
  <1>4. Latest(o + 1, o + 1)
    OBVIOUS
  <1>5. \A k \in 1..o : Latest(k, o + 1) <=> Latest(k, o) /\ (e.resource = resource => ~Usable(o + 1))
    <2> SUFFICES ASSUME NEW k \in 1..o PROVE Latest(k, o + 1) <=> Latest(k, o) /\ (e.resource = resource => ~Usable(o + 1))
      OBVIOUS
    <2>1. (k + 1)..(o + 1) = ((k + 1)..o) \cup {o + 1}
      OBVIOUS
    <2> QED
      BY <2>1
  <1>6. 1..(o + 1) = (1..o) \cup {o + 1}
    OBVIOUS
  <1> HIDE DEF Latest
  <1>7. CASE e.resource = resource /\ Usable(o + 1)
    <2>1. SaysBlocked(q, resource, o + 1) <=> Blocking(o + 1)
      BY <1>2, <1>4, <1>5, <1>6, <1>7
    <2> QED
      BY <1>1, <1>3, <1>7, <2>1
  <1>8. CASE ~(e.resource = resource /\ Usable(o + 1))
    <2>1. SaysBlocked(q, resource, o + 1) <=> SaysBlocked(q, resource, o)
      BY <1>2, <1>4, <1>5, <1>6, <1>8
    <2> QED
      BY <1>3, <1>8, <2>1
  <1> QED
    BY <1>7, <1>8

\* Whatever was applied further was applied less far, and stays so as events are published.
LEMMA AppliedLess ==
    ASSUME NEW q, NEW rows, NEW last \in Int, NEW later \in Int, NEW m \in Int, NEW n \in Int,
           m <= n, last <= later, AppliedTo(rows, last, q, n)
    PROVE  AppliedTo(rows, later, q, m)
  BY DEF AppliedTo

\* A message of the batch names a queue and an offset.
LEMMA MessageTypes ==
    ASSUME EventsTypeOK
    PROVE  /\ Len(batch) \in Nat /\ DOMAIN batch = 1..Len(batch)
           /\ \A i \in DOMAIN batch : batch[i].error = "none" => batch[i].queue \in Queues /\ batch[i].offset \in Nat
           /\ \A q : \A i \in LeftOf(q) : i \in Nat \ {0} /\ batch[i].offset \in Nat
  <1>1. batch \in Seq(EventMessages)
    BY DEF EventsTypeOK
  <1>2. \A m \in EventMessages : m.error = "none" => m.queue \in Queues /\ m.offset \in Nat
    BY DEF EventMessages
  <1>3. Len(batch) \in Nat /\ DOMAIN batch = 1..Len(batch) /\ \A i \in DOMAIN batch : batch[i] \in EventMessages
    BY <1>1
  <1> QED
    BY <1>2, <1>3 DEF LeftOf

\* The offsets of the broker and of the consumer.
LEMMA OffsetTypes ==
    ASSUME EventsTypeOK, NEW q \in Queues
    PROVE  published[q] \in Nat /\ committed[q] \in Nat /\ commits[q] \in Nat /\ position[q] \in Nat /\ done[q] \in Nat
  BY DEF EventsTypeOK

\* The number of faults so far.
LEMMA FaultTypes ==
    ASSUME EventsTypeOK
    PROVE  MaxEventFaults \in Nat /\ faults \in 0..MaxEventFaults /\ (EventFault => faults' \in 0..MaxEventFaults)
  <1>1. MaxEventFaults \in Nat
    BY ZenonT(60), AccountEventsAssumption
  <1>2. faults \in 0..MaxEventFaults
    BY DEF EventsTypeOK
  <1> QED
    BY <1>1, <1>2 DEF EventFault

\* The first message of the batch, and the region that is drained.
LEMMA HeadTypes ==
    ASSUME EventsTypeOK
    PROVE  /\ batch # <<>> => Head(batch) = batch[1] /\ 1 \in DOMAIN batch
           /\ todo # <<>> => Head(todo) \in RegionSet
  <1>1. batch \in Seq(EventMessages) /\ todo \in Seq(RegionSet)
    BY ZenonT(60) DEF EventsTypeOK
  <1> QED
    BY <1>1

\* The event that the first message of a queue is about.
LEMMA FirstEvent ==
    ASSUME EventsTypeOK, NEW p \in Queues, OrderInv(p), 1 \in LeftOf(p), NEW o \in Nat, o = batch[1].offset
    PROVE  /\ o + 1 \in DOMAIN EventLog[p] /\ RegionOf[p] = Head(todo)
           /\ ParseEvent(EventLog[p][o + 1]).resource \in BlockedResources
  <1>1. o < position[p] /\ position[p] <= published[p] /\ published[p] <= Len(EventLog[p]) /\ RegionOf[p] = Head(todo)
    BY ZenonT(60) DEF OrderInv
  <1>2. o + 1 \in DOMAIN EventLog[p]
    BY <1>1, OffsetTypes, LogTypes
  <1>3. ParseEvent(EventLog[p][o + 1]).resource = EventLog[p][o + 1].resource
    BY DEF ParseEvent
  <1>4. EventLog[p][o + 1].resource \in BlockedResources
    <2> DEFINE R(q) == {EventLog[q][i].resource : i \in DOMAIN EventLog[q]}
    <2>1. EventLog[p][o + 1].resource \in R(p)
      BY ZenonT(60), <1>2
    <2>2. BlockedResources = UNION {R(q) : q \in Queues}
      BY DEF BlockedResources
    <2> HIDE DEF R
    <2> QED
      BY <2>1, <2>2
  <1> QED
    BY ZenonT(60), <1>1, <1>2, <1>3, <1>4

\* Nothing is left of an empty batch.
LEMMA NothingLeft == ASSUME NEW q, batch' = <<>> PROVE LeftOf(q)' = {}
  BY DEF LeftOf

\* What is left once the first message is taken.
LEMMA TailLeft ==
    ASSUME EventsTypeOK, batch # <<>>, batch' = Tail(batch), NEW q
    PROVE  /\ \A i : i \in LeftOf(q)' <=> i \in Nat /\ i # 0 /\ i + 1 \in LeftOf(q)
           /\ \A i \in LeftOf(q)' : batch'[i] = batch[i + 1]
  <1>1. batch \in Seq(EventMessages) /\ Len(batch) \in Nat \ {0} /\ DOMAIN batch = 1..Len(batch)
    BY MessageTypes DEF EventsTypeOK
  <1>2. DOMAIN batch' = 1..(Len(batch) - 1) /\ \A i \in DOMAIN batch' : batch'[i] = batch[i + 1]
    BY <1>1
  <1>3. \A i : i \in DOMAIN batch' <=> i \in Nat /\ i # 0 /\ i + 1 \in DOMAIN batch
    BY <1>1, <1>2
  <1> QED
    BY <1>2, <1>3 DEF LeftOf

\* A step that leaves the batch and the positions alone keeps the order.
LEMMA OrderKept ==
    ASSUME EventsTypeOK, EventsTypeOK', NEW q \in Queues, OrderInv(q), UNCHANGED <<batch, position>>,
           published[q] <= published'[q] /\ published'[q] <= Len(EventLog[q]),
           LeftOf(q) # {} => todo' = todo
    PROVE  OrderInv(q)'
  <1>1. LeftOf(q)' = LeftOf(q)
    BY DEF LeftOf
  <1>2. position[q] <= published'[q]
    BY OffsetTypes, LogTypes DEF OrderInv, EventsTypeOK
  <1> QED
    BY <1>1, <1>2 DEF OrderInv

\* A step that leaves the table, the batch and the positions alone, and gives up
\* partitions or commits at most, keeps the levels.
LEMMA LevelKept ==
    ASSUME EventsTypeOK, EventsTypeOK', NEW q \in Queues, LevelInv(q),
           UNCHANGED <<blocked, batch, position, done>>, committed'[q] = committed[q],
           published[q] <= published'[q], commits'[q] \in {commits[q], 0},
           q \in assigned' => q \in assigned, q \notin assigned' => commits'[q] = 0,
           InPlace(q)' => InPlace(q)
    PROVE  LevelInv(q)'
  <1>1. LeftOf(q)' = LeftOf(q)
    BY DEF LeftOf
  <1>2. /\ published[q] \in Nat /\ committed[q] \in Nat /\ commits[q] \in Nat /\ position[q] \in Nat /\ done[q] \in Nat
        /\ published'[q] \in Nat
    BY OffsetTypes DEF EventsTypeOK
  <1>3. \A m \in Nat : Applied(q, m) => AppliedTo(blocked', published'[q], q, m)
    BY <1>2, AppliedLess DEF Applied
  <1>4. \A i \in LeftOf(q) : batch[i].offset \in Nat
    BY MessageTypes
  <1> QED
    BY <1>1, <1>2, <1>3, <1>4 DEF LevelInv, Applied

\* So does one that leaves the log alone as well.
LEMMA LogKept ==
    ASSUME EventsTypeOK, EventsTypeOK', NEW q \in Queues, OrderInv(q), LevelInv(q),
           UNCHANGED <<published, committed, blocked, batch, position, done>>,
           commits'[q] \in {commits[q], 0},
           q \in assigned' => q \in assigned, q \notin assigned' => commits'[q] = 0,
           LeftOf(q) # {} => todo' = todo, InPlace(q)' => InPlace(q)
    PROVE  OrderInv(q)' /\ LevelInv(q)'
  <1>1. committed'[q] = committed[q] /\ published'[q] = published[q]
    OBVIOUS
  <1>2. published[q] <= published'[q] /\ published'[q] <= Len(EventLog[q])
    BY <1>1, OffsetTypes DEF OrderInv
  <1> QED
    BY <1>1, <1>2, OrderKept, LevelKept

\* Once the process has begun anew, or its consumer is closed, only what is committed counts.
LEMMA LevelAnew ==
    ASSUME EventsTypeOK, EventsTypeOK', NEW q \in Queues, LevelInv(q),
           UNCHANGED <<blocked, committed, published, position>>, batch' = <<>>, done'[q] = 0,
           q \notin assigned', commits'[q] = 0
    PROVE  LevelInv(q)'
  <1>1. LeftOf(q)' = {}
    BY NothingLeft
  <1>2. position[q] \in Nat
    BY OffsetTypes
  <1> QED
    BY <1>1, <1>2 DEF LevelInv, Applied, InPlace

\* An empty batch is in order.
LEMMA OrderAnew ==
    ASSUME NEW q \in Queues, batch' = <<>>, position'[q] <= published[q], OrderInv(q), UNCHANGED published
    PROVE  OrderInv(q)'
  BY NothingLeft DEF OrderInv

\* A commit lands.
LEMMA LandsLevel ==
    ASSUME EventsTypeOK, EventsTypeOK', NEW q \in Queues, LevelInv(q), OrderInv(q), NEW p \in Queues, CommitLands(p)
    PROVE  LevelInv(q)'
  <1>1. LeftOf(q)' = LeftOf(q) /\ (InPlace(q)' <=> InPlace(q))
    BY DEF CommitLands, consumerVars, drainVars, LeftOf, InPlace
  <1>2. published[q] \in Nat /\ committed[q] \in Nat /\ commits[q] \in Nat /\ position[q] \in Nat /\ done[q] \in Nat
    BY OffsetTypes
  <1>3. UNCHANGED <<published, blocked, assigned, position, batch, done>>
    BY DEF CommitLands, consumerVars, drainVars
  <1>4. CASE q = p
    <2>1. committed'[q] = commits[q] /\ commits'[q] = 0 /\ commits[q] > 0
      BY <1>4 DEF CommitLands, EventsTypeOK
    <2> QED
      <3>1. \A i \in LeftOf(q) : batch[i].offset \in Nat
        BY MessageTypes
      <3> QED
        BY <1>1, <1>2, <1>3, <2>1, <3>1 DEF LevelInv, Applied, OrderInv
  <1>5. CASE q # p
    <2>1. committed'[q] = committed[q] /\ commits'[q] = commits[q]
      BY <1>5 DEF CommitLands, EventsTypeOK
    <2> QED
      BY <1>1, <1>2, <1>3, <2>1 DEF LevelInv, Applied
  <1> QED
    BY <1>4, <1>5

\* A partition is assigned at the committed offset.
LEMMA AssignLevel ==
    ASSUME EventsTypeOK, EventsTypeOK', DrainInv, NEW q \in Queues, LevelInv(q), OrderInv(q), NEW p \in Queues, Assign(p)
    PROVE  OrderInv(q)' /\ LevelInv(q)'
  <1>1. batch = <<>> /\ done = NoOffsets /\ batch' = <<>> /\ done' = NoOffsets
    BY DEF Assign, DrainInv, drainVars
  <1>2. LeftOf(q)' = {} /\ LeftOf(q) = {} /\ done[q] = 0 /\ done'[q] = 0
    BY <1>1 DEF LeftOf, NoOffsets
  <1>3. published[q] \in Nat /\ committed[q] \in Nat /\ commits[q] \in Nat /\ position[q] \in Nat
    BY OffsetTypes
  <1>4. UNCHANGED <<published, committed, commits, blocked, fatal, drainPc, killed>>
    BY DEF Assign, brokerVars, drainVars
  <1>5. CASE q = p
    <2>1. position'[q] = committed[q] /\ q \notin assigned
      BY <1>5 DEF Assign, EventsTypeOK
    <2> QED
      BY <1>1, <1>2, <1>3, <1>4, <2>1, OrderAnew DEF LevelInv, Applied
  <1>6. CASE q # p
    <2>1. position'[q] = position[q] /\ (q \in assigned' <=> q \in assigned)
      BY <1>6 DEF Assign, EventsTypeOK
    <2>2. InPlace(q)' => InPlace(q)
      BY <1>2, <1>4, <2>1 DEF InPlace
    <2>3. OrderInv(q)'
      BY <1>1, <1>4, <2>1, OrderAnew DEF OrderInv
    <2> QED
      BY <1>2, <1>3, <1>4, <2>1, <2>2, <2>3 DEF LevelInv, Applied
  <1> QED
    BY <1>5, <1>6

\* The next event of a queue is applied.
LEMMA AppliedNext ==
    ASSUME NEW q \in Queues, NEW o \in Nat, NEW last \in Nat, o < last, last <= Len(EventLog[q]),
           AppliedTo(blocked, last, q, o), blocked' = Handled(q, o)
    PROVE  AppliedTo(blocked', last, q, o + 1)
  <1> DEFINE event == ParseEvent(EventLog[q][o + 1])
  <1>1. o < Len(EventLog[q])
    BY LogTypes
  <1>2. event.invalid \in BOOLEAN /\ event.deleted \in BOOLEAN
    BY DEF ParseEvent
  <1>3. blocked' = IF event.invalid THEN blocked
                   ELSE IF event.deleted THEN blocked \ {BlockedRow(q, event.resource)}
                   ELSE blocked \cup {BlockedRow(q, event.resource)}
    BY DEF Handled
  <1>4. \A resource : BlockedRow(q, resource) = BlockedRow(q, event.resource) => resource = event.resource
    BY DEF BlockedRow
  <1> SUFFICES ASSUME NEW resource \in ResourcesOf(q)
               PROVE  \E n \in (o + 1)..last : BlockedRow(q, resource) \in blocked' <=> SaysBlocked(q, resource, n)
    BY DEF AppliedTo
  <1> HIDE DEF event
  <1>5. CASE event.resource = resource /\ ~event.invalid
    <2>1. SaysBlocked(q, resource, o + 1) <=> ~event.deleted
      BY ZenonT(60), <1>1, <1>5, SaysNext DEF event
    <2>2. BlockedRow(q, resource) \in blocked' <=> ~event.deleted
      BY <1>2, <1>3, <1>5
    <2> QED
      BY <2>1, <2>2
  <1>6. CASE ~(event.resource = resource /\ ~event.invalid)
    <2>1. SaysBlocked(q, resource, o + 1) <=> SaysBlocked(q, resource, o)
      BY <1>1, <1>6, SaysNext DEF event
    <2>2. BlockedRow(q, resource) \in blocked' <=> BlockedRow(q, resource) \in blocked
      BY <1>3, <1>4, <1>6
    <2>3. PICK n \in o..last : BlockedRow(q, resource) \in blocked <=> SaysBlocked(q, resource, n)
      BY DEF AppliedTo
    <2>4. CASE n = o
      BY <2>1, <2>2, <2>3, <2>4
    <2>5. CASE n # o
      BY <2>2, <2>3, <2>5
    <2> QED
      BY <2>4, <2>5
  <1> QED
    BY <1>5, <1>6

\* An event changes the row of its own queue only.
LEMMA OthersApplied ==
    ASSUME NEW q \in Queues, NEW p \in Queues, p # q, NEW o \in Nat, o < Len(EventLog[q]),
           NEW last, NEW m, AppliedTo(blocked, last, p, m), blocked' = Handled(q, o)
    PROVE  AppliedTo(blocked', last, p, m)
  <1> DEFINE event == ParseEvent(EventLog[q][o + 1])
  <1>1. blocked' \in {blocked, blocked \ {BlockedRow(q, event.resource)}, blocked \cup {BlockedRow(q, event.resource)}}
    BY DEF Handled
  <1>2. o + 1 \in DOMAIN EventLog[q] /\ event.resource = EventLog[q][o + 1].resource
    BY LogTypes DEF ParseEvent
  <1>3. \A resource \in ResourcesOf(p) : BlockedRow(p, resource) # BlockedRow(q, event.resource)
    BY ZenonT(60), <1>2, AccountEventsAssumption DEF ResourcesOf, BlockedRow
  <1> HIDE DEF event
  <1>4. \A resource \in ResourcesOf(p) : BlockedRow(p, resource) \in blocked' <=> BlockedRow(p, resource) \in blocked
    BY <1>1, <1>3
  <1> QED
    BY <1>4 DEF AppliedTo

\* A message other than the first moves up by one.
LEMMA MovesUp ==
    ASSUME EventsTypeOK, NEW q \in Queues, batch # <<>>, batch' = Tail(batch), NEW k \in LeftOf(q), k # 1
    PROVE  k - 1 \in LeftOf(q)' /\ batch'[k - 1] = batch[k]
  <1>1. k \in Nat \ {0} /\ k # 1
    BY MessageTypes
  <1> DEFINE j == k - 1
  <1>2. j \in Nat /\ j # 0 /\ j + 1 = k
    BY <1>1
  <1> HIDE DEF j
  <1>3. j \in LeftOf(q)' /\ batch'[j] = batch[k]
    BY TailLeft, <1>2, ZenonT(60)
  <1> QED
    BY ZenonT(60), <1>3 DEF j

\* Taking the first message of the batch keeps the order of each queue.
LEMMA ShiftOrder ==
    ASSUME EventsTypeOK, NEW q \in Queues, OrderInv(q), batch # <<>>, batch' = Tail(batch),
           UNCHANGED <<published, position, todo>>
    PROVE  OrderInv(q)'
  <1>1. /\ \A i : i \in LeftOf(q)' <=> i \in Nat /\ i # 0 /\ i + 1 \in LeftOf(q)
        /\ \A i \in LeftOf(q)' : batch'[i] = batch[i + 1]
    BY ZenonT(60), TailLeft
  <1>2. position[q] \in Nat /\ \A i \in LeftOf(q) : i \in Nat \ {0} /\ batch[i].offset \in Nat
    BY MessageTypes, OffsetTypes
  <1>3. position'[q] <= published'[q] /\ published'[q] <= Len(EventLog[q])
    BY DEF OrderInv
  <1>4. LeftOf(q)' # {} => RegionOf[q] = Head(todo')
    BY <1>1 DEF OrderInv
  <1>5. ASSUME NEW i \in LeftOf(q)', NEW k \in LeftOf(q)', i < k
        PROVE  batch'[i].offset < batch'[k].offset
    <2>1. i + 1 \in LeftOf(q) /\ k + 1 \in LeftOf(q) /\ i \in Nat /\ k \in Nat
      BY <1>1
    <2>2. batch'[i] = batch[i + 1] /\ batch'[k] = batch[k + 1]
      BY <1>1, ZenonT(60)
    <2>3. i + 1 < k + 1
      BY <1>5, <2>1
    <2> QED
      BY ZenonT(60), <2>1, <2>2, <2>3 DEF OrderInv
  <1>6. ASSUME NEW i \in LeftOf(q)'
        PROVE  /\ batch'[i].offset < position'[q]
               /\ \A o \in batch'[i].offset..(position'[q] - 1) : \E k \in LeftOf(q)' : batch'[k].offset = o
    <2>1. i \in Nat /\ i # 0 /\ i + 1 \in LeftOf(q) /\ batch'[i] = batch[i + 1]
      BY ZenonT(60), <1>1
    <2>2. /\ batch[i + 1].offset < position[q]
          /\ \A o \in batch[i + 1].offset..(position[q] - 1) : \E k \in LeftOf(q) : batch[k].offset = o
      BY <2>1 DEF OrderInv
    <2>3. ASSUME NEW o \in batch[i + 1].offset..(position[q] - 1)
          PROVE  \E k \in LeftOf(q)' : batch'[k].offset = o
      <3>1. PICK k \in LeftOf(q) : batch[k].offset = o
        BY <2>2
      <3>2. k # 1
        <4>1. SUFFICES ASSUME k = 1 PROVE FALSE
          OBVIOUS
        <4>2. k < i + 1
          BY <2>1, <4>1
        <4>3. batch[k].offset < batch[i + 1].offset
          BY <2>1, <4>2 DEF OrderInv
        <4> QED
          BY <1>2, <2>1, <3>1, <4>3
      <3> QED
        BY ZenonT(60), <3>1, <3>2, MovesUp
    <2> QED
      BY ZenonT(60), <2>1, <2>2, <2>3
  <1> QED
    BY <1>3, <1>4, <1>5, <1>6, ZenonT(60) DEF OrderInv

\* A message of another queue, or an error, is taken from the batch.
LEMMA ShiftLevel ==
    ASSUME EventsTypeOK, NEW q \in Queues, LevelInv(q), 1 \notin LeftOf(q),
           batch # <<>>, batch' = Tail(batch),
           UNCHANGED <<published, committed, commits, assigned, position, fatal, drainPc, killed>>,
           done'[q] = done[q], \A m \in Nat : Applied(q, m) => AppliedTo(blocked', published[q], q, m)
    PROVE  LevelInv(q)'
  <1>1. /\ \A i : i \in LeftOf(q)' <=> i \in Nat /\ i # 0 /\ i + 1 \in LeftOf(q)
        /\ \A i \in LeftOf(q)' : batch'[i] = batch[i + 1]
    BY ZenonT(60), TailLeft
  <1>2. \A i \in LeftOf(q) : i \in Nat \ {0} /\ batch[i].offset \in Nat
    BY MessageTypes
  <1>3. \A k \in LeftOf(q) : k - 1 \in LeftOf(q)'
    BY MovesUp
  <1>4. published[q] \in Nat /\ committed[q] \in Nat /\ commits[q] \in Nat /\ position[q] \in Nat /\ done[q] \in Nat
    BY OffsetTypes
  <1>5. InPlace(q)' => InPlace(q)
    BY <1>3 DEF InPlace
  <1>6. ASSUME NEW i \in LeftOf(q)', \A k \in LeftOf(q)' : i <= k
        PROVE  /\ AppliedTo(blocked', published[q], q, batch'[i].offset)
               /\ committed[q] <= batch'[i].offset /\ commits[q] <= batch'[i].offset /\ done[q] <= batch'[i].offset
    <2>1. i \in Nat /\ i + 1 \in LeftOf(q) /\ batch'[i] = batch[i + 1]
      BY ZenonT(60), <1>1
    <2>2. \A k \in LeftOf(q) : i + 1 <= k
      BY <1>2, <1>3, <1>6, <2>1
    <2> QED
      BY ZenonT(60), <1>2, <2>1, <2>2 DEF LevelInv
  <1> QED
    BY ZenonT(60), <1>4, <1>5, <1>6 DEF LevelInv, Applied

\* The message of its queue that comes next is applied: what is left starts at the offset after it.
LEMMA HandleLevel ==
    ASSUME EventsTypeOK, NEW q \in Queues, OrderInv(q), LevelInv(q), HandleMessage, Head(batch).queue = q
    PROVE  LevelInv(q)'
  <1> DEFINE o == batch[1].offset
  <1>1. /\ batch # <<>> /\ batch' = Tail(batch) /\ 1 \in LeftOf(q)
        /\ blocked' = Handled(q, o)
        /\ UNCHANGED <<published, committed, commits, assigned, position, fatal, drainPc, killed>>
    <2>1. batch # <<>> /\ Head(batch) = batch[1] /\ 1 \in DOMAIN batch
      BY HeadTypes DEF HandleMessage
    <2> QED
      BY <2>1 DEF HandleMessage, LeftOf, brokerVars, consumerVars
  <1>2. o \in Nat /\ \A i \in LeftOf(q) : i \in Nat \ {0} /\ batch[i].offset \in Nat
    BY <1>1, MessageTypes
  <1>3. /\ published[q] \in Nat /\ committed[q] \in Nat /\ commits[q] \in Nat /\ position[q] \in Nat
        /\ Len(EventLog[q]) \in Nat
    BY OffsetTypes, LogTypes
  <1>4. done'[q] = o + 1
    <2>1. Head(batch) = batch[1] /\ done \in [Queues -> Nat]
      BY ZenonT(60), <1>1, HeadTypes DEF EventsTypeOK
    <2>2. done' = [done EXCEPT ![q] = o + 1]
      BY ZenonT(60), <2>1 DEF HandleMessage
    <2> QED
      BY <2>1, <2>2
  <1>5. o < position[q] /\ position[q] <= published[q] /\ published[q] <= Len(EventLog[q])
    BY <1>1 DEF OrderInv
  <1>6. Applied(q, o) /\ committed[q] <= o /\ commits[q] <= o
    BY <1>1, <1>2 DEF LevelInv
  <1> HIDE DEF o
  <1>7. AppliedTo(blocked', published[q], q, o + 1)
    BY <1>1, <1>2, <1>3, <1>5, <1>6, AppliedNext DEF Applied
  <1>8. \A m \in Nat : m <= o + 1 => AppliedTo(blocked', published[q], q, m)
    BY <1>2, <1>3, <1>7, AppliedLess
  <1>9. o + 1 < position[q] => \E k \in LeftOf(q) : k # 1 /\ batch[k].offset = o + 1
    <2>1. o + 1 < position[q] => \E k \in LeftOf(q) : batch[k].offset = o + 1
      <3>1. o + 1 < position[q] => o + 1 \in batch[1].offset..(position[q] - 1)
        <4>1. o + 1 < position[q] => o + 1 \in o..(position[q] - 1)
          BY <1>2, <1>3
        <4> QED
          BY ZenonT(60), <4>1 DEF o
      <3> QED
        BY <1>1, <3>1 DEF OrderInv
    <2> QED
      BY <1>2, <2>1 DEF o
  <1>10. InPlace(q)' => position[q] = o + 1
    <2>1. \A k \in LeftOf(q) : k # 1 => LeftOf(q)' # {}
      BY <1>1, MovesUp
    <2> QED
      BY <1>2, <1>3, <1>5, <1>9, <2>1 DEF InPlace
  <1>11. ASSUME NEW i \in LeftOf(q)', \A k \in LeftOf(q)' : i <= k
         PROVE  batch'[i].offset = o + 1
    <2>1. i \in Nat /\ i # 0 /\ i + 1 \in LeftOf(q) /\ batch'[i] = batch[i + 1]
      BY ZenonT(60), <1>1, TailLeft
    <2>2. o < batch[i + 1].offset /\ batch[i + 1].offset < position[q]
      BY <1>1, <2>1 DEF OrderInv, o
    <2>3. PICK k \in LeftOf(q) : k # 1 /\ batch[k].offset = o + 1
      BY <1>2, <1>3, <1>9, <2>1, <2>2
    <2>4. i <= k - 1
      BY <1>1, <1>11, <2>3, MovesUp
    <2>5. i + 1 < k => batch[i + 1].offset < batch[k].offset
      BY <2>1 DEF OrderInv
    <2> QED
      BY <1>2, <2>1, <2>2, <2>3, <2>4, <2>5
  <1>12. ASSUME NEW i \in LeftOf(q)', \A k \in LeftOf(q)' : i <= k
         PROVE  /\ AppliedTo(blocked', published[q], q, batch'[i].offset)
                /\ committed[q] <= batch'[i].offset /\ commits[q] <= batch'[i].offset /\ done'[q] <= batch'[i].offset
    BY <1>2, <1>3, <1>4, <1>6, <1>7, <1>11, <1>12
  <1>13. /\ AppliedTo(blocked', published[q], q, committed[q]) /\ AppliedTo(blocked', published[q], q, commits[q])
         /\ InPlace(q)' => AppliedTo(blocked', published[q], q, position[q])
    BY <1>2, <1>3, <1>6, <1>7, <1>8, <1>10
  <1>14. /\ committed[q] <= published[q] /\ committed[q] <= position[q] /\ commits[q] <= position[q]
         /\ done'[q] <= position[q] /\ committed[q] <= done'[q] /\ commits[q] <= done'[q]
    BY <1>2, <1>3, <1>4, <1>5, <1>6
  <1>15. (q \notin assigned => commits[q] = 0) /\ (commits[q] > 0 => committed[q] <= commits[q])
    BY DEF LevelInv
  <1> QED
    BY <1>1, <1>4, <1>7, <1>12, <1>13, <1>14, <1>15, ZenonT(60) DEF LevelInv, Applied

\* The message that is handled belongs to one queue; the other queues keep what they have.
LEMMA HandleKept ==
    ASSUME EventsTypeOK, NEW q \in Queues, OrderInv(q), LevelInv(q), HandleMessage,
           NEW p \in Queues, p = Head(batch).queue, OrderInv(p)
    PROVE  OrderInv(q)' /\ LevelInv(q)'
  <1>1. /\ batch # <<>> /\ batch' = Tail(batch) /\ Head(batch) = batch[1] /\ 1 \in LeftOf(p)
        /\ UNCHANGED <<published, committed, commits, assigned, position, fatal, drainPc, todo, killed>>
    <2>1. batch # <<>> /\ Head(batch) = batch[1] /\ 1 \in DOMAIN batch
      BY HeadTypes DEF HandleMessage
    <2> QED
      BY <2>1 DEF HandleMessage, LeftOf, brokerVars, consumerVars
  <1>2. OrderInv(q)'
    BY <1>1, ShiftOrder
  <1>3. CASE p = q
    BY <1>2, <1>3, HandleLevel
  <1>4. CASE p # q
    <2>1. 1 \notin LeftOf(q) /\ done'[q] = done[q] /\ blocked' = Handled(p, batch[1].offset)
      BY <1>1, <1>4 DEF LeftOf, HandleMessage, EventsTypeOK
    <2>2. batch[1].offset \in Nat /\ batch[1].offset < Len(EventLog[p])
      BY <1>1, MessageTypes, OffsetTypes, LogTypes DEF OrderInv
    <2>3. \A m \in Nat : Applied(q, m) => AppliedTo(blocked', published[q], q, m)
      BY <1>4, <2>1, <2>2, OthersApplied DEF Applied
    <2> QED
      BY <1>1, <1>2, <2>1, <2>3, ShiftLevel
  <1> QED
    BY <1>3, <1>4

\* A message that carries an error is skipped, or ends the batch and has the consumer built again.
LEMMA ErrorKept ==
    ASSUME EventsTypeOK, DrainInv, NEW q \in Queues, OrderInv(q), LevelInv(q), ErrorMessage
    PROVE  OrderInv(q)' /\ LevelInv(q)'
  <1>1. /\ batch # <<>> /\ 1 \notin LeftOf(q)
        /\ UNCHANGED <<blocked, published, committed, commits, assigned, position, drainPc, todo, killed, done>>
    <2>1. batch # <<>> /\ Head(batch) = batch[1]
      BY DEF ErrorMessage, EventsTypeOK
    <2> QED
      BY <2>1 DEF ErrorMessage, LeftOf, brokerVars
  <1>2. CASE batch' = Tail(batch) /\ UNCHANGED fatal
    <2>1. OrderInv(q)'
      BY <1>1, <1>2, ShiftOrder
    <2>2. LevelInv(q)'
      BY <1>1, <1>2, ShiftLevel DEF Applied
    <2> QED
      BY <2>1, <2>2
  <1>3. CASE batch' = <<>> /\ fatal' = fatal \cup {Head(todo)}
    <2>1. LeftOf(q)' = {}
      BY <1>3, NothingLeft
    <2>2. OrderInv(q)'
      BY <1>1, <2>1 DEF OrderInv
    <2>3. InPlace(q)' => InPlace(q)
      BY <1>1, <1>3 DEF InPlace, OrderInv
    <2> QED
      BY <1>1, <2>1, <2>2, <2>3 DEF LevelInv, Applied
  <1> QED
    BY <1>2, <1>3 DEF ErrorMessage

\* How many come before the i-th in a set of positions.
Rank(K, i) == Cardinality({k \in K : k < i})

\* The finished offsets are on their way; what is left of a batch after the kill signal is not.
LEMMA CommitKept ==
    ASSUME EventsTypeOK, NEW q \in Queues, OrderInv(q), LevelInv(q), CommitOffsets
    PROVE  OrderInv(q)' /\ LevelInv(q)'
  <1>1. /\ batch' = <<>> /\ done'[q] = 0 /\ drainPc' = "region"
        /\ UNCHANGED <<published, committed, blocked, fatal, assigned, position, killed>>
        /\ batch = <<>> \/ killed
    BY DEF CommitOffsets, NextRegion, NoOffsets, consumerVars
  <1>2. commits'[q] = commits[q] \/ (done[q] > 0 /\ q \in assigned /\ commits'[q] = done[q])
    BY DEF CommitOffsets
  <1>3. LeftOf(q)' = {} /\ (batch = <<>> => LeftOf(q) = {})
    BY <1>1, NothingLeft DEF LeftOf
  <1>4. published[q] \in Nat /\ committed[q] \in Nat /\ commits[q] \in Nat /\ position[q] \in Nat /\ done[q] \in Nat
    BY OffsetTypes
  <1>5. OrderInv(q)'
    BY <1>1, <1>3 DEF OrderInv
  <1>6. InPlace(q)' => InPlace(q)
    BY <1>1, <1>3 DEF InPlace
  <1>7. /\ (q \notin assigned => commits'[q] = 0) /\ (q \in assigned => commits'[q] <= position[q])
        /\ commits'[q] > 0 => committed[q] <= commits'[q] /\ Applied(q, commits'[q])
    BY ZenonT(60), <1>2 DEF LevelInv
  <1>8. done'[q] <= position[q] /\ ~(done'[q] > 0)
    BY <1>1, <1>4
  <1>9. LevelInv(q)'
    BY ZenonT(60), <1>1, <1>3, <1>6, <1>7, <1>8 DEF LevelInv, Applied
  <1> QED
    BY <1>5, <1>9

\* The drain is at a region that is left, and the batch is empty between two regions.
LEMMA DrainKept ==
    ASSUME EventsTypeOK, DrainInv, EventsNext
    PROVE  DrainInv'
  <1>1. CASE StartDrain \/ EndDrain \/ KillDrain
    BY <1>1 DEF StartDrain, EndDrain, KillDrain, DrainInv, drainVars, consumerVars
  <1>2. CASE GetConsumer
    <2>1. /\ todo # <<>> /\ fatal' = fatal \ {Head(todo)} /\ batch' = batch /\ done' = done /\ drainPc = "region"
          /\ (drainPc' = "consume" /\ todo' = todo) \/ drainPc' = "region"
      BY <1>2, ZenonT(60) DEF GetConsumer, NextRegion
    <2> QED
      BY <2>1 DEF DrainInv
  <1>3. CASE ConsumeRaises \/ CommitOffsets
    BY <1>3 DEF ConsumeRaises, CommitOffsets, NextRegion, DrainInv
  <1>4. CASE Consume \/ ErrorMessage \/ HandleMessage \/ HandleFails
    <2>1. drainPc' = "handle" /\ todo' = todo /\ drainPc \in {"consume", "handle"}
      BY <1>4 DEF Consume, ErrorMessage, HandleMessage, HandleFails
    <2> QED
      BY <2>1 DEF DrainInv
  <1>5. CASE RestartDrain \/ CrashDrain
    BY <1>5 DEF RestartDrain, CrashDrain, FreshDrain, DrainInv
  <1>6. ASSUME NEW q \in Queues, Publish(q) \/ CommitLands(q) \/ CommitFails(q) \/ Revoke(q) \/ Assign(q) PROVE DrainInv'
    <2>1. UNCHANGED <<fatal, drainPc, todo, batch, done>>
      BY <1>6, ZenonT(60) DEF Publish, CommitLands, CommitFails, Revoke, Assign, consumerVars, drainVars
    <2> QED
      BY <2>1 DEF DrainInv
  <1> QED
    BY <1>1, <1>2, <1>3, <1>4, <1>5, <1>6 DEF EventsNext, SchedulerNext

\* Types that the steps of the broker and of the process keep.
LEMMA EventTypes ==
    ASSUME EventsTypeOK, DrainInv, EventsNext, ~Consume, ~HandleMessage, ~HandleFails
    PROVE  EventsTypeOK'
  <1> USE DEF EventsTypeOK
  <1>0. /\ todo # <<>> => Head(todo) \in RegionSet /\ Tail(todo) \in Seq(RegionSet)
        /\ Regions \in Seq(RegionSet) /\ MaxEventFaults \in Nat /\ <<>> \in Seq(EventMessages) /\ <<>> \in Seq(RegionSet)
        /\ NoOffsets \in [Queues -> Nat]
    <2>1. Regions \in Seq(RegionSet) /\ MaxEventFaults \in Nat
      BY ZenonT(60), AccountEventsAssumption
    <2>2. todo \in Seq(RegionSet)
      OBVIOUS
    <2>3. todo # <<>> => Head(todo) \in RegionSet /\ Tail(todo) \in Seq(RegionSet)
      BY <2>2
    <2> QED
      BY <2>1, <2>3 DEF NoOffsets
  <1>1. EventFault => faults' \in 0..MaxEventFaults
    BY FaultTypes
  <1>2. CASE StartDrain \/ EndDrain \/ KillDrain
    BY ZenonT(60), <1>0, <1>1, <1>2 DEF StartDrain, EndDrain, KillDrain, drainVars, consumerVars, brokerVars
  <1>3. CASE GetConsumer
    <2>1. /\ todo # <<>> /\ fatal' = fatal \ {Head(todo)} /\ UNCHANGED <<published, committed, blocked, position, batch, done, killed>>
          /\ drainPc' \in {"consume", "region"} /\ todo' \in {todo, Tail(todo)}
          /\ consumers' \in {consumers \cup {Head(todo)}, consumers \ {Head(todo)}}
          /\ faults' = faults \/ EventFault
      BY <1>3, ZenonT(60) DEF GetConsumer, NextRegion
    <2>2. commits' \in [Queues -> Nat] /\ assigned' \subseteq Queues
      <3>1. (assigned' = assigned /\ commits' = commits) \/ Closed(Head(todo))
        BY <1>3, ZenonT(60) DEF GetConsumer
      <3>2. commits \in [Queues -> Nat] /\ assigned \subseteq Queues
        OBVIOUS
      <3>3. CASE Closed(Head(todo))
        BY <3>2, <3>3 DEF Closed
      <3> QED
        BY <3>1, <3>2, <3>3
    <2> QED
      BY ZenonT(60), <1>0, <1>1, <2>1, <2>2
  <1>4. CASE ConsumeRaises
    BY <1>0, <1>1, <1>4 DEF ConsumeRaises, NextRegion, DrainInv, brokerVars
  <1>5. CASE CommitOffsets
    <2>1. commits' \in [Queues -> Nat]
      BY ZenonT(60), <1>5 DEF CommitOffsets
    <2>2. faults' \in 0..MaxEventFaults
      BY <1>1, <1>5 DEF CommitOffsets
    <2> QED
      BY ZenonT(60), <1>0, <1>5, <2>1, <2>2 DEF CommitOffsets, NextRegion, DrainInv, consumerVars
  <1>6. CASE ErrorMessage
    <2>1. todo # <<>> /\ batch # <<>> /\ Tail(batch) \in Seq(EventMessages)
      BY <1>6 DEF ErrorMessage, DrainInv
    <2> QED
      BY ZenonT(60), <1>0, <1>6, <2>1 DEF ErrorMessage, brokerVars
  <1>7. CASE RestartDrain \/ CrashDrain
    BY ZenonT(60), <1>0, <1>1, <1>7 DEF RestartDrain, CrashDrain, FreshDrain
  <1>8. ASSUME NEW q \in Queues, Publish(q) \/ CommitLands(q) \/ CommitFails(q) PROVE EventsTypeOK'
    <2>1. published \in [Queues -> Nat] /\ committed \in [Queues -> Nat] /\ commits \in [Queues -> Nat]
      OBVIOUS
    <2>2. CASE Publish(q)
      <3>1. published' \in [Queues -> Nat]
        BY <2>1, <2>2 DEF Publish
      <3> QED
        BY <2>2, <3>1 DEF Publish, consumerVars, drainVars
    <2>3. CASE CommitLands(q)
      <3>1. committed' \in [Queues -> Nat] /\ commits' \in [Queues -> Nat]
        BY <2>1, <2>3 DEF CommitLands
      <3> QED
        BY <2>3, <3>1 DEF CommitLands, consumerVars, drainVars
    <2>4. CASE CommitFails(q)
      <3>1. commits' \in [Queues -> Nat]
        BY <2>1, <2>4 DEF CommitFails
      <3> QED
        BY <1>1, <2>4, <3>1 DEF CommitFails, consumerVars, drainVars
    <2> QED
      BY ZenonT(60), <1>8, <2>2, <2>3, <2>4
  <1>9. ASSUME NEW q \in Queues, Revoke(q) \/ Assign(q) PROVE EventsTypeOK'
    <2>1. /\ committed[q] \in Nat /\ 0 \in Nat
          /\ commits \in [Queues -> Nat] /\ position \in [Queues -> Nat] /\ assigned \subseteq Queues
      OBVIOUS
    <2>2. commits' \in [Queues -> Nat] /\ position' \in [Queues -> Nat] /\ assigned' \subseteq Queues
      BY <1>9, <2>1 DEF Revoke, Assign, brokerVars
    <2>3. faults' \in 0..MaxEventFaults
      BY ZenonT(60), <1>1, <1>9 DEF Revoke, Assign
    <2>4. UNCHANGED <<published, committed, blocked, consumers, fatal, drainVars, killed>>
      BY ZenonT(60), <1>9 DEF Revoke, Assign, brokerVars
    <2> QED
      BY ZenonT(60), <2>2, <2>3, <2>4 DEF drainVars
  <1> QED
    BY ZenonT(60), <1>2, <1>3, <1>4, <1>5, <1>6, <1>7, <1>8, <1>9 DEF EventsNext, SchedulerNext

\* Steps that give up partitions or commits at most, and those after which only the committed counts.
LEMMA QuietKept ==
    ASSUME EventsTypeOK, EventsTypeOK', DrainInv, NEW q \in Queues, OrderInv(q), LevelInv(q),
           \/ StartDrain \/ EndDrain \/ GetConsumer \/ ConsumeRaises \/ KillDrain
           \/ \E p \in Queues : Publish(p) \/ CommitFails(p) \/ Revoke(p)
    PROVE  OrderInv(q)' /\ LevelInv(q)'
  <1>2. /\ published[q] \in Nat /\ published[q] <= Len(EventLog[q]) /\ Len(EventLog[q]) \in Nat
        /\ q \notin assigned => commits[q] = 0
    BY OffsetTypes, LogTypes DEF OrderInv, LevelInv
  <1>3. drainPc # "handle" => LeftOf(q) = {}
    BY DEF DrainInv, LeftOf
  <1>4. batch' = batch => LeftOf(q)' = LeftOf(q)
    BY DEF LeftOf
  <1>5. CASE StartDrain \/ EndDrain
    <2>1. /\ UNCHANGED <<published, committed, commits, blocked, fatal, assigned, position, batch, done, killed>>
          /\ drainPc \in {"idle", "region"}
      BY <1>5 DEF StartDrain, EndDrain, brokerVars, consumerVars
    <2>2. InPlace(q)' => InPlace(q)
      BY <1>4, <1>5, <2>1 DEF StartDrain, EndDrain, InPlace
    <2>3. /\ UNCHANGED <<published, committed, blocked, batch, position, done>> /\ commits'[q] \in {commits[q], 0}
          /\ (q \in assigned' => q \in assigned) /\ (q \notin assigned' => commits'[q] = 0)
          /\ LeftOf(q) # {} => todo' = todo
      BY ZenonT(60), <1>2, <1>3, <2>1
    <2> QED
      BY ZenonT(60), <2>2, <2>3, LogKept
  <1>6. CASE GetConsumer
    <2>1. /\ UNCHANGED <<published, committed, blocked, position, batch, done, killed>>
          /\ drainPc = "region" /\ ~killed /\ fatal' = fatal \ {Head(todo)}
      BY <1>6 DEF GetConsumer
    <2>2. \/ UNCHANGED <<assigned, commits>> /\ Head(todo) \notin fatal
          \/ Closed(Head(todo))
      BY <1>6, ZenonT(60) DEF GetConsumer
    <2>3. CASE UNCHANGED <<assigned, commits>> /\ Head(todo) \notin fatal
      <3>1. InPlace(q)' => InPlace(q)
        BY <1>4, <2>1, <2>3 DEF InPlace
      <3>2. /\ UNCHANGED <<published, committed, blocked, batch, position, done>> /\ commits'[q] \in {commits[q], 0}
            /\ (q \in assigned' => q \in assigned) /\ (q \notin assigned' => commits'[q] = 0)
            /\ LeftOf(q) # {} => todo' = todo
        BY ZenonT(60), <1>2, <1>3, <2>1, <2>3
      <3> QED
        BY ZenonT(60), <3>1, <3>2, LogKept
    <2>4. CASE Closed(Head(todo))
      <3>1. /\ assigned' = assigned \ QueuesOf(Head(todo))
            /\ commits'[q] = IF q \in QueuesOf(Head(todo)) THEN 0 ELSE commits[q]
        BY <2>4 DEF Closed
      <3>2. InPlace(q)' => InPlace(q)
        BY <1>4, <2>1, <3>1 DEF InPlace, QueuesOf
      <3>3. commits'[q] \in {commits[q], 0} /\ (q \in assigned' => q \in assigned) /\ (q \notin assigned' => commits'[q] = 0)
        BY <1>2, <3>1
      <3>4. UNCHANGED <<published, committed, blocked, batch, position, done>> /\ (LeftOf(q) # {} => todo' = todo)
        BY ZenonT(60), <1>3, <2>1
      <3> QED
        BY ZenonT(60), <3>2, <3>3, <3>4, LogKept
    <2> QED
      BY <2>2, <2>3, <2>4
  <1>7. CASE ConsumeRaises
    <2>1. /\ UNCHANGED <<published, committed, commits, blocked, assigned, position, batch, done, killed>>
          /\ drainPc = "consume" /\ fatal \subseteq fatal'
      BY <1>7 DEF ConsumeRaises, brokerVars
    <2>2. InPlace(q)' => InPlace(q)
      BY <1>4, <2>1 DEF InPlace
    <2>3. /\ UNCHANGED <<published, committed, blocked, batch, position, done>> /\ commits'[q] \in {commits[q], 0}
          /\ (q \in assigned' => q \in assigned) /\ (q \notin assigned' => commits'[q] = 0)
          /\ LeftOf(q) # {} => todo' = todo
      BY ZenonT(60), <1>2, <1>3, <2>1
    <2> QED
      BY ZenonT(60), <2>2, <2>3, LogKept
  <1>8. CASE KillDrain
    <2>1. /\ UNCHANGED <<published, committed, commits, blocked, assigned, fatal, position, todo, batch, done, drainPc>>
          /\ ~killed
      BY <1>8 DEF KillDrain, brokerVars, consumerVars, drainVars
    <2>2. InPlace(q)' => InPlace(q)
      BY <1>4, <2>1 DEF InPlace
    <2>3. /\ UNCHANGED <<published, committed, blocked, batch, position, done>> /\ commits'[q] \in {commits[q], 0}
          /\ (q \in assigned' => q \in assigned) /\ (q \notin assigned' => commits'[q] = 0)
          /\ LeftOf(q) # {} => todo' = todo
      BY ZenonT(60), <1>2, <2>1
    <2> QED
      BY ZenonT(60), <2>2, <2>3, LogKept
  <1>9. ASSUME NEW p \in Queues, Publish(p) \/ CommitFails(p) \/ Revoke(p) PROVE OrderInv(q)' /\ LevelInv(q)'
    <2>1. UNCHANGED <<committed, blocked, fatal, position, todo, batch, done, drainPc, killed>>
      BY <1>9, ZenonT(60) DEF Publish, CommitFails, Revoke, consumerVars, drainVars
    <2>2. published[q] <= published'[q] /\ published'[q] <= Len(EventLog[q])
      <3>1. published \in [Queues -> Nat]
        BY DEF EventsTypeOK
      <3>2. CASE Publish(p)
        <4>1. published' = [published EXCEPT ![p] = published[p] + 1] /\ published[p] < Len(EventLog[p])
          BY <3>2 DEF Publish
        <4>2. CASE p = q
          BY <1>2, <3>1, <4>1, <4>2
        <4>3. CASE p # q
          BY <1>2, <3>1, <4>1, <4>3
        <4> QED
          BY <4>2, <4>3
      <3>3. CASE CommitFails(p) \/ Revoke(p)
        BY <1>2, <3>3 DEF CommitFails, Revoke
      <3> QED
        BY <1>9, <3>2, <3>3
    <2>3. /\ commits'[q] \in {commits[q], 0}
          /\ q \in assigned' => q \in assigned
          /\ q \notin assigned' => commits'[q] = 0
      <3>1. commits \in [Queues -> Nat]
        BY DEF EventsTypeOK
      <3> QED
        BY <1>2, <1>9, <3>1 DEF Publish, CommitFails, Revoke, consumerVars
    <2>4. InPlace(q)' => InPlace(q)
      BY <1>4, <2>1, <2>3 DEF InPlace
    <2> QED
      BY <2>1, <2>2, <2>3, <2>4, OrderKept, LevelKept
  <1> QED
    BY <1>5, <1>6, <1>7, <1>8, <1>9

\* A new process starts from what is committed.
LEMMA FreshKept ==
    ASSUME EventsTypeOK, EventsTypeOK', NEW q \in Queues, OrderInv(q), LevelInv(q), FreshDrain
    PROVE  OrderInv(q)' /\ LevelInv(q)'
  <1>1. /\ UNCHANGED <<blocked, committed, published, position>>
        /\ batch' = <<>> /\ done'[q] = 0 /\ q \notin assigned' /\ commits'[q] = 0
    BY DEF FreshDrain, NoOffsets
  <1>2. OrderInv(q)'
    BY <1>1, OrderAnew DEF OrderInv
  <1> QED
    BY <1>1, <1>2, LevelAnew

\* The order is the business of the consumer: a commit that lands leaves it alone.
LEMMA LandsOrder ==
    ASSUME EventsTypeOK, EventsTypeOK', NEW q \in Queues, OrderInv(q), NEW p \in Queues, CommitLands(p)
    PROVE  OrderInv(q)'
  <1>1. UNCHANGED <<published, batch, position, todo>>
    BY DEF CommitLands, consumerVars, drainVars
  <1>2. published[q] \in Nat /\ published[q] <= Len(EventLog[q])
    BY OffsetTypes DEF OrderInv
  <1> QED
    BY <1>1, <1>2, OrderKept

\* What is read of the table is the same for the two gates: the region of an instance
\* is what its CRN matches, and no region is empty or "none".
LEMMA GatesRead ==
    ASSUME EventsTypeOK
    PROVE  GatesAgree
  <1>1. \A row \in blocked : row[3] \in RegionSet /\ row[3] # "none" /\ row[3] # ""
    <2>1. \A row \in blocked : row[3] \in RegionSet
      BY DEF EventsTypeOK
    <2>2. "none" \notin RegionSet /\ "" \notin RegionSet
      BY ZenonT(60), AccountEventsAssumption
    <2> QED
      BY ZenonT(60), <2>1, <2>2
  <1> SUFFICES ASSUME NEW resource \in BlockedResources, NEW crn \in Crns, NEW regional \in BOOLEAN
               PROVE  Blocks(resource, crn, regional) <=> BlockedJobsFilter(resource, crn, regional)
    BY DEF GatesAgree
  <1>2. \A row \in blocked : row[3] = RegionOfCrn(crn) <=> MatchesRegion(crn, row[3])
    <2>1. crn \in Seq(STRING)
      BY AccountEventsAssumption, ZenonT(60)
    <2>2. Len(crn) > 6 <=> ~(Len(crn) <= 6)
      BY <2>1
    <2> QED
      BY <1>1, <2>2, ZenonT(60) DEF RegionOfCrn, MatchesRegion, NoRegion
  <1>3. CASE regional
    <2> DEFINE pairs == {<<r[1], r[3]>> : r \in blocked}
    <2>1. \A r \in blocked : <<r[1], r[3]>> \in pairs
      OBVIOUS
    <2>2. \A pair \in pairs : \E r \in blocked : pair[1] = r[1] /\ pair[2] = r[3]
      OBVIOUS
    <2>3. BlockedJobsFilter(resource, crn, regional) <=> \E pair \in pairs : pair[1] = resource /\ MatchesRegion(crn, pair[2])
      BY <1>3 DEF BlockedJobsFilter
    <2>4. Blocks(resource, crn, regional) <=> \E r \in blocked : r[1] = resource /\ MatchesRegion(crn, r[3])
      BY <1>2, <1>3 DEF Blocks
    <2> HIDE DEF pairs
    <2>5. ASSUME NEW r \in blocked, r[1] = resource, MatchesRegion(crn, r[3])
          PROVE  \E pair \in pairs : pair[1] = resource /\ MatchesRegion(crn, pair[2])
      <3> DEFINE pair == <<r[1], r[3]>>
      <3>1. pair[1] = r[1] /\ pair[2] = r[3] /\ pair \in pairs
        BY <2>1
      <3> HIDE DEF pair
      <3> QED
        BY <2>5, <3>1
    <2> QED
      BY <2>2, <2>3, <2>4, <2>5
  <1>4. CASE ~regional
    BY <1>4 DEF Blocks, BlockedJobsFilter
  <1> QED
    BY <1>3, <1>4

\* The rest counts.
INSTANCE FiniteSetTheorems

\* A set of numbers that is not empty has a least one.
LEMMA SmallestNat ==
    ASSUME NEW S, \A i \in S : i \in Nat, S # {}
    PROVE  \E i \in S : \A k \in S : i <= k
  <1> DEFINE R == OpToRel(<, Nat)
  <1>1. IsWellFoundedOn(R, Nat)
    BY ZenonT(60), NatLessThanWellFounded
  <1>2. \A i, k \in Nat : k < i => <<k, i>> \in R
    BY DEF OpToRel
  <1> HIDE DEF R
  <1>3. S \subseteq Nat
    OBVIOUS
  <1>4. PICK i \in S : \A k \in S : ~(<<k, i>> \in R)
    BY <1>1, <1>3, WFMin, ZenonT(60)
  <1>5. \A k \in S : ~(k < i)
    BY <1>2, <1>3, <1>4, ZenonT(60)
  <1> QED
    BY <1>3, <1>5

\* The first offset of a queue in the batch is that of the first message left of it.
LEMMA FirstLeft ==
    ASSUME EventsTypeOK, NEW q \in InBatch
    PROVE  \E i \in LeftOf(q) : FirstOffset(q) = batch[i].offset /\ batch[i].offset \in Nat /\ \A k \in LeftOf(q) : i <= k
  <1> DEFINE First(i) == /\ batch[i].error = "none" /\ batch[i].queue = q
                         /\ \A k \in 1..(i - 1) : batch[k].error = "none" => batch[k].queue # q
  <1>1. LeftOf(q) # {}
    BY DEF InBatch, LeftOf
  <1>2. \A i \in LeftOf(q) : i \in Nat \ {0} /\ batch[i].offset \in Nat
    BY MessageTypes
  <1>3. \E i \in LeftOf(q) : \A k \in LeftOf(q) : i <= k
    BY <1>1, <1>2, SmallestNat
  <1>4. \E i \in DOMAIN batch : First(i)
    BY <1>3, MessageTypes DEF LeftOf
  <1>5. PICK i \in DOMAIN batch : First(i) /\ FirstOffset(q) = batch[i].offset
    BY <1>4, ZenonT(60) DEF FirstOffset
  <1>6. i \in LeftOf(q) /\ \A k \in LeftOf(q) : i <= k
    BY <1>2, <1>5, MessageTypes DEF LeftOf
  <1> QED
    BY <1>2, <1>5, <1>6

\* A failure rewinds to the first message that is left of each queue, which is where the table is.
LEMMA FailKept ==
    ASSUME EventsTypeOK, NEW q \in Queues, OrderInv(q), LevelInv(q), HandleFails
    PROVE  OrderInv(q)' /\ LevelInv(q)'
  <1>1. /\ batch' = <<>>
        /\ UNCHANGED <<published, committed, commits, blocked, fatal, assigned, drainPc, todo, done, killed>>
        /\ position' = [p \in Queues |-> IF p \in InBatch \cap assigned THEN FirstOffset(p) ELSE position[p]]
    BY DEF HandleFails, Rewind, brokerVars
  <1>2. LeftOf(q)' = {}
    BY <1>1, NothingLeft
  <1>3. /\ published[q] \in Nat /\ committed[q] \in Nat /\ commits[q] \in Nat /\ position[q] \in Nat /\ done[q] \in Nat
        /\ \A i \in LeftOf(q) : i \in Nat \ {0} /\ batch[i].offset \in Nat
    BY OffsetTypes, MessageTypes
  <1>4. CASE q \in InBatch \cap assigned
    <2>1. PICK i \in LeftOf(q) : FirstOffset(q) = batch[i].offset /\ \A k \in LeftOf(q) : i <= k
      BY <1>4, FirstLeft
    <2>2. position'[q] = batch[i].offset
      BY <1>1, <1>4, <2>1
    <2>3. /\ Applied(q, batch[i].offset) /\ batch[i].offset < position[q]
          /\ committed[q] <= batch[i].offset /\ commits[q] <= batch[i].offset /\ done[q] <= batch[i].offset
      BY <2>1 DEF LevelInv, OrderInv
    <2>4. OrderInv(q)'
      <3>1. position[q] <= published[q] /\ published[q] <= Len(EventLog[q])
        BY ZenonT(60) DEF OrderInv
      <3>2. batch[i].offset <= published[q]
        BY <1>3, <2>1, <2>3, <3>1
      <3> QED
        BY ZenonT(60), <1>1, <1>2, <2>2, <3>1, <3>2 DEF OrderInv
    <2> QED
      BY <1>1, <1>2, <1>3, <1>4, <2>1, <2>2, <2>3, <2>4 DEF LevelInv, Applied
  <1>5. CASE q \notin InBatch \cap assigned
    <2>1. position'[q] = position[q]
      BY <1>1, <1>5
    <2>2. OrderInv(q)'
      BY <1>1, <1>2, <2>1 DEF OrderInv
    <2>3. InPlace(q)' => InPlace(q)
      <3>1. LeftOf(q) # {} => q \in InBatch
        BY DEF LeftOf, InBatch
      <3> QED
        BY <1>1, <1>5, <3>1 DEF InPlace
    <2> QED
      BY <1>1, <1>2, <2>1, <2>2, <2>3 DEF LevelInv, Applied
  <1> QED
    BY <1>4, <1>5

\* The ranks in a set of positions go up with the positions, from 0, without a gap.
LEMMA Ranks ==
    ASSUME NEW n \in Nat, NEW K, K \subseteq 1..n
    PROVE  /\ IsFiniteSet(K) /\ Cardinality(K) \in Nat
           /\ \A i \in K : Rank(K, i) \in 0..(Cardinality(K) - 1)
           /\ \A i, k \in K : i < k => Rank(K, i) < Rank(K, k)
           /\ \A i \in K : (\A k \in K : i <= k) => Rank(K, i) = 0
           /\ \A o \in 0..(Cardinality(K) - 1) : \E k \in K : Rank(K, k) = o
  <1> DEFINE Below(i) == {k \in K : k < i}
  <1>0. \A k \in K : k \in Nat
    OBVIOUS
  <1>1. IsFiniteSet(1..n)
    BY FS_Interval
  <1>2. IsFiniteSet(K)
    BY <1>1, FS_Subset, ZenonT(60)
  <1>3. \A S \in SUBSET K : IsFiniteSet(S) /\ Cardinality(S) \in Nat
    BY <1>2, FS_Subset, FS_CardinalityType, ZenonT(60)
  <1>4. \A S \in SUBSET K, T \in SUBSET K : S \subseteq T => Cardinality(S) <= Cardinality(T)
    BY <1>3, FS_Subset, ZenonT(60)
  <1>5. ASSUME NEW i \in K PROVE Cardinality(Below(i) \cup {i}) = Rank(K, i) + 1 /\ Rank(K, i) \in Nat
    <2>1. IsFiniteSet(Below(i)) /\ Cardinality(Below(i)) \in Nat
      BY <1>3
    <2>2. i \notin Below(i)
      OBVIOUS
    <2> HIDE DEF Below
    <2>3. Cardinality(Below(i) \cup {i}) = Cardinality(Below(i)) + 1
      BY <2>1, <2>2, FS_AddElement, ZenonT(60)
    <2> QED
      BY <2>1, <2>3 DEF Rank, Below
  <1>6. ASSUME NEW i \in K PROVE Rank(K, i) \in 0..(Cardinality(K) - 1)
    <2>1. Cardinality(Below(i) \cup {i}) <= Cardinality(K) /\ Cardinality(K) \in Nat
      BY <1>3, <1>4
    <2> QED
      BY <1>5, <2>1
  <1>7. ASSUME NEW i \in K, NEW k \in K, i < k PROVE Rank(K, i) < Rank(K, k)
    <2>0. \A j \in K : j < i => j < k
      BY <1>0, <1>7
    <2>1. Below(i) \cup {i} \subseteq Below(k)
      BY <1>7, <2>0, ZenonT(60)
    <2>2. Cardinality(Below(i) \cup {i}) <= Cardinality(Below(k))
      BY <1>4, <2>1
    <2>3. Rank(K, k) = Cardinality(Below(k)) /\ Rank(K, k) \in Nat
      BY ZenonT(60), <1>5 DEF Rank
    <2> HIDE DEF Below
    <2> QED
      BY <1>5, <2>2, <2>3
  <1>8. ASSUME NEW i \in K, \A k \in K : i <= k PROVE Rank(K, i) = 0
    <2>0. \A j \in K : ~(j < i)
      BY <1>0, <1>8
    <2>1. Below(i) = {}
      BY <2>0, ZenonT(60)
    <2> QED
      BY <2>1, FS_EmptySet DEF Rank
  <1>9. ASSUME NEW o \in 0..(Cardinality(K) - 1), \A k \in K : Rank(K, k) # o PROVE FALSE
    <2> DEFINE m == Cardinality(K)
               T == (0..(m - 1)) \ {o}
               f == [k \in K |-> Rank(K, k)]
    <2>1. m \in Nat /\ m # 0 /\ o \in 0..(m - 1)
      BY <1>2, FS_CardinalityType
    <2>2. f \in [K -> T]
      BY <1>6, <1>9
    <2>3. IsFiniteSet(0..(m - 1)) /\ Cardinality(0..(m - 1)) = m
      BY <2>1, FS_Interval
    <2>4. IsFiniteSet(T) /\ Cardinality(T) = Cardinality(0..(m - 1)) - 1
      BY <2>1, <2>3, FS_RemoveElement, ZenonT(60)
    <2>5. \A k \in K : f[k] = Rank(K, k)
      OBVIOUS
    <2>6. Cardinality(T) < Cardinality(K)
      BY <2>1, <2>3, <2>4
    <2> HIDE DEF f, T
    <2>7. \E i, k \in K : i # k /\ f[i] = f[k]
      BY <1>2, <2>2, <2>4, <2>6, FS_PigeonHole, ZenonT(60)
    <2>8. PICK i \in K, k \in K : i # k /\ Rank(K, i) = Rank(K, k)
      BY <2>5, <2>7
    <2>9. i < k \/ k < i
      BY <2>8
    <2> QED
      BY <1>6, <1>7, <2>8, <2>9
  <1>10. Cardinality(K) \in Nat
    BY <1>3
  <1> QED
    BY <1>2, <1>6, <1>7, <1>8, <1>9, <1>10

\* What consume() returns, and where it leaves the positions.
LEMMA ConsumeKept ==
    ASSUME EventsTypeOK, DrainInv, NEW q \in Queues, OrderInv(q), LevelInv(q), Consume
    PROVE  OrderInv(q)' /\ LevelInv(q)'
  <1>1. PICK s \in Fetches(Head(todo)) :
            /\ batch' = [i \in DOMAIN s |->
                    IF s[i] \in Queues
                    THEN [queue |-> s[i], offset |-> position[s[i]] + CountOf(SubSeq(s, 1, i - 1), s[i]), error |-> "none"]
                    ELSE [error |-> s[i]]]
            /\ position' = [p \in Queues |-> position[p] + CountOf(s, p)]
    BY ZenonT(60) DEF Consume
  <1> DEFINE T == (QueuesOf(Head(todo)) \cap assigned) \cup {"error", "fatal"}
             K == {i \in DOMAIN s : s[i] = q}
             m == Cardinality(K)
  <1>2. PICK n \in Nat : s \in [1..n -> T]
    <2>1. \E n \in 0..MaxBatch : s \in [1..n -> T]
      BY <1>1, ZenonT(60) DEF Fetches
    <2>2. MaxBatch \in Nat
      BY ZenonT(60), AccountEventsAssumption
    <2> HIDE DEF T
    <2> QED
      BY <2>1, <2>2
  <1>3. K # {} => q \in assigned /\ RegionOf[q] = Head(todo)
    <2>1. q # "error" /\ q # "fatal"
      BY ZenonT(60), AccountEventsAssumption
    <2> QED
      BY <1>2, <2>1 DEF QueuesOf
  <1>4. /\ IsFiniteSet(K) /\ m \in Nat
        /\ \A i \in K : Rank(K, i) \in 0..(m - 1)
        /\ \A i, k \in K : i < k => Rank(K, i) < Rank(K, k)
        /\ \A i \in K : (\A k \in K : i <= k) => Rank(K, i) = 0
        /\ \A o \in 0..(m - 1) : \E k \in K : Rank(K, k) = o
    <2>1. K \subseteq 1..n
      BY <1>2
    <2> HIDE DEF K
    <2> QED
      BY <2>1, Ranks, ZenonT(60)
  <1>5. position'[q] = position[q] + m
    BY <1>1 DEF CountOf
  <1>6. m # 0 => m <= published[q] - position[q]
    <2>1. K = {} => m = 0
      BY FS_EmptySet
    <2>2. q \in QueuesOf(Head(todo)) => CountOf(s, q) <= published[q] - position[q]
      BY <1>1, ZenonT(60) DEF Fetches
    <2>3. CountOf(s, q) = m
      BY DEF CountOf
    <2> QED
      BY <1>3, <2>1, <2>2, <2>3 DEF QueuesOf
  <1>7. LeftOf(q)' = K
    <2>1. DOMAIN batch' = DOMAIN s
      BY <1>1
    <2>2. \A i \in DOMAIN s : s[i] = q => batch'[i].error = "none" /\ batch'[i].queue = q
      BY <1>1
    <2>3. \A i \in DOMAIN s : s[i] \in Queues => batch'[i].queue = s[i]
      BY <1>1
    <2>4. \A i \in DOMAIN s : s[i] \notin Queues => batch'[i].error = s[i] /\ s[i] # "none"
      BY <1>1, <1>2 DEF QueuesOf
    <2> QED
      BY <2>1, <2>2, <2>3, <2>4, ZenonT(60) DEF LeftOf
  <1>8. \A i \in K : batch'[i].offset = position[q] + Rank(K, i)
    <2> SUFFICES ASSUME NEW i \in K PROVE batch'[i].offset = position[q] + Rank(K, i)
      OBVIOUS
    <2>1. i \in 1..n /\ DOMAIN s = 1..n
      BY <1>2
    <2>2. batch'[i].offset = position[q] + CountOf(SubSeq(s, 1, i - 1), q)
      BY <1>1
    <2> DEFINE before == SubSeq(s, 1, i - 1)
    <2>3. DOMAIN before = 1..(i - 1) /\ \A k \in 1..(i - 1) : before[k] = s[k]
      <3>1. s \in Seq(T) /\ Len(s) = n
        BY <1>2
      <3> HIDE DEF T
      <3> QED
        BY <2>1, <3>1
    <2> HIDE DEF before
    <2>4. \A k : k \in 1..(i - 1) <=> k \in 1..n /\ k < i
      BY <2>1
    <2>5. {k \in DOMAIN before : before[k] = q} = {k \in K : k < i}
      BY <2>1, <2>3, <2>4, ZenonT(60)
    <2>6. CountOf(before, q) = Rank(K, i)
      BY <2>5 DEF CountOf, Rank
    <2> QED
      BY <2>2, <2>6 DEF before
  <1>9. /\ batch = <<>> /\ done = NoOffsets /\ done'[q] = 0 /\ drainPc = "consume" /\ drainPc' = "handle"
        /\ UNCHANGED <<published, committed, commits, blocked, fatal, assigned, todo, killed>>
        /\ Head(todo) \notin fatal
    BY DEF Consume, DrainInv, NoOffsets, brokerVars
  <1>10. published[q] \in Nat /\ committed[q] \in Nat /\ commits[q] \in Nat /\ position[q] \in Nat
    BY OffsetTypes
  <1>11. LeftOf(q) = {}
    BY <1>9 DEF LeftOf
  <1>12. \A i \in K : i \in Nat
    BY <1>2
  <1> HIDE DEF K, m
  <1>13. OrderInv(q)'
    <2>1. position'[q] <= published'[q] /\ published'[q] <= Len(EventLog[q])
      BY <1>4, <1>5, <1>6, <1>9, <1>10 DEF OrderInv
    <2>2. LeftOf(q)' # {} => RegionOf[q] = Head(todo')
      BY <1>3, <1>7, <1>9
    <2>3. \A i, k \in LeftOf(q)' : i < k => batch'[i].offset < batch'[k].offset
      <3>1. \A i, k \in K : i < k => /\ Rank(K, i) \in Nat /\ Rank(K, k) \in Nat /\ Rank(K, i) < Rank(K, k)
                                   /\ batch'[i].offset = position[q] + Rank(K, i) /\ batch'[k].offset = position[q] + Rank(K, k)
        BY <1>4, <1>8
      <3>2. \A a, b, c \in Nat : b < c => a + b < a + c
        OBVIOUS
      <3> QED
        BY ZenonT(60), <1>7, <1>10, <3>1, <3>2
    <2>4. ASSUME NEW i \in LeftOf(q)'
          PROVE  /\ batch'[i].offset < position'[q]
                 /\ \A o \in batch'[i].offset..(position'[q] - 1) : \E k \in LeftOf(q)' : batch'[k].offset = o
      <3>1. Rank(K, i) \in 0..(m - 1) /\ batch'[i].offset = position[q] + Rank(K, i)
        BY <1>4, <1>7, <1>8
      <3>2. ASSUME NEW o \in batch'[i].offset..(position'[q] - 1)
            PROVE  \E k \in LeftOf(q)' : batch'[k].offset = o
        <4>1. o - position[q] \in 0..(m - 1) /\ position[q] + (o - position[q]) = o
          BY <1>4, <1>5, <1>10, <3>1
        <4>2. PICK k \in K : Rank(K, k) = o - position[q]
          BY <1>4, <4>1, ZenonT(60)
        <4> QED
          BY <1>7, <1>8, <4>1, <4>2
      <3>3. batch'[i].offset < position'[q]
        BY <1>4, <1>5, <1>10, <3>1
      <3> QED
        BY ZenonT(60), <3>2, <3>3
    <2> QED
      BY <2>1, <2>2, <2>3, <2>4, ZenonT(60) DEF OrderInv
  <1>14. InPlace(q) => Applied(q, position[q])
    BY DEF LevelInv
  <1>15. InPlace(q)' => position'[q] = position[q] /\ InPlace(q)
    <2>1. K = {} => m = 0
      BY FS_EmptySet DEF m
    <2> QED
      BY <1>5, <1>7, <1>9, <1>10, <1>11, <2>1 DEF InPlace
  <1>16. ASSUME NEW i \in LeftOf(q)', \A k \in LeftOf(q)' : i <= k
         PROVE  /\ Applied(q, batch'[i].offset)
                /\ committed[q] <= batch'[i].offset /\ commits[q] <= batch'[i].offset /\ done'[q] <= batch'[i].offset
    <2>1. batch'[i].offset = position[q]
      BY <1>4, <1>7, <1>8, <1>10, <1>16
    <2>2. q \in assigned /\ RegionOf[q] \notin fatal
      BY <1>3, <1>7, <1>9
    <2>3. InPlace(q)
      BY <1>9, <1>11, <2>2 DEF InPlace
    <2>4. committed[q] <= position[q] /\ commits[q] <= position[q]
      BY <2>2 DEF LevelInv
    <2> QED
      BY <1>9, <1>10, <1>14, <2>1, <2>3, <2>4
  <1>17. LevelInv(q)'
    <2>1. committed[q] <= published[q] /\ Applied(q, committed[q]) /\ (q \notin assigned => commits[q] = 0)
      BY DEF LevelInv
    <2>2. /\ q \in assigned => committed[q] <= position'[q] /\ commits[q] <= position'[q]
          /\ commits[q] > 0 => committed[q] <= commits[q] /\ Applied(q, commits[q])
          /\ done'[q] <= position'[q] /\ ~(done'[q] > 0)
      <3>1. /\ q \in assigned => committed[q] <= position[q] /\ commits[q] <= position[q]
            /\ commits[q] > 0 => committed[q] <= commits[q] /\ Applied(q, commits[q])
        BY ZenonT(60) DEF LevelInv
      <3>2. m \in Nat /\ done'[q] = 0
        BY <1>4, <1>9
      <3>3. /\ position[q] <= position'[q] /\ done'[q] <= position'[q] /\ ~(done'[q] > 0)
            /\ committed[q] <= position[q] => committed[q] <= position'[q]
            /\ commits[q] <= position[q] => commits[q] <= position'[q]
        BY <1>5, <1>10, <3>2
      <3> QED
        BY ZenonT(60), <3>1, <3>3
    <2>3. InPlace(q)' => Applied(q, position'[q])
      BY <1>14, <1>15
    <2> QED
      BY <1>9, <1>16, <2>1, <2>2, <2>3, ZenonT(60) DEF LevelInv, Applied
  <1> QED
    BY <1>13, <1>17

\* The messages that consume() returns, and the faults among them.
LEMMA ConsumeTypes ==
    ASSUME EventsTypeOK, Consume
    PROVE  EventsTypeOK'
  <1>1. PICK s \in Fetches(Head(todo)) :
            /\ batch' = [i \in DOMAIN s |->
                    IF s[i] \in Queues
                    THEN [queue |-> s[i], offset |-> position[s[i]] + CountOf(SubSeq(s, 1, i - 1), s[i]), error |-> "none"]
                    ELSE [error |-> s[i]]]
            /\ position' = [p \in Queues |-> position[p] + CountOf(s, p)]
            /\ faults' = faults + CountOf(s, "error") + CountOf(s, "fatal")
    BY ZenonT(60) DEF Consume
  <1> DEFINE T == (QueuesOf(Head(todo)) \cap assigned) \cup {"error", "fatal"}
  <1>2. PICK n \in Nat : s \in [1..n -> T]
    <2>1. \E n \in 0..MaxBatch : s \in [1..n -> T]
      BY <1>1, ZenonT(60) DEF Fetches
    <2>2. MaxBatch \in Nat
      BY ZenonT(60), AccountEventsAssumption
    <2> HIDE DEF T
    <2> QED
      BY <2>1, <2>2
  <1>3. ASSUME NEW r, DOMAIN r \subseteq 1..n PROVE \A p : CountOf(r, p) \in Nat
    <2>1. IsFiniteSet(1..n)
      BY FS_Interval
    <2>2. \A p : {i \in DOMAIN r : r[i] = p} \in SUBSET (1..n)
      BY <1>3
    <2> QED
      BY <2>1, <2>2, FS_Subset, FS_CardinalityType, ZenonT(60) DEF CountOf
  <1>4. DOMAIN s = 1..n /\ \A i \in 1..n : DOMAIN SubSeq(s, 1, i - 1) \subseteq 1..n
    <2>1. s \in Seq(T) /\ Len(s) = n /\ DOMAIN s = 1..n
      BY <1>2
    <2> HIDE DEF T
    <2> QED
      BY <2>1
  <1>5. /\ \A p : CountOf(s, p) \in Nat
        /\ \A i \in 1..n : \A p : CountOf(SubSeq(s, 1, i - 1), p) \in Nat
    BY ZenonT(60), <1>3, <1>4
  <1>6. position \in [Queues -> Nat]
    BY DEF EventsTypeOK
  <1>7. position' \in [Queues -> Nat]
    BY <1>1, <1>5, <1>6
  <1>8. ASSUME NEW i \in 1..n PROVE batch'[i] \in EventMessages
    <2>1. CASE s[i] \in Queues
      <3> DEFINE o == position[s[i]] + CountOf(SubSeq(s, 1, i - 1), s[i])
      <3>1. o \in Nat
        BY <1>5, <1>6, <2>1
      <3> HIDE DEF o
      <3>2. batch'[i] = [queue |-> s[i], offset |-> o, error |-> "none"]
        BY <1>1, <1>4, <2>1 DEF o
      <3> QED
        BY <2>1, <3>1, <3>2 DEF EventMessages
    <2>2. CASE s[i] \notin Queues
      <3>1. s[i] \in {"error", "fatal"}
        BY <1>2, <2>2 DEF QueuesOf
      <3>2. batch'[i] = [error |-> s[i]]
        BY <1>1, <1>4, <2>2
      <3> QED
        BY <3>1, <3>2 DEF EventMessages
    <2> QED
      BY <2>1, <2>2
  <1>9. batch' \in Seq(EventMessages)
    <2>1. DOMAIN batch' = 1..n /\ batch' = [i \in 1..n |-> batch'[i]]
      BY <1>1, <1>4
    <2>2. batch' \in [1..n -> EventMessages]
      BY <1>8, <2>1
    <2> QED
      BY <2>2
  <1>10. faults' \in 0..MaxEventFaults
    <2>1. CountOf(s, "error") + CountOf(s, "fatal") <= MaxEventFaults - faults
      BY ZenonT(60) DEF Fetches
    <2>2. faults \in Nat /\ MaxEventFaults \in Nat
      BY FaultTypes
    <2> QED
      BY <1>1, <1>5, <2>1, <2>2
  <1>11. /\ UNCHANGED <<published, committed, commits, blocked, consumers, fatal, assigned, todo, killed>>
         /\ done' = NoOffsets /\ drainPc' = "handle"
    BY DEF Consume, brokerVars
  <1> QED
    BY <1>7, <1>9, <1>10, <1>11 DEF EventsTypeOK, NoOffsets

\* The row an event makes is one of its queue, whose region is being drained.
LEMMA HandleTypes ==
    ASSUME EventsTypeOK, DrainInv, \A q \in Queues : OrderInv(q), HandleMessage \/ HandleFails
    PROVE  EventsTypeOK'
  <1> DEFINE p == batch[1].queue
             o == batch[1].offset
  <1>1. batch # <<>> /\ Head(batch) = batch[1] /\ batch[1].error = "none" /\ 1 \in DOMAIN batch
    <2>1. batch # <<>> /\ Head(batch).error = "none"
      BY DEF HandleMessage, HandleFails
    <2> QED
      BY ZenonT(60), <2>1, HeadTypes
  <1>2. p \in Queues /\ o \in Nat /\ 1 \in LeftOf(p)
    BY <1>1, MessageTypes DEF LeftOf
  <1>3. Tail(batch) \in Seq(EventMessages) /\ <<>> \in Seq(EventMessages)
    BY <1>1 DEF EventsTypeOK
  <1>4. CASE HandleMessage
    <2>1. /\ blocked' = Handled(p, o) /\ done' = [done EXCEPT ![p] = o + 1] /\ batch' = Tail(batch)
          /\ UNCHANGED <<published, committed, commits, consumers, fatal, assigned, position, drainPc, todo, killed, faults>>
      BY <1>1, <1>4 DEF HandleMessage, brokerVars, consumerVars
    <2>2. done' \in [Queues -> Nat]
      <3>1. done \in [Queues -> Nat] /\ o + 1 \in Nat
        BY <1>2 DEF EventsTypeOK
      <3> HIDE DEF p, o
      <3> QED
        BY ZenonT(60), <2>1, <3>1
    <2> DEFINE Rows == BlockedResources \X {ReasonOf[q] : q \in Queues} \X RegionSet
               event == ParseEvent(EventLog[p][o + 1])
    <2>3. RegionOf[p] = Head(todo) /\ event.resource \in BlockedResources
      BY ZenonT(60), <1>2, FirstEvent
    <2>4. RegionOf[p] \in RegionSet
      <3>1. todo # <<>>
        BY <1>4 DEF HandleMessage, DrainInv
      <3> QED
        BY ZenonT(60), <2>3, <3>1, HeadTypes
    <2>5. BlockedRow(p, event.resource) \in Rows
      <3>1. event.resource \in BlockedResources
        BY <2>3
      <3> HIDE DEF event, p
      <3> QED
        BY <1>2, <2>4, <3>1 DEF BlockedRow
    <2>6. blocked' \in {blocked, blocked \ {BlockedRow(p, event.resource)}, blocked \cup {BlockedRow(p, event.resource)}}
      BY <2>1 DEF Handled
    <2>7. blocked \subseteq Rows
      BY DEF EventsTypeOK
    <2> HIDE DEF Rows, event, p, o
    <2>8. blocked' \subseteq Rows
      BY <2>5, <2>6, <2>7
    <2> QED
      BY <1>3, <2>1, <2>2, <2>8, ZenonT(60) DEF EventsTypeOK, Rows
  <1>5. CASE HandleFails
    <2>1. /\ batch' = <<>> /\ EventFault
          /\ UNCHANGED <<published, committed, commits, blocked, consumers, fatal, assigned, drainPc, todo, done, killed>>
          /\ position' = [q \in Queues |-> IF q \in InBatch \cap assigned THEN FirstOffset(q) ELSE position[q]]
      BY <1>5 DEF HandleFails, Rewind, brokerVars
    <2>2. faults' \in 0..MaxEventFaults
      BY <2>1, FaultTypes
    <2>3. ASSUME NEW q \in InBatch PROVE FirstOffset(q) \in Nat
      BY <2>3, FirstLeft
    <2>4. position' \in [Queues -> Nat]
      BY <2>1, <2>3 DEF EventsTypeOK
    <2> QED
      BY <1>3, <2>1, <2>2, <2>4, ZenonT(60) DEF EventsTypeOK
  <1> QED
    BY <1>4, <1>5

\* Every step of the broker, of the drain and of the process keeps the invariant.
LEMMA EventsStep ==
    ASSUME EventsInv, EventsNext
    PROVE  EventsInv'
  <1>1. EventsTypeOK /\ DrainInv /\ \A q \in Queues : OrderInv(q) /\ LevelInv(q)
    BY DEF EventsInv
  <1>2. EventsTypeOK'
    BY <1>1, EventTypes, ConsumeTypes, HandleTypes
  <1>3. DrainInv'
    BY <1>1, DrainKept
  <1>4. ASSUME NEW q \in Queues PROVE OrderInv(q)' /\ LevelInv(q)'
    <2>1. OrderInv(q) /\ LevelInv(q)
      BY <1>1
    <2>2. CASE HandleMessage
      <3>1. Head(batch).queue \in Queues
        <4>1. batch # <<>> /\ Head(batch).error = "none"
          BY <2>2 DEF HandleMessage
        <4>2. Head(batch) = batch[1] /\ 1 \in DOMAIN batch
          BY ZenonT(60), <1>1, <4>1, HeadTypes
        <4> QED
          BY <1>1, <4>1, <4>2, MessageTypes
      <3>2. OrderInv(Head(batch).queue)
        BY <1>1, <3>1
      <3> QED
        BY <1>1, <2>1, <2>2, <3>1, <3>2, HandleKept
    <2>3. CASE ErrorMessage
      BY <1>1, <2>1, <2>3, ErrorKept
    <2>4. CASE HandleFails
      BY <1>1, <2>1, <2>4, FailKept
    <2>5. CASE CommitOffsets
      BY <1>1, <2>1, <2>5, CommitKept
    <2>6. CASE Consume
      BY <1>1, <2>1, <2>6, ConsumeKept
    <2>7. CASE RestartDrain \/ CrashDrain
      BY <1>1, <1>2, <2>1, <2>7, FreshKept DEF RestartDrain, CrashDrain
    <2>8. ASSUME NEW p \in Queues, CommitLands(p) PROVE OrderInv(q)' /\ LevelInv(q)'
      BY <1>1, <1>2, <2>1, <2>8, LandsOrder, LandsLevel
    <2>9. ASSUME NEW p \in Queues, Assign(p) PROVE OrderInv(q)' /\ LevelInv(q)'
      BY <1>1, <1>2, <2>1, <2>9, AssignLevel
    <2>10. ASSUME \/ StartDrain \/ EndDrain \/ GetConsumer \/ ConsumeRaises \/ KillDrain
                  \/ \E p \in Queues : Publish(p) \/ CommitFails(p) \/ Revoke(p)
           PROVE  OrderInv(q)' /\ LevelInv(q)'
      BY <1>1, <1>2, <2>1, <2>10, QuietKept
    <2> QED
      BY <2>2, <2>3, <2>4, <2>5, <2>6, <2>7, <2>8, <2>9, <2>10, ZenonT(60) DEF EventsNext, SchedulerNext
  <1> QED
    BY <1>2, <1>3, <1>4, ZenonT(60) DEF EventsInv

\* The mirror of the blocked accounts, for every number of queues, regions, events and failures: the
\* committed offset of ConsumeBlockedAccountEvents never passes an event the table has not taken, and
\* blocks() and blocked_jobs_filter() agree on every job.
THEOREM EventsKeepBlocks == EventsSpec => []BlocksAreKept
  <1>1. EventsInit => EventsInv
    <2> SUFFICES ASSUME EventsInit PROVE EventsInv
      OBVIOUS
    <2>1. NoOffsets \in [Queues -> Nat] /\ \A q \in Queues : NoOffsets[q] = 0
      BY DEF NoOffsets
    <2>2. EventsTypeOK
      <3>1. MaxEventFaults \in Nat
        BY ZenonT(60), AccountEventsAssumption
      <3>2. /\ published \in [Queues -> Nat] /\ committed \in [Queues -> Nat] /\ commits \in [Queues -> Nat]
            /\ position \in [Queues -> Nat] /\ done \in [Queues -> Nat]
        BY <2>1 DEF EventsInit
      <3>3. blocked = {} /\ consumers = {} /\ fatal = {} /\ assigned = {} /\ drainPc = "idle" /\ killed \in BOOLEAN
        BY ZenonT(60) DEF EventsInit
      <3>4. todo \in Seq(RegionSet) /\ batch \in Seq(EventMessages) /\ faults \in 0..MaxEventFaults
        BY <3>1 DEF EventsInit
      <3> QED
        BY <3>2, <3>3, <3>4, ZenonT(60) DEF EventsTypeOK
    <2>3. DrainInv
      BY DEF EventsInit, DrainInv
    <2>4. ASSUME NEW q \in Queues PROVE OrderInv(q) /\ LevelInv(q)
      <3>1. /\ LeftOf(q) = {} /\ published[q] = 0 /\ committed[q] = 0 /\ commits[q] = 0 /\ position[q] = 0 /\ done[q] = 0
            /\ blocked = {} /\ assigned = {}
        BY <2>1 DEF EventsInit, LeftOf
      <3>2. OrderInv(q)
        BY <3>1, LogTypes DEF OrderInv
      <3>3. AppliedTo({}, 0, q, 0)
        BY DEF AppliedTo, SaysBlocked
      <3>4. Applied(q, 0) /\ ~InPlace(q)
        BY ZenonT(60), <3>1, <3>3 DEF Applied, InPlace
      <3>5. LevelInv(q)
        <4>1. 0 <= 0 /\ ~(0 > 0)
          OBVIOUS
        <4> QED
          BY ZenonT(60), <3>1, <3>4, <4>1 DEF LevelInv
      <3> QED
        BY <3>2, <3>5
    <2> QED
      BY <2>2, <2>3, <2>4 DEF EventsInv
  <1>2. EventsInv /\ [EventsNext]_eventVars => EventsInv'
    <2> SUFFICES ASSUME EventsInv, UNCHANGED eventVars PROVE EventsInv'
      BY EventsStep
    <2>1. /\ UNCHANGED <<published, committed, commits, blocked, consumers, fatal, assigned, position>>
          /\ UNCHANGED <<drainPc, todo, batch, done, killed, faults>>
      BY DEF eventVars, brokerVars, consumerVars, drainVars
    <2>2. EventsTypeOK'
      BY <2>1 DEF EventsInv, EventsTypeOK
    <2>3. DrainInv'
      BY <2>1 DEF EventsInv, DrainInv
    <2>4. ASSUME NEW q \in Queues PROVE OrderInv(q)' /\ LevelInv(q)'
      <3>1. LeftOf(q)' = LeftOf(q) /\ (InPlace(q)' <=> InPlace(q))
        BY <2>1 DEF LeftOf, InPlace
      <3>2. EventsTypeOK /\ OrderInv(q) /\ LevelInv(q)
        BY ZenonT(60) DEF EventsInv
      <3>3. q \notin assigned => commits[q] = 0
        BY ZenonT(60), <3>2 DEF LevelInv
      <3>4. /\ UNCHANGED <<published, committed, blocked, batch, position, done>> /\ commits'[q] \in {commits[q], 0}
            /\ (q \in assigned' => q \in assigned) /\ (q \notin assigned' => commits'[q] = 0)
            /\ LeftOf(q) # {} => todo' = todo
        BY ZenonT(60), <2>1, <3>3
      <3> QED
        BY ZenonT(60), <2>2, <3>1, <3>2, <3>4, LogKept
    <2> QED
      BY <2>2, <2>3, <2>4, ZenonT(60) DEF EventsInv
  <1>3. EventsInv => BlocksAreKept
    <2> SUFFICES ASSUME EventsInv PROVE BlocksAreKept
      OBVIOUS
    <2>1. CommittedWasApplied
      BY DEF EventsInv, LevelInv, Applied, AppliedTo, ResourcesOf, CommittedWasApplied
    <2> QED
      BY <2>1, GatesRead DEF EventsInv, BlocksAreKept
  <1> QED
    BY <1>1, <1>2, <1>3, PTL DEF EventsSpec
=============================================================================
