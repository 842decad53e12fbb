------------------------- MODULE JobLifecycleProofs -------------------------
(***************************************************************************)
(* The contract of JobTransitionService, proved for every set of jobs.     *)
(***************************************************************************)
EXTENDS JobLifecycle, TLAPS

\* What the table of valid transitions says, as four facts.
LEMMA ValidMove ==
    ASSUME NEW t \in Statuses, NEW s \in VALID_TRANSITIONS[t]
    PROVE  /\ s \in Statuses
           /\ t \notin TERMINAL_STATUSES
           /\ s # "QUEUED"
           /\ Rank(t) < Rank(s)
  <1> USE DEF Statuses, TERMINAL_STATUSES
  <1>1. CASE t = "QUEUED"
    <2>1. VALID_TRANSITIONS[t] = {"PENDING", "FAILED", "STOPPED", "STOPPING"}
      BY <1>1 DEF VALID_TRANSITIONS
    <2> QED
      BY <1>1, <2>1 DEF Rank
  <1>2. CASE t = "PENDING"
    <2>1. VALID_TRANSITIONS[t] = TERMINAL_STATUSES \cup {"STOPPING", "RUNNING"}
      BY <1>2 DEF VALID_TRANSITIONS
    <2> QED
      BY <1>2, <2>1 DEF Rank
  <1>3. CASE t = "RUNNING"
    <2>1. VALID_TRANSITIONS[t] = TERMINAL_STATUSES \cup {"STOPPING"}
      BY <1>3 DEF VALID_TRANSITIONS
    <2> QED
      BY <1>3, <2>1 DEF Rank
  <1>4. CASE t = "STOPPING"
    <2>1. VALID_TRANSITIONS[t] = TERMINAL_STATUSES
      BY <1>4 DEF VALID_TRANSITIONS
    <2> QED
      BY <1>4, <2>1 DEF Rank
  <1>5. CASE t \in TERMINAL_STATUSES
    BY <1>5 DEF VALID_TRANSITIONS
  <1> QED
    BY <1>1, <1>2, <1>3, <1>4, <1>5

\* A move touches one row, and only one that has not ended.
LEMMA MoveEffect ==
    ASSUME LifecycleTypeOK, NEW j \in Jobs, NEW s \in Statuses, Move(j, s)
    PROVE  /\ ~Ended(j)
           /\ status' \in [Jobs -> Statuses] /\ events' \in [Jobs -> Seq(Statuses)]
           /\ status'[j] = s /\ events'[j] = Append(events[j], s)
           /\ \A k \in Jobs \ {j} : status'[k] = status[k] /\ events'[k] = events[k]
  BY ValidMove DEF LifecycleTypeOK, Move, Ended

\* What the end of a job does to its messages and to its mirror row.
LEMMA EndEffect ==
    ASSUME LifecycleTypeOK, NEW j \in Jobs, NEW s \in Statuses, End(j, s)
    PROVE  /\ outbox' \in [Jobs -> [Channels -> Nat]] /\ mirror' \in [Jobs -> BOOLEAN]
           /\ mirror'[j] = FALSE
           /\ \A k \in Jobs \ {j} : outbox'[k] = outbox[k] /\ mirror'[k] = mirror[k]
           /\ \A c \in Channels : outbox'[j][c] \in {outbox[j][c], outbox[j][c] + 1}
           /\ outbox'[j]["WORKLOAD"] = IF mirror[j] THEN outbox[j]["WORKLOAD"] + 1 ELSE outbox[j]["WORKLOAD"]
           /\ outbox'[j]["LICENSE_FEE"] # outbox[j]["LICENSE_FEE"] => s = "SUCCEEDED" \/ WasRunning(j)
  <1>1. PICK owed \in SUBSET Channels :
           /\ MayOwe(j, s, owed)
           /\ outbox' = [outbox EXCEPT ![j] = [c \in Channels |-> IF c \in owed THEN @[c] + 1 ELSE @[c]]]
    BY DEF End
  <1>2. mirror' \in [Jobs -> BOOLEAN] /\ mirror'[j] = FALSE /\ \A k \in Jobs \ {j} : mirror'[k] = mirror[k]
    BY DEF End, LifecycleTypeOK
  <1>3. /\ outbox' \in [Jobs -> [Channels -> Nat]]
        /\ \A k \in Jobs \ {j} : outbox'[k] = outbox[k]
        /\ \A c \in Channels : outbox'[j][c] = IF c \in owed THEN outbox[j][c] + 1 ELSE outbox[j][c]
    BY <1>1 DEF LifecycleTypeOK
  <1> QED
    BY <1>1, <1>2, <1>3 DEF MayOwe, Channels, LifecycleTypeOK

\* The inductive invariant: the history needs the types, and the exactness of
\* the outbox needs that a job can only end once.
LifecycleInv == LifecycleTypeOK /\ HistoryAdvances /\ OutboxExact

\* The type of the state is kept.
LEMMA LifecycleTypeStep ==
    ASSUME LifecycleTypeOK, [Next]_lifecycleVars
    PROVE  LifecycleTypeOK'
  <1>1. ASSUME NEW j \in Jobs, NEW s \in Statuses, Advance(j, s)
        PROVE  LifecycleTypeOK'
    BY <1>1, MoveEffect DEF Advance, LifecycleTypeOK
  <1>2. ASSUME NEW j \in Jobs, NEW s \in Statuses, End(j, s)
        PROVE  LifecycleTypeOK'
    BY <1>2, MoveEffect, EndEffect DEF End, LifecycleTypeOK
  <1>3. CASE UNCHANGED lifecycleVars
    BY <1>3 DEF lifecycleVars, LifecycleTypeOK
  <1> QED
    BY <1>1, <1>2, <1>3 DEF Next

\* A move extends the history of its job with a later status.
LEMMA MoveKeepsHistory ==
    ASSUME LifecycleTypeOK, HistoryAdvances, NEW j \in Jobs, NEW s \in Statuses, Move(j, s)
    PROVE  HistoryAdvances'
  <1>1. Rank(status[j]) < Rank(s) /\ \A t \in Statuses : Rank(t) \in Nat
    BY ValidMove DEF Move, LifecycleTypeOK, Rank
  <1> SUFFICES ASSUME NEW k \in Jobs
               PROVE  /\ Len(events'[k]) > 0
                      /\ events'[k][Len(events'[k])] = status'[k]
                      /\ \A i, n \in 1..Len(events'[k]) : i < n => Rank(events'[k][i]) < Rank(events'[k][n])
    BY DEF HistoryAdvances
  <1>2. CASE k # j
    BY <1>2, MoveEffect DEF HistoryAdvances
  <1>3. CASE k = j
    <2> DEFINE old == events[j]
    <2>1. events'[j] = Append(old, s) /\ status'[j] = s /\ old \in Seq(Statuses)
      BY MoveEffect DEF LifecycleTypeOK
    <2>2. /\ Len(old) \in Nat /\ Len(old) > 0 /\ old[Len(old)] = status[j]
          /\ \A i, n \in 1..Len(old) : i < n => Rank(old[i]) < Rank(old[n])
      BY <2>1 DEF HistoryAdvances
    <2>3. /\ Len(Append(old, s)) = Len(old) + 1 /\ Append(old, s)[Len(old) + 1] = s
          /\ \A i \in 1..Len(old) : Append(old, s)[i] = old[i] /\ Rank(old[i]) \in Nat
      BY <1>1, <2>1
    <2>4. \A i \in 1..Len(old) : Rank(old[i]) < Rank(s)
      <3> SUFFICES ASSUME NEW i \in 1..Len(old) PROVE Rank(old[i]) < Rank(s)
        OBVIOUS
      <3>1. Rank(status[j]) \in Nat /\ Rank(s) \in Nat /\ Rank(old[i]) \in Nat
        BY <1>1, <2>3 DEF LifecycleTypeOK
      <3>2. CASE i = Len(old)
        BY <1>1, <2>2, <3>2
      <3>3. CASE i < Len(old)
        BY <1>1, <2>2, <3>1, <3>3
      <3> QED
        BY <2>2, <3>2, <3>3
    <2>5. ASSUME NEW i \in 1..(Len(old) + 1), NEW n \in 1..(Len(old) + 1), i < n
          PROVE  Rank(Append(old, s)[i]) < Rank(Append(old, s)[n])
      <3>1. CASE n = Len(old) + 1
        BY <2>2, <2>3, <2>4, <2>5, <3>1
      <3>2. CASE n \in 1..Len(old)
        BY <2>2, <2>3, <2>5, <3>2
      <3> QED
        BY <2>2, <2>5, <3>1, <3>2
    <2> QED
      BY <1>3, <2>1, <2>2, <2>3, <2>5
  <1> QED
    BY <1>2, <1>3

\* A longer history still shows that the job was running.
LEMMA WasRunningStays ==
    ASSUME LifecycleTypeOK, NEW j \in Jobs, NEW s \in Statuses, events'[j] = Append(events[j], s), WasRunning(j)
    PROVE  WasRunning(j)'
  <1>1. PICK i \in DOMAIN events[j] : events[j][i] = "RUNNING"
    BY DEF WasRunning
  <1>2. events[j] \in Seq(Statuses)
    BY DEF LifecycleTypeOK
  <1>3. i \in DOMAIN Append(events[j], s) /\ Append(events[j], s)[i] = "RUNNING"
    BY <1>1, <1>2
  <1> QED
    BY <1>3 DEF WasRunning

\* The messages stay exact: an active job has enqueued nothing yet.
LEMMA OutboxStep ==
    ASSUME LifecycleTypeOK, OutboxExact, [Next]_lifecycleVars
    PROVE  OutboxExact'
  <1> USE DEF OutboxExact
  <1>1. ASSUME NEW j \in Jobs, NEW s \in Statuses, Advance(j, s)
        PROVE  OutboxExact'
    <2>1. Move(j, s) /\ s \notin TERMINAL_STATUSES /\ outbox' = outbox /\ mirror' = mirror
      BY <1>1 DEF Advance
    <2>2. ~Ended(j) /\ ~Ended(j)' /\ \A k \in Jobs \ {j} : Ended(k)' <=> Ended(k)
      BY <2>1, MoveEffect DEF Ended
    <2>3. \A k \in Jobs \ {j} : WasRunning(k)' <=> WasRunning(k)
      BY <2>1, MoveEffect DEF WasRunning
    <2> QED
      BY <2>1, <2>2, <2>3, MoveEffect DEF Channels
  <1>2. ASSUME NEW j \in Jobs, NEW s \in Statuses, End(j, s)
        PROVE  OutboxExact'
    <2>1. Move(j, s) /\ s \in TERMINAL_STATUSES
      BY <1>2 DEF End
    <2>2. ~Ended(j) /\ Ended(j)' /\ \A k \in Jobs \ {j} : Ended(k)' <=> Ended(k)
      BY <2>1, MoveEffect DEF Ended
    <2>3. \A k \in Jobs \ {j} : WasRunning(k)' <=> WasRunning(k)
      BY <2>1, MoveEffect DEF WasRunning
    <2>4. WasRunning(j) => WasRunning(j)'
      BY <2>1, MoveEffect, WasRunningStays
    <2>5. \A c \in Channels : outbox[j][c] = 0
      BY <2>2
    <2>6. \A k \in Jobs \ {j} : outbox'[k] = outbox[k] /\ mirror'[k] = mirror[k] /\ status'[k] = status[k]
      BY ZenonT(60), <1>2, <2>1, EndEffect, MoveEffect
    <2>7. /\ mirror[j] <=> j \in Mirrored
          /\ mirror'[j] = FALSE
          /\ \A c \in Channels : outbox'[j][c] \in {0, 1}
          /\ outbox'[j]["WORKLOAD"] = IF mirror[j] THEN 1 ELSE 0
          /\ outbox'[j]["LICENSE_FEE"] = 1 => s = "SUCCEEDED" \/ WasRunning(j)
      <3>1. mirror[j] <=> j \in Mirrored
        BY <2>2
      <3>2. {"WORKLOAD", "LICENSE_FEE"} \subseteq Channels
        BY DEF Channels
      <3>3. /\ mirror'[j] = FALSE
            /\ \A c \in Channels : outbox'[j][c] \in {outbox[j][c], outbox[j][c] + 1}
            /\ outbox'[j]["WORKLOAD"] = IF mirror[j] THEN outbox[j]["WORKLOAD"] + 1 ELSE outbox[j]["WORKLOAD"]
            /\ outbox'[j]["LICENSE_FEE"] # outbox[j]["LICENSE_FEE"] => s = "SUCCEEDED" \/ WasRunning(j)
        BY ZenonT(60), <1>2, EndEffect
      <3> QED
        BY <2>5, <3>1, <3>2, <3>3
    <2>8. ASSUME NEW k \in Jobs \ {j}
          PROVE  /\ \A c \in Channels : outbox'[k][c] = 0 \/ (outbox'[k][c] = 1 /\ Ended(k)')
                 /\ outbox'[k]["WORKLOAD"] = 1 <=> k \in Mirrored /\ Ended(k)'
                 /\ mirror'[k] <=> k \in Mirrored /\ ~Ended(k)'
                 /\ outbox'[k]["LICENSE_FEE"] = 1 => status'[k] = "SUCCEEDED" \/ WasRunning(k)'
      BY <2>2, <2>3, <2>6, <2>8
    <2>9. /\ \A c \in Channels : outbox'[j][c] = 0 \/ (outbox'[j][c] = 1 /\ Ended(j)')
          /\ outbox'[j]["WORKLOAD"] = 1 <=> j \in Mirrored /\ Ended(j)'
          /\ mirror'[j] <=> j \in Mirrored /\ ~Ended(j)'
          /\ outbox'[j]["LICENSE_FEE"] = 1 => status'[j] = "SUCCEEDED" \/ WasRunning(j)'
      BY <2>1, <2>2, <2>4, <2>7, MoveEffect
    <2> QED
      BY <2>8, <2>9
  <1>3. CASE UNCHANGED lifecycleVars
    BY <1>3 DEF lifecycleVars, Ended, WasRunning
  <1> QED
    BY <1>1, <1>2, <1>3 DEF Next

\* The three invariants are inductive together.
LEMMA LifecycleStep == LifecycleInv /\ [Next]_lifecycleVars => LifecycleInv'
  <1> SUFFICES ASSUME LifecycleInv, [Next]_lifecycleVars PROVE LifecycleInv'
    OBVIOUS
  <1> USE DEF LifecycleInv
  <1>1. HistoryAdvances'
    <2>1. CASE UNCHANGED lifecycleVars
      BY <2>1 DEF lifecycleVars, HistoryAdvances
    <2>2. CASE Next
      BY <2>2, MoveKeepsHistory DEF Next, Advance, End
    <2> QED
      BY <2>1, <2>2
  <1> QED
    BY <1>1, LifecycleTypeStep, OutboxStep

\* A new job is QUEUED, has its first event and owes nothing.
LEMMA LifecycleInit == Init => LifecycleInv
  <1> SUFFICES ASSUME Init PROVE LifecycleInv
    OBVIOUS
  <1>1. LifecycleTypeOK
    BY DEF Init, LifecycleTypeOK, Statuses
  <1>2. HistoryAdvances
    BY DEF Init, HistoryAdvances
  <1>3. OutboxExact
    <2>1. ASSUME NEW j \in Jobs PROVE ~Ended(j) /\ (mirror[j] <=> j \in Mirrored)
      BY ZenonT(60), <2>1 DEF Init, Ended, TERMINAL_STATUSES
    <2>2. ASSUME NEW j \in Jobs, NEW c \in Channels PROVE outbox[j][c] = 0
      BY <2>2 DEF Init
    <2>3. {"WORKLOAD", "LICENSE_FEE"} \subseteq Channels
      BY DEF Channels
    <2> QED
      BY <2>1, <2>2, <2>3 DEF OutboxExact
  <1> QED
    BY <1>1, <1>2, <1>3 DEF LifecycleInv

\* Every reachable state has the three invariants.
THEOREM LifecycleCorrect == Spec => []LifecycleInv
  BY LifecycleInit, LifecycleStep, PTL DEF Spec

\* The history of a job only advances, so a job reaches RUNNING only once.
THEOREM LifecycleHistory == Spec => []HistoryAdvances
  <1>1. LifecycleInv => HistoryAdvances
    BY DEF LifecycleInv
  <1> QED
    BY <1>1, LifecycleCorrect, PTL

\* The messages of a job are enqueued once, and the mirror row leaves with them.
THEOREM LifecycleOutbox == Spec => []OutboxExact
  <1>1. LifecycleInv => OutboxExact
    BY DEF LifecycleInv
  <1> QED
    BY <1>1, LifecycleCorrect, PTL

\* A final status is never overwritten.
THEOREM LifecycleFinal == Spec => TerminalIsFinal
  <1> DEFINE Final == \A j \in Jobs : Ended(j) => /\ status'[j] = status[j]
                                                  /\ events'[j] = events[j]
                                                  /\ outbox'[j] = outbox[j]
  <1>1. LifecycleInv /\ [Next]_lifecycleVars => [Final]_lifecycleVars
    <2> SUFFICES ASSUME LifecycleInv, Next PROVE Final
      OBVIOUS
    <2> LifecycleTypeOK
      BY DEF LifecycleInv
    <2>1. ASSUME NEW j \in Jobs, NEW s \in Statuses, Advance(j, s) PROVE Final
      BY <2>1, MoveEffect DEF Advance
    <2>2. ASSUME NEW j \in Jobs, NEW s \in Statuses, End(j, s) PROVE Final
      BY <2>2, MoveEffect, EndEffect DEF End
    <2> QED
      BY <2>1, <2>2 DEF Next
  <1> QED
    BY <1>1, LifecycleCorrect, PTL DEF Spec, TerminalIsFinal

=============================================================================
