----------------------------- MODULE AtLeastOnce -----------------------------
(***************************************************************************)
(* What the outbox promises for a message once the transaction that        *)
(* enqueued it has committed (specs/OUTBOX.md): its row leaves the table   *)
(* only after the destination took the message, and a message the          *)
(* destination will never take stays where someone can find it.  The       *)
(* destination may take a message more than once.                          *)
(***************************************************************************)

CONSTANT Rows

VARIABLES table,   \* the rows of the Outbox table
          parked,  \* those flagged unrecoverable
          landed,  \* the messages the destination took at least once
          ever     \* the rows that were ever inserted

promiseVars == <<table, parked, landed, ever>>

Init ==
    /\ table = {}
    /\ parked = {}
    /\ landed = {}
    /\ ever = {}

Insert(r) ==
    /\ r \notin ever
    /\ table' = table \cup {r}
    /\ ever' = ever \cup {r}
    /\ UNCHANGED <<parked, landed>>

\* The destination takes some messages whose rows are owed.
Take(S) ==
    /\ S \subseteq table \ parked
    /\ landed' = landed \cup S
    /\ UNCHANGED <<table, parked, ever>>

\* Rows the destination took, and only those, leave.
Leave(S) ==
    /\ S \subseteq (table \cap landed) \ parked
    /\ table' = table \ S
    /\ UNCHANGED <<parked, landed, ever>>

Park(S) ==
    /\ S \subseteq table
    /\ parked' = parked \cup S
    /\ UNCHANGED <<table, landed, ever>>

Next ==
    \/ \E r \in Rows : Insert(r)
    \/ \E S \in SUBSET Rows : Take(S) \/ Leave(S) \/ Park(S)

Spec == Init /\ [][Next]_promiseVars

=============================================================================
