----------------------------- MODULE DurableLog -----------------------------
(***************************************************************************)
(* What the insert path promises about each row, with segments, objects,   *)
(* state files and marks left out.  A row is accepted by a pod, becomes    *)
(* durable on its disk, is written to the bucket, and only then leaves the *)
(* disk.  A crash takes the rows that are not durable yet, and no other.   *)
(***************************************************************************)
CONSTANTS Rows, Dropped

VARIABLES
    accepted,  \* rows acknowledged so far
    buffered,  \* rows the pod's buffer holds
    durable,   \* rows of them on its disk
    cold       \* rows in the bucket

logVars == <<accepted, buffered, durable, cold>>

Init == accepted = {} /\ buffered = {} /\ durable = {} /\ cold = {}

Accept(r) ==
    /\ r \notin accepted
    /\ accepted' = accepted \cup {r}
    /\ buffered' = buffered \cup {r}
    /\ UNCHANGED <<durable, cold>>

Persist(R) ==
    /\ durable' = durable \cup R
    /\ UNCHANGED <<accepted, buffered, cold>>

\* Only durable rows are written to the bucket, and the bucket never loses one.
Write(R) ==
    /\ R \subseteq durable \ Dropped
    /\ cold' = cold \cup R
    /\ UNCHANGED <<accepted, buffered, durable>>

\* The pod lets go of rows the bucket has.
Release(R) ==
    /\ R \ Dropped \subseteq cold
    /\ buffered' = buffered \ R
    /\ durable' = durable \ R
    /\ UNCHANGED <<accepted, cold>>

Crash ==
    /\ buffered' = durable
    /\ UNCHANGED <<accepted, durable, cold>>

Next ==
    \/ \E r \in Rows : Accept(r)
    \/ \E R \in SUBSET buffered : Persist(R) \/ Release(R)
    \/ \E R \in SUBSET durable : Write(R)
    \/ Crash

Spec == Init /\ [][Next]_logVars

=============================================================================
