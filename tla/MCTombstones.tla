---------------------------- MODULE MCTombstones ----------------------------
(* Instances of Tombstones for TLC. *)
EXTENDS Tombstones, TLC

CONSTANTS p1, p2, c1, c2, n, t, x, v, A, B

\* The clock of p2 is ahead.
MCSkew == p1 :> 0 @@ p2 :> 1
MCTaskTime == [id \in Ids |-> IF id \in {t, x} THEN 0 ELSE IF id = v THEN 1 ELSE NoTime]
MCTenantOf == [id \in Ids |-> IF id = v THEN B ELSE A]
MCExpiresAt == [id \in Ids |-> IF id = x THEN 1 ELSE 10]
=============================================================================
