--------------------------- MODULE MCInsertBuffer ---------------------------
(* A small instance of InsertBuffer for TLC. *)
EXTENDS InsertBuffer

CONSTANT a

MCTenantOf == [r \in Rows |-> a]

=============================================================================
