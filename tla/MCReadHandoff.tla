--------------------------- MODULE MCReadHandoff ---------------------------
(* Small instances of ReadHandoff for TLC. *)
EXTENDS ReadHandoff

CONSTANT q1

=============================================================================
