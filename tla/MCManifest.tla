----------------------------- MODULE MCManifest -----------------------------
(* Small instances of Manifest. *)
EXTENDS Manifest, TLC

CONSTANTS A, B, j1, j2

MCWriterOf == [f \in Raw |-> IF f % 2 = 1 \/ B \notin Nodes THEN A ELSE B]
MCRunsOn   == [j \in Jobs |-> A]

\* The state without the history that only RowsKnown reads.
NoHistory == <<bucketVars, up, tracked, retired, pending,
               [n \in Nodes |-> [listing[n] EXCEPT !.must = {}]],
               snap, workVars, crashes, excused>>

Symmetry == Permutations(Jobs)

=============================================================================
