---------------------------- MODULE MCCompaction ----------------------------
(* Two hours, one closed and one open, and three tenants.  The first hour's *)
(* merge of tenant 1 always fails, one of tenant 2's objects there is       *)
(* fenced, and both tenants have a second merge that the planner ranks      *)
(* lower; earlier merges have left files of levels 1 and 2.                 *)
EXTENDS Compaction

F(row, p, g, level, schema) ==
    [rows |-> {row}, by |-> "flush", part |-> p, grp |-> g, level |-> level, fp |-> schema]
MCStored == {F(1, 1, 1, 0, 1), F(2, 1, 1, 0, 1), F(3, 2, 1, 1, 1), F(4, 2, 1, 1, 1),
             F(5, 1, 2, 0, 1), F(6, 1, 2, 0, 1), F(7, 2, 2, 0, 2),
             F(9, 1, 3, 2, 1), F(10, 1, 3, 2, 1)}
MCAgeAtStart == <<1, 0>>
MCLate == {F(8, 2, 2, 0, 2)}
MCFailing == {<<1, 1>>}
=============================================================================
