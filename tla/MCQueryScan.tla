---------------------------- MODULE MCQueryScan ----------------------------
(* Two queries: the first reads two objects with two workers, the second one  *)
(* object with one.  Their row groups meet at a gate of two bytes, and        *)
(* the limits of the process let two of the three workers run.  Object "c" is *)
(* larger than the file budget, a row group of "a" larger than the gate.      *)
EXTENDS QueryScan

MCQueryOf == [w \in Workers |-> IF w = 3 THEN 2 ELSE 1]
MCTasks == [q \in Queries |-> IF q = 1 THEN <<"a", "b">> ELSE <<"c">>]
MCSize == [o \in Objects |-> IF o = "c" THEN 3 ELSE 1]
MCPlan == [o \in Objects |-> IF o = "b" THEN 1 ELSE 0]
MCRowCeilings == [q \in Queries |-> IF q = 1 THEN {0, 1, 2} ELSE {0}]
MCGroups ==
    [o \in Objects |-> CASE o = "a" -> <<3, 1>> [] o = "b" -> <<1>> [] o = "c" -> <<2>>]
=============================================================================
