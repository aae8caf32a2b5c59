--------------------------- MODULE MCOrchestration ---------------------------
(* Instances of Orchestration: plans of one to three tasks, pipelines a and *)
(* b in a project each, and c, which only computes.                        *)
EXTENDS Orchestration, TLC

CONSTANTS o1, o2, a, b, c, p1, p2

AllFirst   == [t \in Tasks |-> o1]
OneEach    == [t \in Tasks |-> IF t = a THEN o1 ELSE o2]
OwnProject == [t \in Pipelines |-> IF t = a THEN p1 ELSE p2]
SameProject == [t \in Pipelines |-> p1]
NoParents  == [t \in Tasks |-> {}]
Diamond    == [t \in Tasks |-> IF t = c THEN {a, b} \cap Tasks ELSE {}]
NoOrder    == {}
Forwards   == {<<a, b>>, <<b, c>>, <<a, c>>} \cap (Tasks \X Tasks)
=============================================================================
