---------------------------- MODULE MCWorkspaces ----------------------------
(* Instances of Workspaces: a worker and its reviewer in one run, a worker  *)
(* of another run, a planner.                                              *)
EXTENDS Workspaces, TLC

CONSTANTS w1, w2, v1, q1, r1, r2

\* A planner and the executions of a run share nothing but the sweep: each is
\* checked against it without the other.
Reserved(es) == \E e \in es : row[e] # "none"
PlannerApart == ~(Reserved(Planners) /\ Reserved(InRun))
\* Two things go wrong for one execution, one for two of them.
FaultsApart == faults < 2 \/ \E e \in Executions : ~Reserved(Executions \ {e})
TwoRuns == [e \in InRun |-> IF e = w2 THEN r2 ELSE r1]
=============================================================================
