-------------------------- MODULE MCRunTransaction --------------------------
(* Instances of RunTransaction: two or three runs, in one project or two,   *)
(* of one plan or of plans of their own.                                   *)
EXTENDS RunTransaction, TLC

CONSTANTS r1, r2, p1, p2, pl1, pl2, x

OneProject  == [r \in Runs |-> p1]
OneEach     == [r \in Runs |-> IF r = r1 THEN p1 ELSE p2]
OnePlan     == [r \in Runs |-> pl1]

(* Runs of one project and plan are interchangeable. *)
RunSymmetry == Permutations(Runs)

(* Two runs with a project each are interchangeable together with them. *)
TwinSymmetry ==
  {f @@ [p \in {p1, p2} |-> IF f[r1] = r1 THEN p ELSE IF p = p1 THEN p2 ELSE p1] :
     f \in RunSymmetry}
=============================================================================
