------------------------- MODULE MCReviewAssignment -------------------------
(* An instance of ReviewAssignment: three tries and one repeated command.   *)
EXTENDS ReviewAssignment, TLC

CONSTANTS p1, p2, p3, p4
=============================================================================
