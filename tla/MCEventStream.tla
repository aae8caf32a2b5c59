---------------------------- MODULE MCEventStream ----------------------------
(* Instances of EventStream: a console that subscribes to one of two       *)
(* aggregates.                                                             *)
EXTENDS EventStream, TLC

CONSTANTS objective, review, c1, k1, k2, w1, w2

OneTopic == [c \in Clients |-> {objective}]
=============================================================================
