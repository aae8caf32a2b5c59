----------------------------- MODULE RunLifecycle -----------------------------
(***************************************************************************)
(* The life of a run as the orchestrator sees it in runs.status, with the  *)
(* statuses between begin and integration seen as one.  RunTransaction     *)
(* implements it in detail; Orchestration is built on it.                  *)
(***************************************************************************)
CONSTANT Runs
VARIABLE phase   \* where each run is

Phases == {"none", "open", "waiting", "committing", "recovering", "failed",
           "cancelled", "completed"}

(* The statuses in which a run holds its project. *)
Holding == {"open", "waiting", "committing", "recovering"}

(* What the programs that drive a run do to it: begin, fail to begin, ask a *)
(* human, integrate, leave an ambiguous integration, roll back.            *)
DriverMoves ==
  {<<"none", "open">>, <<"open", "failed">>, <<"open", "waiting">>,
   <<"open", "committing">>, <<"committing", "completed">>}
  \cup {<<a, "recovering">> : a \in Holding} \cup {<<"recovering", "cancelled">>}

(* What the recovery does to a run whose program is dead: roll back with or *)
(* without a snapshot, ask a human, finish an integration.                 *)
RecoveryMoves ==
  {<<"open", "cancelled">>, <<"open", "recovering">>,
   <<"committing", "completed">>, <<"committing", "recovering">>,
   <<"recovering", "cancelled">>}
  \cup {<<a, "waiting">> : a \in {"open", "committing", "recovering", "failed"}}

Moves == DriverMoves \cup RecoveryMoves

Init == phase = [r \in Runs |-> "none"]
Next == \E r \in Runs :
          /\ <<phase[r], phase'[r]>> \in Moves
          /\ phase' = [phase EXCEPT ![r] = phase'[r]]
Spec == Init /\ [][Next]_phase
=============================================================================
