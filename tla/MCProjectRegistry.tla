------------------------- MODULE MCProjectRegistry -------------------------
(* Instances of ProjectRegistry: a project is created as "old" and renamed. *)
EXTENDS ProjectRegistry, TLC

CONSTANTS create, rename, touch, enable, disable, archive, rescan, old, new, t1, t2, s1, s2

Command == [r \in Requests |->
  CASE r = create -> "create"  [] r \in {rename, touch} -> "update"
    [] r = enable -> "enable"  [] r = disable -> "disable"
    [] r = archive -> "archive" [] OTHER -> "rescan"]
Display == [r \in Requests |-> IF r = rename THEN new ELSE old]
(* The threads of the server are interchangeable. *)
AnyThread == Permutations(Threads)
=============================================================================
