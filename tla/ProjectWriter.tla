---------------------------- MODULE ProjectWriter ----------------------------
(***************************************************************************)
(* What the transaction engine promises to the owner of a repository:      *)
(* each project has at most one writing run; the default branch advances   *)
(* only by the writer's result, and only while the branch is still what    *)
(* the writer started from; a run that was closed stays closed.            *)
(*                                                                         *)
(* A commit of the default branch is named by the set of results it        *)
(* contains, so "history[p] = seen[r]" says that the branch head is the    *)
(* very commit that run r was begun from.                                  *)
(***************************************************************************)
CONSTANTS Projects, Runs, ProjectOf, External, NoRun

VARIABLES writer,   \* the run that owns each project, or NoRun
          history,  \* what each default branch contains
          seen,     \* what the default branch contained when the run began
          phase     \* "new", "open", "failed", "integrated" or "abandoned"

wvars == <<writer, history, seen, phase>>

Init == /\ writer = [p \in Projects |-> NoRun]
        /\ history = [p \in Projects |-> {}]
        /\ seen = [r \in Runs |-> {}]
        /\ phase = [r \in Runs |-> "new"]

(* A run takes a free project and remembers the head it started from. *)
Open(r) == /\ phase[r] = "new"
           /\ writer[ProjectOf[r]] = NoRun
           /\ phase' = [phase EXCEPT ![r] = "open"]
           /\ writer' = [writer EXCEPT ![ProjectOf[r]] = r]
           /\ seen' = [seen EXCEPT ![r] = history[ProjectOf[r]]]
           /\ UNCHANGED history

(* The writer's result becomes the head, if nothing else did meanwhile. *)
Publish(r) == /\ phase[r] = "open"
              /\ writer[ProjectOf[r]] = r
              /\ history[ProjectOf[r]] = seen[r]
              /\ history' = [history EXCEPT ![ProjectOf[r]] = @ \cup {r}]
              /\ UNCHANGED <<writer, seen, phase>>

Release(r, outcome) == /\ phase[r] = "open"
                       /\ writer[ProjectOf[r]] = r
                       /\ phase' = [phase EXCEPT ![r] = outcome]
                       /\ writer' = [writer EXCEPT ![ProjectOf[r]] = NoRun]
                       /\ UNCHANGED <<history, seen>>

Integrate(r) == r \in history[ProjectOf[r]] /\ Release(r, "integrated")
Abandon(r)   == Release(r, "abandoned")
Fail(r)      == Release(r, "failed")

(* A run whose start failed may be taken up again to hold a human gate. *)
Retake(r) == /\ phase[r] = "failed"
             /\ writer[ProjectOf[r]] = NoRun
             /\ phase' = [phase EXCEPT ![r] = "open"]
             /\ writer' = [writer EXCEPT ![ProjectOf[r]] = r]
             /\ UNCHANGED <<history, seen>>

(* Somebody outside HermesOps commits on the default branch. *)
Drift(p) == \E x \in External \ history[p] :
               /\ history' = [history EXCEPT ![p] = @ \cup {x}]
               /\ UNCHANGED <<writer, seen, phase>>

Next == \/ \E r \in Runs : \/ Open(r) \/ Publish(r) \/ Integrate(r)
                           \/ Abandon(r) \/ Fail(r) \/ Retake(r)
        \/ \E p \in Projects : Drift(p)

Spec == Init /\ [][Next]_wvars
=============================================================================
