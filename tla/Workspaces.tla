------------------------------ MODULE Workspaces ------------------------------
(* What the programs with an agent leave on the host: the clone they work   *)
(* in, the sandbox in the inner Docker engine, the agent's own container    *)
(* and its profile; and the sweep of the recovery, which removes what dead  *)
(* programs left behind while others are at work.                          *)
(*                                                                         *)
(* The sweep reads the tables one SELECT after the other, outside of any    *)
(* transaction, and goes through the host only then.  The status of a run   *)
(* is RunTransaction's; here it is open or over.  What protects a run from  *)
(* the recovery is its heartbeat, and only an agent at work refreshes it.   *)
EXTENDS Naturals, FiniteSets

CONSTANTS
  Workers, Reviewers, Planners, \* executions of hermesops-worker, -reviewer, -planner
  Runs, RunOf,   \* the runs, and the run of a worker or reviewer
  MaxFaults      \* bound on deaths and on Docker commands that fail

Executions == Workers \cup Reviewers \cup Planners
InRun == Workers \cup Reviewers

ASSUME WorkspaceAssumption ==
  /\ Workers \cap Reviewers = {} /\ InRun \cap Planners = {}
  /\ RunOf \in [InRun -> Runs]
  /\ MaxFaults \in Nat

VARIABLES
  run,      \* runs: "none", "active" or "closed"
  row,      \* the execution with its task: "none", "running" or "finished"
  recorded, \* executions with a sandbox_container_id
  program,  \* execution -> its program: where it is and what it knows of its own
  clone, sandbox, host, profile, \* the executions whose resource exists
  sweep,    \* the recovery's sweep, what it has read and whom it has met
  faults

tables    == <<run, row, recorded>>
resources == <<clone, sandbox, host, profile>>
vars == <<tables, resources, program, sweep, faults>>

(* A program holds the names of what it has made, once it knows them.       *)
At(pc) == [pc |-> pc, sandbox |-> FALSE, outer |-> FALSE]
Live(e) == program[e].pc \notin {"idle", "dead", "done"}
IdleSweep == [step |-> "idle", todo |-> {}, run |-> {}, rows |-> {},
              active |-> {}, tasks |-> {}, referenced |-> {}, recorded |-> {},
              known |-> {}, planners |-> {}, runs |-> {}, during |-> {}, overtaken |-> {}]

Init ==
  /\ run = [r \in Runs |-> "none"]
  /\ row = [e \in Executions |-> "none"] /\ recorded = {}
  /\ program = [e \in Executions |-> At("idle")]
  /\ clone = {} /\ sandbox = {} /\ host = {} /\ profile = {}
  /\ sweep = IdleSweep /\ faults = 0

Go(e, pc) == program' = [program EXCEPT ![e].pc = pc]
Fault == faults < MaxFaults /\ faults' = faults + 1
\* A docker rm, which may fail.
Removed(set, gone) == \/ set' = set \ gone /\ UNCHANGED faults
                      \/ gone \cap set # {} /\ set' = set /\ Fault

-----------------------------------------------------------------------------
(* A run opens and ends. *)

(* What begins while the sweep reads, it may see in part; what is launched  *)
(* on a run that it is recovering, it clears away with the rest.           *)
ReadingSteps == {"tasks", "references", "bindings", "runs"}
RemovingSteps == {"hosts", "sandboxes", "profiles", "clones"}
AfterActive == ReadingSteps \cup RemovingSteps
Reading == sweep.step \in ReadingSteps
Meets(es) ==
  sweep' = [sweep EXCEPT
              !.during = IF Reading THEN @ \cup es ELSE @,
              !.overtaken = @ \cup {e \in es \cap InRun : RunOf[e] \in sweep.run}]

Begin(r) ==
  /\ run[r] = "none"
  /\ run' = [run EXCEPT ![r] = "active"]
  /\ Meets({e \in InRun : RunOf[e] = r})
  /\ UNCHANGED <<row, recorded, resources, program, faults>>

(* The commit or the rollback, by those who waited for its programs. *)
Unattended(r) == \A e \in InRun : RunOf[e] = r => ~Live(e)
Close(r) ==
  /\ run[r] = "active" /\ Unattended(r)
  /\ run' = [run EXCEPT ![r] = "closed"]
  /\ UNCHANGED <<row, recorded, resources, program, sweep, faults>>

-----------------------------------------------------------------------------
(* launch of a worker or a reviewer, and generate of the planner.           *)

(* reserve_execution and reserve_review: one RUNNING task in a run, which   *)
(* the recovery may just have found stale.                                 *)
Reserve(e) ==
  /\ e \in InRun /\ program[e].pc = "idle"
  /\ run[RunOf[e]] = "active"
  /\ \A f \in InRun : RunOf[f] = RunOf[e] => row[f] # "running"
  /\ row' = [row EXCEPT ![e] = "running"]
  /\ Go(e, "clone") /\ Meets({e})
  /\ UNCHANGED <<run, recorded, resources, faults>>
ReservePlanner(e) ==
  /\ e \in Planners /\ program[e].pc = "idle"
  /\ row' = [row EXCEPT ![e] = "running"]
  /\ Go(e, "start") /\ Meets({e})
  /\ UNCHANGED <<run, recorded, resources, faults>>

(* prepare_worker_clone and prepare_review_clone, which want to make the    *)
(* directory of the run themselves.  When a check on the clone fails, it    *)
(* stays, and the program does not know its name.                          *)
SameTree(e, f) == RunOf[e] = RunOf[f] /\ (e \in Workers <=> f \in Workers)
MakeClone(e) ==
  /\ program[e].pc = "clone"
  /\ IF \E f \in clone : SameTree(e, f)
       THEN Go(e, "finish") /\ UNCHANGED clone
       ELSE /\ clone' = clone \cup {e}
            /\ Go(e, "sandbox") \/ Go(e, "finish")
  /\ UNCHANGED <<tables, sandbox, host, profile, sweep, faults>>

(* precreate_worker_sandbox and precreate_reviewer_sandbox: docker run, the *)
(* audit and the preflight.  Only success returns the container's id.       *)
MakeSandbox(e) ==
  /\ program[e].pc = "sandbox"
  /\ \/ /\ sandbox' = sandbox \cup {e}
        /\ \/ program' = [program EXCEPT ![e].pc = "profile", ![e].sandbox = TRUE]
           \/ Go(e, "clean")
     \/ Go(e, "clean") /\ UNCHANGED sandbox
  /\ UNCHANGED <<tables, clone, host, profile, sweep, faults>>

(* The agent runtime: _prepare_profile ... *)
MakeProfile(e) ==
  /\ program[e].pc = "profile"
  /\ \/ profile' = profile \cup {e} /\ Go(e, "start")
     \/ Go(e, "clean") /\ UNCHANGED profile
  /\ UNCHANGED <<tables, clone, sandbox, host, sweep, faults>>

(* ... the container, whose immutable id it has to observe in time, ...     *)
StartAgent(e) ==
  /\ program[e].pc = "start"
  /\ \/ /\ host' = host \cup {e}
        /\ program' = [program EXCEPT ![e].pc = "work", ![e].outer = TRUE]
        /\ UNCHANGED faults
     \/ host' = host \cup {e} /\ Go(e, "stop") /\ Fault
     \/ Go(e, "stop") /\ UNCHANGED <<host, faults>>
  /\ UNCHANGED <<tables, clone, sandbox, profile, sweep>>

(* ... the agent at work, until the marker, an error or the timeout, ...    *)
EndWork(e) ==
  /\ program[e].pc = "work"
  /\ Go(e, "stop")
  /\ UNCHANGED <<tables, resources, sweep, faults>>

(* ... and _cleanup. *)
StopAgent(e) ==
  /\ program[e].pc = "stop"
  /\ Removed(host, IF program[e].outer THEN {e} ELSE {})
  /\ profile' = profile \ {e}
  /\ program' = [program EXCEPT ![e].outer = FALSE,
                   ![e].pc = IF e \in Planners THEN "finish" ELSE "clean"]
  /\ UNCHANGED <<tables, clone, sandbox, sweep>>

(* The finally block removes a sandbox that it can tell for its own, by its *)
(* id.  A worker also looks for one among the containers that have come     *)
(* since it began: cleanup_created_sandboxes.                              *)
OwnSandbox(e) == {f \in {e} : program[e].sandbox}
NewSandbox(e) == {e} \cap Workers
CleanSandbox(e) ==
  /\ program[e].pc = "clean"
  /\ Removed(sandbox, OwnSandbox(e) \cup NewSandbox(e))
  /\ Go(e, "tree")
  /\ UNCHANGED <<tables, clone, host, profile, sweep>>
CleanClone(e) ==
  /\ program[e].pc = "tree"
  /\ clone' = clone \ {e}
  /\ Go(e, "finish")
  /\ UNCHANGED <<tables, sandbox, host, profile, sweep, faults>>

(* finish_execution and finish_review: only now is the sandbox's id stored. *)
Finish(e) ==
  /\ program[e].pc = "finish"
  /\ row' = [row EXCEPT ![e] = "finished"]
  /\ recorded' = IF program[e].sandbox THEN recorded \cup {e} ELSE recorded
  /\ program' = [program EXCEPT ![e] = At("done")]
  /\ UNCHANGED <<run, resources, sweep, faults>>

(* The program dies; the containers run on. *)
Die(e) ==
  /\ Live(e) /\ Fault
  /\ program' = [program EXCEPT ![e] = At("dead")]
  /\ UNCHANGED <<tables, resources, sweep>>

(* reconcile_interrupted_planner_executions, when the daemon starts again.  *)
ReconcilePlanners ==
  LET left == {e \in Planners : row[e] = "running"} IN
  /\ left # {} /\ \A e \in Planners : ~Live(e)
  /\ Removed(host, left)
  /\ row' = [e \in Executions |-> IF e \in left THEN "finished" ELSE row[e]]
  /\ UNCHANGED <<run, recorded, clone, sandbox, profile, program, sweep>>

-----------------------------------------------------------------------------
(* hermesops-recovery sweep: first the runs without a heartbeat of late.    *)

Step(s) == sweep' = [sweep EXCEPT !.step = s]
Ended == [IdleSweep EXCEPT !.overtaken = sweep.overtaken]

(* The agent runtime's HEARTBEAT events refresh the run; a program that is  *)
(* still being launched does not.                                          *)
Launching == {"clone", "sandbox", "profile", "start"}
Beating(e) == Live(e) /\ program[e].pc \notin Launching
Stale(r) == run[r] = "active" /\ \A e \in InRun : RunOf[e] = r => ~Beating(e)

StartSweep ==
  /\ sweep.step = "idle"
  /\ \E old \in SUBSET {r \in Runs : Stale(r)} :
       sweep' = [sweep EXCEPT !.step = "runs to recover", !.todo = old]
  /\ UNCHANGED <<tables, resources, program, faults>>

(* recover_run looks at the run again: a closed one needs nothing, a fresh  *)
(* one ends the sweep; of another cleanup_run_resources reads what is not   *)
(* finished ...                                                            *)
RecoverRun(r) ==
  /\ sweep.step = "runs to recover" /\ r \in sweep.todo
  /\ LET rest == [sweep EXCEPT !.todo = @ \ {r}]
         programs == {e \in InRun : RunOf[e] = r} IN
       sweep' = IF Stale(r)
                  THEN [rest EXCEPT !.step = "resources", !.run = {r},
                          !.rows = {e \in programs : row[e] = "running"},
                          !.overtaken = @ \cup {e \in programs : Live(e)}]
                  ELSE IF run[r] = "active" THEN Ended ELSE rest
  /\ UNCHANGED <<tables, resources, program, faults>>

(* ... removes what the rows name, and the clones of the run, ...           *)
TreesOf(rs) == {e \in clone : RunOf[e] \in rs}
RemoveOfRun ==
  /\ sweep.step = "resources"
  /\ Removed(host, sweep.rows)
  /\ sandbox' = sandbox \ (sweep.rows \cap recorded)
  /\ profile' = profile \ sweep.rows
  /\ clone' = clone \ TreesOf(sweep.run)
  /\ Step("settle")
  /\ UNCHANGED <<tables, program>>

(* ... and fails what is still running.  Then the run goes on or ends, or   *)
(* the decision cannot be applied, as when another run holds the lock of    *)
(* the project: recover_run raises, and the sweep ends with it, for as      *)
(* often as that is so.                                                    *)
FailRows ==
  row' = [e \in Executions |->
            IF e \in InRun /\ row[e] = "running" /\ RunOf[e] \in sweep.run
              THEN "finished" ELSE row[e]]
Settle ==
  /\ sweep.step = "settle" /\ FailRows
  /\ \/ run' = [r \in Runs |-> IF r \in sweep.run THEN "closed" ELSE run[r]]
     \/ UNCHANGED run
  /\ sweep' = [sweep EXCEPT !.step = "runs to recover", !.run = {}, !.rows = {}]
  /\ UNCHANGED <<recorded, resources, program, faults>>
Raise ==
  /\ sweep.step = "settle" /\ FailRows
  /\ sweep' = Ended
  /\ UNCHANGED <<run, recorded, resources, program, faults>>

-----------------------------------------------------------------------------
(* cleanup_orphans: it reads ... *)

ReadActive ==
  /\ sweep.step = "runs to recover" /\ sweep.todo = {}
  /\ sweep' = [sweep EXCEPT !.step = "tasks", !.active = {r \in Runs : run[r] = "active"}]
  /\ UNCHANGED <<tables, resources, program, faults>>

(* ... the RUNNING tasks of those runs, ... *)
ReadTasks ==
  /\ sweep.step = "tasks"
  /\ sweep' = [sweep EXCEPT !.step = "references",
                 !.tasks = {e \in InRun : row[e] = "running" /\ RunOf[e] \in sweep.active}]
  /\ UNCHANGED <<tables, resources, program, faults>>

(* ... what the executions of active runs refer to, finished or not, ...    *)
ReadReferences ==
  /\ sweep.step = "references"
  /\ LET referenced == {e \in InRun : row[e] # "none" /\ run[RunOf[e]] = "active"} IN
       sweep' = [sweep EXCEPT !.step = "bindings", !.referenced = referenced,
                              !.recorded = referenced \cap recorded]
  /\ UNCHANGED <<tables, resources, program, faults>>

(* ... all there are, ... *)
\* Variant: those without an end.
ReadOpenBindings ==
  /\ sweep.step = "bindings"
  /\ sweep' = [sweep EXCEPT !.step = "runs",
                            !.known = {e \in Executions : row[e] = "running"}]
  /\ UNCHANGED <<tables, resources, program, faults>>
ReadBindings ==
  /\ sweep.step = "bindings"
  /\ sweep' = [sweep EXCEPT !.step = "runs",
                            !.known = {e \in Executions : row[e] # "none"}]
  /\ UNCHANGED <<tables, resources, program, faults>>

(* ... and the planners without an end, and all runs.                       *)
ReadRuns ==
  /\ sweep.step = "runs"
  /\ sweep' = [sweep EXCEPT !.step = "hosts",
                            !.planners = {e \in Planners : row[e] = "running"},
                            !.runs = {r \in Runs : run[r] # "none"}]
  /\ UNCHANGED <<tables, resources, program, faults>>

(* Then it removes what nothing refers to, and of the containers only those *)
(* that carry the labels of an execution it has read.                      *)
Owned(es) == es \cap sweep.known
RemoveHosts ==
  /\ sweep.step = "hosts"
  /\ Removed(host, Owned(host) \ (sweep.referenced \cup sweep.planners))
  /\ sweep' = [sweep EXCEPT !.step = "sandboxes", !.planners = {}]
  /\ UNCHANGED <<tables, clone, sandbox, profile, program>>

\* Variant: as it was before the tasks were looked at.
RemoveUnreferenced ==
  /\ sweep.step = "sandboxes"
  /\ Removed(sandbox, Owned(sandbox) \ sweep.recorded)
  /\ Step("profiles")
  /\ UNCHANGED <<tables, clone, host, profile, program>>
RemoveSandboxes ==
  /\ sweep.step = "sandboxes"
  /\ Removed(sandbox, Owned(sandbox) \ (sweep.recorded \cup sweep.tasks))
  /\ sweep' = [sweep EXCEPT !.step = "profiles", !.recorded = {}, !.tasks = {}]
  /\ UNCHANGED <<tables, clone, host, profile, program>>

RemoveProfiles ==
  /\ sweep.step = "profiles"
  /\ profile' = profile \ (sweep.known \ sweep.referenced)
  /\ Step("clones")
  /\ UNCHANGED <<tables, clone, sandbox, host, program, faults>>

RemoveClones ==
  /\ sweep.step = "clones"
  /\ clone' = clone \ TreesOf(sweep.runs \ sweep.active)
  /\ sweep' = Ended
  /\ UNCHANGED <<tables, sandbox, host, profile, program, faults>>

(* The supervisor's timeout, an exception, or a crash ends it at any point. *)
SweepDies ==
  /\ sweep.step # "idle" /\ Fault
  /\ sweep' = Ended
  /\ UNCHANGED <<tables, resources, program>>

-----------------------------------------------------------------------------
Launch(e) ==
  \/ MakeClone(e) \/ MakeSandbox(e) \/ MakeProfile(e) \/ StartAgent(e) \/ EndWork(e)
  \/ StopAgent(e) \/ CleanSandbox(e) \/ CleanClone(e) \/ Finish(e)

Sweep ==
  \/ StartSweep \/ RemoveOfRun \/ Settle \/ Raise \/ \E r \in Runs : RecoverRun(r)
  \/ ReadActive \/ ReadTasks \/ ReadReferences \/ ReadBindings \/ ReadRuns
  \/ RemoveHosts \/ RemoveSandboxes \/ RemoveProfiles \/ RemoveClones

Next ==
  \/ \E r \in Runs : Begin(r) \/ Close(r)
  \/ \E e \in Executions : Reserve(e) \/ ReservePlanner(e) \/ Launch(e) \/ Die(e)
  \/ ReconcilePlanners
  \/ Sweep \/ SweepDies

Spec == Init /\ [][Next]_vars

(* The supervisor sweeps for ever, and live programs come to an end.        *)
FairSpec == Spec /\ WF_vars(Sweep) /\ \A e \in Executions : WF_vars(Launch(e))

-----------------------------------------------------------------------------
(* Properties. *)

Programs == [pc : {"idle", "clone", "sandbox", "profile", "start", "work", "stop", "clean",
                   "tree", "finish", "done", "dead"}, sandbox : BOOLEAN, outer : BOOLEAN]
Sweeps ==
  [step : {"idle", "runs to recover", "resources", "settle"} \cup AfterActive,
   todo : SUBSET Runs, run : SUBSET Runs, active : SUBSET Runs, runs : SUBSET Runs,
   rows : SUBSET Executions, tasks : SUBSET Executions, referenced : SUBSET Executions,
   recorded : SUBSET Executions, known : SUBSET Executions, planners : SUBSET Executions,
   during : SUBSET Executions, overtaken : SUBSET InRun]
TypeOK ==
  /\ run \in [Runs -> {"none", "active", "closed"}]
  /\ row \in [Executions -> {"none", "running", "finished"}]
  /\ recorded \subseteq Executions
  /\ program \in [Executions -> Programs]
  /\ clone \cup sandbox \cup host \cup profile \subseteq Executions
  /\ sweep \in Sweeps
  /\ faults \in Nat

(* Nothing that a live program has made disappears under it: only the      *)
(* program itself removes it, wherever the sweep is.  Left out is what      *)
(* began while the sweep was reading (see RunningIsPreserved), and what was *)
(* launched or being launched when the recovery took its run over: that     *)
(* loses its clone, although docs/RECOVERY.md:10-11 keeps such a run "for a *)
(* fresh worker/reviewer attempt".                                         *)
SparedUnlessOvertaken ==
  [][\A e \in Executions :
       Live(e) /\ program'[e] = program[e] /\ e \notin sweep.during \cup sweep.overtaken
         => /\ (e \in clone => e \in clone') /\ (e \in sandbox => e \in sandbox')
            /\ (e \in host => e \in host') /\ (e \in profile => e \in profile')]_vars

(* Whatever dead programs, failed commands and killed sweeps have left, it  *)
(* is gone some time after the run, or the planner, is over, as long as    *)
(* again and again a sweep gets past the runs it recovers: no run may make  *)
(* recover_run raise for ever.                                             *)
Over(e) == row[e] = "finished" /\ (e \in InRun => run[RunOf[e]] = "closed")
OrphansAreRemoved ==
  []<>(sweep.step = "tasks") =>
    \A e \in Executions :
      Over(e) ~> Over(e) /\ e \notin clone \cup sandbox \cup host \cup profile

-----------------------------------------------------------------------------
(* What the documents say and the programs do not do. *)

(* docs/ORCHESTRATION.md:84-87, every sandbox of a RUNNING task under an    *)
(* active run is preserved.                                                *)
RunningIsPreserved ==
  [][\A e \in InRun :
       row[e] = "running" /\ run[RunOf[e]] = "active" /\ Live(e) /\ program'[e] = program[e]
         => (e \in sandbox => e \in sandbox')]_vars

(* docs/RECOVERY.md:10-11, a run that is resumed is kept "ready for a fresh *)
(* worker/reviewer attempt": such an attempt keeps its clone.              *)
FreshAttemptKeepsItsClone ==
  [][\A e \in InRun :
       row[e] = "running" /\ run[RunOf[e]] = "active" /\ Live(e) /\ program'[e] = program[e]
         => (e \in clone => e \in clone')]_vars
=============================================================================
