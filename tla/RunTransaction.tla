---------------------------- MODULE RunTransaction ----------------------------
(***************************************************************************)
(* One run of HermesOps from the reservation of its project to the commit  *)
(* of its result on the default branch: the command-line programs          *)
(* hermesops-transaction, -worker, -reviewer and -integrator, each a       *)
(* process that alternates BEGIN IMMEDIATE transactions on the shared      *)
(* SQLite file with Git commands, and hermesops-recovery, which picks up   *)
(* what a dead process left behind.                                        *)
(*                                                                         *)
(* A step is one SQLite transaction or one Git command.  A commit is the   *)
(* set of results it contains: run r begun at base[r] produces the commit  *)
(* base[r] \cup {r}, and a fast-forward of the branch to it is possible    *)
(* exactly when the branch is still at base[r].                            *)
(***************************************************************************)
EXTENDS Naturals, FiniteSets

CONSTANTS
  Projects,      \* registered projects, all enabled
  Runs,          \* run identifiers, each used once
  ProjectOf,     \* the project of a run
  Plans,         \* orchestration plans
  PlanOf,        \* the plan whose attempt a run serves
  Cancellable,   \* plans whose objective an operator may cancel
  External,      \* commits made on default branches outside HermesOps
  NoRun,         \* "no row", for a lock or for the recovery's run
  FaultyBegins,  \* runs whose snapshot or worktree creation may fail
  Overlap,       \* TRUE: recovery may meet a live process of the same run
  MaxCrashes     \* bound on process deaths

ASSUME ConstantsAssumption ==
  /\ ProjectOf \in [Runs -> Projects]
  /\ PlanOf \in [Runs -> Plans]
  /\ Cancellable \subseteq Plans
  /\ NoRun \notin Runs
  /\ External \cap Runs = {}
  /\ FaultyBegins \subseteq Runs
  /\ Overlap \in BOOLEAN
  /\ MaxCrashes \in Nat

VARIABLES
  \* SQLite: one row of "runs" per run, and the rows that point to it
  status,        \* runs.status
  decision,      \* runs.recovery_decision
  result,        \* runs.result_commit is set
  base,          \* runs.base_commit
  older,         \* the runs with an earlier runs.created_at
  lock,          \* project_locks: the run that holds each project
  snapshot,      \* snapshots: the row of the run exists
  task,          \* tasks: a RUNNING row of the run exists
  review,        \* review_results and reviewer_executions
  integration,   \* integration_executions: status of the latest row
  approval,      \* approvals: status of the latest row
  cancelled,     \* plans whose objective is CANCEL_REQUESTED
  \* Git
  main,          \* the commit of each default branch
  worktree,      \* HEAD of the run's worktree and branch
  \* processes
  pc,            \* the program driving each run
  rec,           \* the recovery process
  swept,         \* runs the current sweep is done with
  crashes        \* deaths so far

runVars  == <<status, decision>>
gitVars  == <<main, worktree>>
beginVars == <<base, older, snapshot>>
gateVars == <<approval, cancelled>>
procVars == <<pc, rec, swept, crashes>>
recVars  == <<rec, swept>>
vars == <<status, decision, result, base, older, lock, snapshot, task, review,
          integration, approval, cancelled, main, worktree, pc, rec, swept,
          crashes>>

Statuses == {"NONE", "SNAPSHOTTING", "RUNNING", "REVIEWING", "COMMITTING",
             "WAITING_HUMAN", "RECOVERING", "FAILED", "CANCELLED", "COMPLETED"}
Active   == {"SNAPSHOTTING", "RUNNING", "REVIEWING", "WAITING_HUMAN",
             "COMMITTING", "RECOVERING", "FAILED"}
Terminal == {"COMPLETED", "CANCELLED"}
RollbackStatuses == Active \ {"COMMITTING"}
Decisions == {"NONE", "RESUME_SAFE", "ROLLBACK_SAFE", "BLOCK_HUMAN"}
Verdicts  == {"APPROVE", "REJECT", "BLOCK_HUMAN"}
Commits   == Runs \cup External

DriverSteps == {"idle", "begin.git", "begin.record", "begin.undo", "work",
                "work.finish", "submit", "review", "apply", "merge", "tidy",
                "finalize", "retry", "refinalize", "ambiguous",
                "rollback.clean", "rollback.finish", "cleanup"}
RecoverySteps == {"idle", "cleanup", "resume", "merge", "tidy", "finalize",
                  "bare.clean", "bare.finish", "demote", "rollback",
                  "rollback.clean", "rollback.finish", "block"}

TypeOK ==
  /\ status \in [Runs -> Statuses]
  /\ decision \in [Runs -> Decisions]
  /\ result \in [Runs -> BOOLEAN]
  /\ base \in [Runs -> SUBSET Commits]
  /\ older \in [Runs -> SUBSET Runs]
  /\ lock \in [Projects -> Runs \cup {NoRun}]
  /\ snapshot \in [Runs -> BOOLEAN]
  /\ task \in [Runs -> BOOLEAN]
  /\ review \in [Runs -> {"none"} \cup Verdicts]
  /\ integration \in [Runs -> {"none", "PREPARED", "COMPLETED", "FAILED",
                               "REJECTED", "BLOCKED"}]
  /\ approval \in [Runs -> {"none", "PENDING", "CANCELLED"}]
  /\ cancelled \subseteq Plans
  /\ main \in [Projects -> SUBSET Commits]
  /\ worktree \in [Runs -> {"absent", "base", "result"}]
  /\ pc \in [Runs -> DriverSteps]
  /\ rec \in [run : Runs \cup {NoRun}, step : RecoverySteps,
              decision : Decisions, seen : Statuses, bare : BOOLEAN,
              sweep : BOOLEAN]
  /\ swept \subseteq Runs
  /\ crashes \in 0 .. MaxCrashes

NoRecovery == [run |-> NoRun, step |-> "idle", decision |-> "NONE",
               seen |-> "NONE", bare |-> FALSE, sweep |-> FALSE]

Init ==
  /\ status = [r \in Runs |-> "NONE"]
  /\ decision = [r \in Runs |-> "NONE"]
  /\ result = [r \in Runs |-> FALSE]
  /\ base = [r \in Runs |-> {}]
  /\ older = [r \in Runs |-> {}]
  /\ lock = [p \in Projects |-> NoRun]
  /\ snapshot = [r \in Runs |-> FALSE]
  /\ task = [r \in Runs |-> FALSE]
  /\ review = [r \in Runs |-> "none"]
  /\ integration = [r \in Runs |-> "none"]
  /\ approval = [r \in Runs |-> "none"]
  /\ cancelled = {}
  /\ main = [p \in Projects |-> {}]
  /\ worktree = [r \in Runs |-> "absent"]
  /\ pc = [r \in Runs |-> "idle"]
  /\ rec = NoRecovery
  /\ swept = {}
  /\ crashes = 0

-----------------------------------------------------------------------------
(* What the programs read. *)

Lock(r)    == lock[ProjectOf[r]]
Holds(r)   == Lock(r) = r
AtBase(r)  == main[ProjectOf[r]] = base[r]
AtResult(r) == result[r] /\ main[ProjectOf[r]] = base[r] \cup {r}

(* The run's plan has a pending approval of some run, its own included. *)
PlanGated(r) == \E q \in Runs : PlanOf[q] = PlanOf[r] /\ approval[q] = "PENDING"
PlanCancelled(r) == PlanOf[r] \in cancelled

(* A program can be started on the run.  Unless Overlap, nobody starts one  *)
(* while the recovery works on the run, and the other way round: the       *)
(* recovery takes only runs whose heartbeat is stale.                      *)
DriverFree(r)   == pc[r] = "idle" /\ (Overlap \/ rec.run # r)
RecoveryFree(r) == rec.step = "idle" /\ (Overlap \/ pc[r] = "idle")

Goto(r, step)    == pc' = [pc EXCEPT ![r] = step]
RecGoto(step)    == rec' = [rec EXCEPT !.step = step]
SetStatus(r, s)  == status' = [status EXCEPT ![r] = s]
SetDecision(r, d) == decision' = [decision EXCEPT ![r] = d]
(* DELETE FROM project_locks WHERE run_id = r *)
Unlock(r) == lock' = [lock EXCEPT ![ProjectOf[r]] = IF @ = r THEN NoRun ELSE @]
RemoveWorktree(r) == worktree' = [worktree EXCEPT ![r] = "absent"]
FastForward(r) == main' = [main EXCEPT ![ProjectOf[r]] = @ \cup {r}]
\* Variant: the approvals of a rolled back run are forgotten.
ForgetApproval(r) == UNCHANGED approval
CancelApproval(r) == approval' = [approval EXCEPT ![r] =
                                    IF @ = "PENDING" THEN "CANCELLED" ELSE @]
\* Variant: the integration row of a run taken out of COMMITTING is forgotten.
ForgetPrepared(r) == UNCHANGED integration
(* UPDATE integration_executions ... WHERE run_id = r AND status = PREPARED *)
FailPrepared(r) == integration' = [integration EXCEPT ![r] =
                                     IF @ = "PREPARED" THEN "FAILED" ELSE @]

-----------------------------------------------------------------------------
(* hermesops-transaction begin: two SQLite transactions around the Git work. *)

\* Variant: INSERT OR REPLACE INTO project_locks.
ProjectTaken(r) == TRUE
ProjectFree(r) == Lock(r) = NoRun

BeginReserve(r) ==
  /\ status[r] = "NONE" /\ pc[r] = "idle"
  /\ ProjectFree(r)
  /\ SetStatus(r, "SNAPSHOTTING")
  /\ lock' = [lock EXCEPT ![ProjectOf[r]] = r]
  /\ base' = [base EXCEPT ![r] = main[ProjectOf[r]]]
  /\ older' = [older EXCEPT ![r] = {q \in Runs : status[q] # "NONE"}]
  /\ Goto(r, "begin.git")
  /\ UNCHANGED <<decision, result, snapshot, task, review, integration,
                 gateVars, gitVars, recVars, crashes>>

BeginWorktree(r) ==
  /\ pc[r] = "begin.git"
  /\ worktree' = [worktree EXCEPT ![r] = "base"]
  /\ Goto(r, "begin.record")
  /\ UNCHANGED <<runVars, result, beginVars, lock, task, review, integration,
                 gateVars, main, recVars, crashes>>

(* The second transaction does not look at the status it replaces. *)
BeginRecord(r) ==
  /\ pc[r] = "begin.record"
  /\ snapshot' = [snapshot EXCEPT ![r] = TRUE]
  /\ SetStatus(r, "RUNNING")
  /\ Goto(r, "idle")
  /\ UNCHANGED <<decision, result, base, older, lock, task, review,
                 integration, gateVars, gitVars, recVars, crashes>>

(* Any exception of the two steps above: cleanup, then a third transaction. *)
BeginFails(r) ==
  /\ r \in FaultyBegins
  /\ pc[r] \in {"begin.git", "begin.record"}
  /\ RemoveWorktree(r)
  /\ Goto(r, "begin.undo")
  /\ UNCHANGED <<runVars, result, beginVars, lock, task, review, integration,
                 gateVars, main, recVars, crashes>>

BeginUndo(r) ==
  /\ pc[r] = "begin.undo"
  /\ Unlock(r)
  /\ SetStatus(r, "FAILED")
  /\ Goto(r, "idle")
  /\ UNCHANGED <<decision, result, beginVars, task, review, integration,
                 gateVars, gitVars, recVars, crashes>>

-----------------------------------------------------------------------------
(* hermesops-worker launch, hermesops-transaction submit, -reviewer launch. *)

(* load_run of the worker and of the reviewer *)
Loadable(r, s) == status[r] = s /\ Holds(r) /\ ~task[r]

WorkReserve(r) ==
  /\ DriverFree(r) /\ Loadable(r, "RUNNING")
  /\ worktree[r] = "base"
  /\ task' = [task EXCEPT ![r] = TRUE]
  /\ Goto(r, "work")
  /\ UNCHANGED <<runVars, result, beginVars, lock, review, integration,
                 gateVars, gitVars, recVars, crashes>>

(* update-ref moves the branch from base to the agent's commit, with CAS. *)
WorkImport(r) ==
  /\ pc[r] = "work" /\ worktree[r] = "base"
  /\ worktree' = [worktree EXCEPT ![r] = "result"]
  /\ Goto(r, "work.finish")
  /\ UNCHANGED <<runVars, result, beginVars, lock, task, review, integration,
                 gateVars, main, recVars, crashes>>

(* From "work" when the agent failed, from "work.finish" when it succeeded. *)
WorkFinish(r) ==
  /\ pc[r] \in {"work", "work.finish"}
  /\ task' = [task EXCEPT ![r] = FALSE]
  /\ Goto(r, "idle")
  /\ UNCHANGED <<runVars, result, beginVars, lock, review, integration,
                 gateVars, gitVars, recVars, crashes>>

(* The checks of submit are made outside its transaction. *)
SubmitCheck(r) ==
  /\ DriverFree(r)
  /\ status[r] = "RUNNING" /\ worktree[r] = "result"
  /\ Goto(r, "submit")
  /\ UNCHANGED <<runVars, result, beginVars, lock, task, review, integration,
                 gateVars, gitVars, recVars, crashes>>

(* UPDATE ... WHERE status = RUNNING; zero rows are reported as a success. *)
SubmitRecord(r) ==
  /\ pc[r] = "submit"
  /\ IF status[r] = "RUNNING"
       THEN SetStatus(r, "REVIEWING") /\ result' = [result EXCEPT ![r] = TRUE]
       ELSE UNCHANGED <<status, result>>
  /\ Goto(r, "idle")
  /\ UNCHANGED <<decision, beginVars, lock, task, review, integration,
                 gateVars, gitVars, recVars, crashes>>

ReviewReserve(r) ==
  /\ DriverFree(r) /\ Loadable(r, "REVIEWING")
  /\ review[r] = "none" /\ worktree[r] = "result"
  /\ task' = [task EXCEPT ![r] = TRUE]
  /\ Goto(r, "review")
  /\ UNCHANGED <<runVars, result, beginVars, lock, review, integration,
                 gateVars, gitVars, recVars, crashes>>

(* A failed review leaves none behind; so does finish_review once the       *)
(* recovery has abandoned the task and its assignment.                     *)
ReviewFinish(r) ==
  /\ pc[r] = "review"
  /\ \/ UNCHANGED review
     \/ task[r] /\ \E v \in Verdicts : review' = [review EXCEPT ![r] = v]
  /\ task' = [task EXCEPT ![r] = FALSE]
  /\ Goto(r, "idle")
  /\ UNCHANGED <<runVars, result, beginVars, lock, integration, gateVars,
                 gitVars, recVars, crashes>>

-----------------------------------------------------------------------------
(* hermesops-integrator apply. *)

(* command_apply: review, Git state and snapshot, outside any transaction. *)
ApplyCheck(r) ==
  /\ DriverFree(r)
  /\ status[r] = "REVIEWING" /\ Holds(r)
  /\ review[r] # "none"
  /\ AtBase(r) /\ worktree[r] = "result"
  /\ snapshot[r]
  /\ Goto(r, "apply")
  /\ UNCHANGED <<runVars, result, beginVars, lock, task, review, integration,
                 gateVars, gitVars, recVars, crashes>>

(* What both recording transactions read again before they write. *)
StillOpen(r)  == status[r] = "REVIEWING" /\ Holds(r)
Authorized(r) == StillOpen(r) /\ ~PlanCancelled(r) /\ ~PlanGated(r)

ApplyRefused(r) ==
  /\ pc[r] = "apply" /\ ~Authorized(r)
  /\ Goto(r, "idle")
  /\ UNCHANGED <<runVars, result, beginVars, lock, task, review, integration,
                 gateVars, gitVars, recVars, crashes>>

ApplyReject(r) ==
  /\ pc[r] = "apply" /\ Authorized(r)
  /\ review[r] = "REJECT"
  /\ integration' = [integration EXCEPT ![r] = "REJECTED"]
  /\ Goto(r, "idle")
  /\ UNCHANGED <<runVars, result, beginVars, lock, task, review, gateVars,
                 gitVars, recVars, crashes>>

ApplyBlock(r) ==
  /\ pc[r] = "apply" /\ Authorized(r)
  /\ review[r] = "BLOCK_HUMAN"
  /\ approval' = [approval EXCEPT ![r] = "PENDING"]
  /\ SetStatus(r, "WAITING_HUMAN") /\ SetDecision(r, "BLOCK_HUMAN")
  /\ integration' = [integration EXCEPT ![r] = "BLOCKED"]
  /\ Goto(r, "idle")
  /\ UNCHANGED <<result, beginVars, lock, task, review, cancelled, gitVars,
                 recVars, crashes>>

(* integrate_approved, its first transaction *)
\* Variant: only a human verdict stops the integration.
MayIntegrateRejected(r) == review[r] # "BLOCK_HUMAN"
MayIntegrate(r) == review[r] = "APPROVE"

ApplyPrepare(r) ==
  /\ pc[r] = "apply" /\ Authorized(r)
  /\ MayIntegrate(r)
  /\ integration[r] \notin {"PREPARED", "COMPLETED"}
  /\ integration' = [integration EXCEPT ![r] = "PREPARED"]
  /\ SetStatus(r, "COMMITTING")
  /\ Goto(r, "merge")
  /\ UNCHANGED <<decision, result, beginVars, lock, task, review, gateVars,
                 gitVars, recVars, crashes>>

(* git merge --ff-only *)
\* Variant: git merge without --ff-only.
CanMergeAnything(r) == TRUE
CanFastForward(r) == AtBase(r)

ApplyMerge(r) ==
  /\ pc[r] = "merge" /\ CanFastForward(r)
  /\ FastForward(r)
  /\ Goto(r, "tidy")
  /\ UNCHANGED <<runVars, result, beginVars, lock, task, review, integration,
                 gateVars, worktree, recVars, crashes>>

ApplyTidy(r) ==
  /\ pc[r] \in {"tidy", "retry"}
  /\ RemoveWorktree(r)
  /\ Goto(r, IF pc[r] = "tidy" THEN "finalize" ELSE "refinalize")
  /\ UNCHANGED <<runVars, result, beginVars, lock, task, review, integration,
                 gateVars, main, recVars, crashes>>

(* finalize_completed; a PREPARED row is found, or the step is an error *)
ApplyFinalize(r) ==
  /\ pc[r] \in {"finalize", "refinalize"}
  /\ status[r] = "COMMITTING" /\ integration[r] = "PREPARED"
  /\ integration' = [integration EXCEPT ![r] = "COMPLETED"]
  /\ Unlock(r)
  /\ SetStatus(r, "COMPLETED") /\ SetDecision(r, "NONE")
  /\ Goto(r, "idle")
  /\ UNCHANGED <<result, beginVars, task, review, gateVars, gitVars, recVars,
                 crashes>>

(* An exception after the preparation.  If the branch did reach the result, *)
(* cleanup and finalization are tried once more; otherwise, and when that  *)
(* fails too, the outcome is recorded as ambiguous.                        *)
ApplyError(r) ==
  /\ pc[r] \in {"merge", "tidy", "finalize", "retry", "refinalize"}
  /\ Goto(r, IF pc[r] \in {"merge", "tidy", "finalize"} /\ AtResult(r)
               THEN "retry" ELSE "ambiguous")
  /\ UNCHANGED <<runVars, result, beginVars, lock, task, review, integration,
                 gateVars, gitVars, recVars, crashes>>

(* mark_ambiguous_failure: the integration row is updated by its id alone. *)
MarkAmbiguous(r) ==
  /\ pc[r] = "ambiguous"
  /\ integration' = [integration EXCEPT ![r] = "FAILED"]
  /\ IF status[r] = "COMMITTING"
       THEN SetStatus(r, "RECOVERING") /\ SetDecision(r, "BLOCK_HUMAN")
       ELSE UNCHANGED runVars
  /\ Goto(r, "idle")
  /\ UNCHANGED <<result, beginVars, lock, task, review, gateVars, gitVars,
                 recVars, crashes>>

-----------------------------------------------------------------------------
(* hermesops-transaction rollback, started by the orchestrator's error path, *)
(* by an operator, or (below) by the recovery.                              *)

\* Variant: the snapshot is not verified first.
CanRollBackUnverified(r) == status[r] \in RollbackStatuses
CanRollBack(r) == status[r] \in RollbackStatuses /\ snapshot[r]

\* Variant: the decision is left to the last transaction.
StartUndecided(r) == /\ CanRollBack(r)
                     /\ SetStatus(r, "RECOVERING")
                     /\ UNCHANGED decision

StartRollback(r) == /\ CanRollBack(r)
                    /\ SetStatus(r, "RECOVERING")
                    /\ SetDecision(r, "ROLLBACK_SAFE")

FinishRollback(r) == /\ CancelApproval(r)
                     /\ Unlock(r)
                     /\ SetStatus(r, "CANCELLED")
                     /\ SetDecision(r, "ROLLBACK_SAFE")

RollbackStart(r) ==
  /\ DriverFree(r)
  /\ StartRollback(r)
  /\ Goto(r, "rollback.clean")
  /\ UNCHANGED <<result, beginVars, lock, task, review, integration, gateVars,
                 gitVars, recVars, crashes>>

RollbackClean(r) ==
  /\ pc[r] = "rollback.clean"
  /\ RemoveWorktree(r)
  /\ Goto(r, "rollback.finish")
  /\ UNCHANGED <<runVars, result, beginVars, lock, task, review, integration,
                 gateVars, main, recVars, crashes>>

RollbackFinish(r) ==
  /\ pc[r] = "rollback.finish"
  /\ FinishRollback(r)
  /\ Goto(r, "idle")
  /\ UNCHANGED <<result, beginVars, task, review, integration, cancelled,
                 gitVars, recVars, crashes>>

(* rollback_run_best_effort, in the orchestrator, which knows the runs whose *)
(* begin succeeded: the rollback is refused, or fails on its way.          *)
RollbackRefused(r) ==
  /\ DriverFree(r)
  /\ snapshot[r] /\ status[r] \in Active
  /\ Goto(r, "cleanup")
  /\ UNCHANGED <<runVars, result, beginVars, lock, task, review, integration,
                 gateVars, gitVars, recVars, crashes>>

RollbackFails(r) ==
  /\ pc[r] \in {"rollback.clean", "rollback.finish"}
  /\ Goto(r, "cleanup")
  /\ UNCHANGED <<runVars, result, beginVars, lock, task, review, integration,
                 gateVars, gitVars, recVars, crashes>>

(* mark_cancellation_cleanup_recovery: unless the run is over, it is left   *)
(* to the recovery, whatever its status was.                               *)
MarkCleanup(r) ==
  /\ pc[r] = "cleanup"
  /\ IF status[r] = "COMPLETED" \/ (status[r] = "CANCELLED" /\ ~Holds(r))
       THEN UNCHANGED <<runVars, integration, approval>>
       ELSE /\ FailPrepared(r) /\ CancelApproval(r)
            /\ SetStatus(r, "RECOVERING") /\ SetDecision(r, "ROLLBACK_SAFE")
  /\ Goto(r, "idle")
  /\ UNCHANGED <<result, beginVars, lock, task, review, cancelled, gitVars,
                 recVars, crashes>>

-----------------------------------------------------------------------------
(* hermesops-recovery: assess_run, then recover_run applies the decision.   *)

(* The snapshot, when its row exists, passes its hashes; a repository that  *)
(* is absent, dirty or on another branch is the case "not usable" below.    *)
ResumeSafe(r) ==
  /\ snapshot[r]
  /\ \/ /\ status[r] = "COMMITTING"
        /\ integration[r] \in {"PREPARED", "FAILED"}
        /\ AtResult(r) \/ (AtBase(r) /\ result[r] /\ worktree[r] = "result")
     \/ status[r] = "RUNNING" /\ AtBase(r) /\ worktree[r] # "absent"
     \/ /\ status[r] = "REVIEWING" /\ AtBase(r)
        /\ result[r] /\ worktree[r] = "result"
     \/ /\ status[r] = "RECOVERING" /\ decision[r] = "RESUME_SAFE"
        /\ integration[r] # "none" /\ (AtBase(r) \/ AtResult(r))
  /\ Holds(r) \/ (status[r] = "COMMITTING" /\ AtResult(r))

RollbackSafe(r) ==
  \/ status[r] = "SNAPSHOTTING" /\ AtBase(r)
  \/ status[r] = "SNAPSHOTTING" /\ AtResult(r) /\ snapshot[r]
  \/ /\ snapshot[r] /\ AtBase(r)
     /\ \/ status[r] \in {"RUNNING", "REVIEWING"} /\ worktree[r] = "absent"
        \/ status[r] = "FAILED"
        \/ status[r] = "RECOVERING" /\ decision[r] = "ROLLBACK_SAFE"

Assessment(r) == IF ResumeSafe(r) THEN "RESUME_SAFE"
                 ELSE IF RollbackSafe(r) THEN "ROLLBACK_SAFE"
                 ELSE "BLOCK_HUMAN"

Assess(r, bySweep) ==
  \E usable \in BOOLEAN :
    rec' = [run |-> r, step |-> "cleanup",
            decision |-> IF usable THEN Assessment(r) ELSE "BLOCK_HUMAN",
            seen |-> status[r],
            bare |-> status[r] = "SNAPSHOTTING" /\ ~snapshot[r],
            sweep |-> bySweep]

\* Variant: interrupted rollbacks are not swept.
RecoverableTwice(r) == status[r] \in Active \ {"RECOVERING"} /\ RecoveryFree(r)
Recoverable(r) == status[r] \in Active /\ RecoveryFree(r)

(* command_sweep: stale active runs, oldest first, each once. *)
NextInSweep(r) == /\ Recoverable(r) /\ r \notin swept
                 /\ \A q \in older[r] : Recoverable(q) => q \in swept

SweepRecover(r) ==
  /\ NextInSweep(r)
  /\ Assess(r, TRUE)
  /\ UNCHANGED <<runVars, result, beginVars, lock, task, review, integration,
                 gateVars, gitVars, pc, swept, crashes>>

(* The sweep went through all rows: the supervisor will start another one. *)
SweepEnd ==
  /\ rec.step = "idle" /\ swept # {}
  /\ \A r \in Runs : ~NextInSweep(r)
  /\ swept' = {}
  /\ UNCHANGED <<runVars, result, beginVars, lock, task, review, integration,
                 gateVars, gitVars, pc, rec, crashes>>

(* hermesops-recovery recover --force, by an operator *)
ForcedRecover(r) ==
  /\ Recoverable(r)
  /\ Assess(r, FALSE)
  /\ UNCHANGED <<runVars, result, beginVars, lock, task, review, integration,
                 gateVars, gitVars, pc, swept, crashes>>

(* hermesopsctl resolve: the same, for a run with a pending approval, and   *)
(* refused unless the assessment is the answer the operator gave.           *)
Resolve(r) ==
  /\ Recoverable(r) /\ approval[r] = "PENDING"
  /\ Assess(r, FALSE)
  /\ rec'.decision \in {"RESUME_SAFE", "ROLLBACK_SAFE"}
  /\ UNCHANGED <<runVars, result, beginVars, lock, task, review, integration,
                 gateVars, gitVars, pc, swept, crashes>>

(* The recovery of a run ends, or an exception ends the whole sweep. *)
RecDone == /\ rec' = NoRecovery
           /\ swept' = IF rec.sweep THEN swept \cup {rec.run} ELSE swept
RecAbort == /\ rec' = NoRecovery
            /\ swept' = IF rec.sweep THEN {} ELSE swept

At(step) == rec.step = step /\ rec.run \in Runs

AbandonTask(r) == task' = [task EXCEPT ![r] = FALSE]

(* cleanup_run_resources; its caller goes on by decision and evidence. *)
RecCleanup ==
  /\ At("cleanup")
  /\ AbandonTask(rec.run)
  /\ RecGoto(CASE rec.decision = "BLOCK_HUMAN" -> "block"
               [] rec.decision = "RESUME_SAFE" ->
                    IF rec.seen \in {"RUNNING", "REVIEWING"}
                      THEN "resume" ELSE "merge"
               [] OTHER -> IF rec.bare THEN "bare.clean" ELSE "demote")
  /\ UNCHANGED <<runVars, result, beginVars, lock, review, integration,
                 gateVars, gitVars, pc, swept, crashes>>

RecResume ==
  /\ At("resume")
  /\ IF status[rec.run] = rec.seen THEN SetDecision(rec.run, "RESUME_SAFE")
                                   ELSE UNCHANGED decision
  /\ RecDone
  /\ UNCHANGED <<status, result, beginVars, lock, task, review, integration,
                 gateVars, gitVars, pc, crashes>>

RecMerge ==
  /\ At("merge")
  /\ LET r == rec.run IN
       IF integration[r] # "none" /\ result[r] /\ (AtBase(r) \/ AtResult(r))
         THEN /\ FastForward(r)
              /\ RecGoto("tidy") /\ UNCHANGED swept
         ELSE RecAbort /\ UNCHANGED main
  /\ UNCHANGED <<runVars, result, beginVars, lock, task, review, integration,
                 gateVars, worktree, pc, crashes>>

RecTidy ==
  /\ At("tidy")
  /\ RemoveWorktree(rec.run)
  /\ RecGoto("finalize")
  /\ UNCHANGED <<runVars, result, beginVars, lock, task, review, integration,
                 gateVars, main, pc, swept, crashes>>

RecFinalize ==
  /\ At("finalize")
  /\ LET r == rec.run IN
       IF /\ status[r] \in {"COMMITTING", "RECOVERING"}
          /\ integration[r] \in {"PREPARED", "FAILED"}
         THEN /\ integration' = [integration EXCEPT ![r] = "COMPLETED"]
              /\ Unlock(r)
              /\ SetStatus(r, "COMPLETED") /\ SetDecision(r, "RESUME_SAFE")
              /\ RecDone
         ELSE RecAbort /\ UNCHANGED <<integration, lock, runVars>>
  /\ UNCHANGED <<result, beginVars, task, review, gateVars, gitVars, pc,
                 crashes>>

(* rollback_without_snapshot; also the cleanup of a rollback's worktree. *)
RecClean ==
  /\ At("bare.clean") \/ At("rollback.clean")
  /\ RemoveWorktree(rec.run)
  /\ RecGoto(IF rec.step = "bare.clean" THEN "bare.finish"
                                        ELSE "rollback.finish")
  /\ UNCHANGED <<runVars, result, beginVars, lock, task, review, integration,
                 gateVars, main, pc, swept, crashes>>

RecFinishRollback ==
  /\ At("bare.finish") \/ At("rollback.finish")
  /\ FinishRollback(rec.run)
  /\ RecDone
  /\ UNCHANGED <<result, beginVars, task, review, integration, cancelled,
                 gitVars, pc, crashes>>

(* apply_rollback: a COMMITTING run is first taken out of that status. *)
RecDemote ==
  /\ At("demote")
  /\ IF status[rec.run] = "COMMITTING"
       THEN /\ FailPrepared(rec.run)
            /\ SetStatus(rec.run, "RECOVERING")
            /\ SetDecision(rec.run, "ROLLBACK_SAFE")
       ELSE UNCHANGED <<integration, runVars>>
  /\ RecGoto("rollback")
  /\ UNCHANGED <<result, beginVars, lock, task, review, gateVars, gitVars, pc,
                 swept, crashes>>

RecRollback ==
  /\ At("rollback")
  /\ IF CanRollBack(rec.run)
       THEN /\ StartRollback(rec.run)
            /\ RecGoto("rollback.clean") /\ UNCHANGED swept
       ELSE RecAbort /\ UNCHANGED runVars
  /\ UNCHANGED <<result, beginVars, lock, task, review, integration, gateVars,
                 gitVars, pc, crashes>>

(* apply_block: the run gets the project's lock unless another run has it, *)
(* one pending approval, and WAITING_HUMAN whatever its status was.        *)
RecBlock ==
  /\ At("block")
  /\ LET r == rec.run IN
       IF Lock(r) \in {NoRun, r}
         THEN /\ lock' = [lock EXCEPT ![ProjectOf[r]] = r]
              /\ approval' = [approval EXCEPT ![r] = "PENDING"]
              /\ FailPrepared(r)
              /\ SetStatus(r, "WAITING_HUMAN")
              /\ SetDecision(r, "BLOCK_HUMAN")
              /\ RecDone
         ELSE RecAbort /\ UNCHANGED <<lock, approval, integration, runVars>>
  /\ UNCHANGED <<result, beginVars, task, review, cancelled, gitVars, pc,
                 crashes>>

-----------------------------------------------------------------------------
(* The environment: deaths, commits from outside, cancellation requests.   *)

DriverCrash(r) ==
  /\ pc[r] # "idle" /\ crashes < MaxCrashes
  /\ Goto(r, "idle")
  /\ crashes' = crashes + 1
  /\ UNCHANGED <<runVars, result, beginVars, lock, task, review, integration,
                 gateVars, gitVars, recVars>>

RecoveryCrash ==
  /\ rec.step # "idle" /\ crashes < MaxCrashes
  /\ rec' = NoRecovery /\ swept' = {}
  /\ crashes' = crashes + 1
  /\ UNCHANGED <<runVars, result, beginVars, lock, task, review, integration,
                 gateVars, gitVars, pc>>

Drift(p) ==
  /\ \E x \in External \ main[p] : main' = [main EXCEPT ![p] = @ \cup {x}]
  /\ UNCHANGED <<runVars, result, beginVars, lock, task, review, integration,
                 gateVars, worktree, procVars>>

RequestCancel(pl) ==
  /\ pl \in Cancellable \ cancelled
  /\ cancelled' = cancelled \cup {pl}
  /\ UNCHANGED <<runVars, result, beginVars, lock, task, review, integration,
                 approval, gitVars, procVars>>

(* A program that was started goes on. *)
DriverStep(r) ==
  \/ BeginWorktree(r) \/ BeginRecord(r) \/ BeginFails(r) \/ BeginUndo(r)
  \/ WorkImport(r) \/ WorkFinish(r) \/ SubmitRecord(r) \/ ReviewFinish(r)
  \/ ApplyRefused(r) \/ ApplyReject(r) \/ ApplyBlock(r) \/ ApplyPrepare(r)
  \/ ApplyMerge(r) \/ ApplyTidy(r) \/ ApplyFinalize(r) \/ ApplyError(r)
  \/ MarkAmbiguous(r) \/ RollbackClean(r) \/ RollbackFinish(r)
  \/ RollbackFails(r) \/ MarkCleanup(r)

DriverStart(r) ==
  \/ BeginReserve(r) \/ WorkReserve(r) \/ SubmitCheck(r) \/ ReviewReserve(r)
  \/ ApplyCheck(r) \/ RollbackStart(r) \/ RollbackRefused(r)

RecoveryStep ==
  \/ RecCleanup \/ RecResume \/ RecMerge \/ RecTidy \/ RecFinalize
  \/ RecClean \/ RecFinishRollback \/ RecDemote \/ RecRollback \/ RecBlock

Next ==
  \/ \E r \in Runs : \/ DriverStart(r) \/ DriverStep(r) \/ DriverCrash(r)
                     \/ SweepRecover(r) \/ ForcedRecover(r) \/ Resolve(r)
  \/ RecoveryStep \/ RecoveryCrash \/ SweepEnd
  \/ \E p \in Projects : Drift(p)
  \/ \E pl \in Plans : RequestCancel(pl)

Spec == Init /\ [][Next]_vars

(* A started program goes on or dies; the supervisor's timer keeps starting *)
(* sweeps whatever else the machine does.                                   *)
FairSpec == /\ Spec
            /\ \A r \in Runs : WF_vars(DriverStep(r))
            /\ WF_vars(RecoveryStep)
            /\ WF_vars(SweepEnd)
            /\ SF_vars(\E r \in Runs : SweepRecover(r))

-----------------------------------------------------------------------------
(* Properties.  Those of the first group hold when the recovery only takes  *)
(* runs without a live process (Overlap = FALSE).                          *)

Open(r) == status[r] \notin {"NONE", "FAILED"} \cup Terminal

(* docs/ARCHITECTURE.md: one active write transaction per project.  Every   *)
(* run between begin and its terminal status holds its project, through     *)
(* crashes, rollbacks, ambiguous integrations and human gates; hence two    *)
(* runs of a project are never open together.                              *)
OpenHoldsProject == \A r \in Runs : Open(r) => Holds(r)

(* Nothing reaches a default branch through HermesOps, from the integrator  *)
(* or from the recovery of an interrupted integration, but the result of a  *)
(* run whose one review approved it and whose integration was recorded      *)
(* before the branch moved.                                                *)
MergedWasApproved ==
  \A r \in Runs : r \in main[ProjectOf[r]] =>
    /\ result[r] /\ review[r] = "APPROVE"
    /\ integration[r] \in {"PREPARED", "COMPLETED", "FAILED"}

(* Results are stacked, never combined: of two results on one branch, the   *)
(* run of one was begun from a commit that already contained the other.     *)
LinearHistory ==
  \A q, r \in Runs :
    /\ q # r /\ ProjectOf[q] = ProjectOf[r]
    /\ {q, r} \subseteq main[ProjectOf[r]]
    => (q \in base[r]) # (r \in base[q])

(* The integration row and the run row tell one story: a PREPARED row is    *)
(* that of a COMMITTING run, a COMPLETED row that of a COMPLETED run, whose *)
(* result is on the branch and whose worktree and lock are gone.           *)
IntegrationMatchesRun ==
  \A r \in Runs :
    /\ integration[r] = "PREPARED" <=> status[r] = "COMMITTING"
    /\ integration[r] = "COMPLETED" <=> status[r] = "COMPLETED"
    /\ status[r] = "COMPLETED" =>
         r \in main[ProjectOf[r]] /\ worktree[r] = "absent" /\ ~Holds(r)

(* A pending approval always belongs to a run that still holds its project  *)
(* and can still be decided; no gate is left behind by a run that is over,  *)
(* which would keep every other task of the plan blocked for ever.         *)
GateIsLive ==
  \A r \in Runs :
    /\ approval[r] = "PENDING" =>
         status[r] \in {"WAITING_HUMAN", "RECOVERING"} /\ Holds(r)
    /\ status[r] = "WAITING_HUMAN" => approval[r] = "PENDING"

(* The recovery policy's branch "continue-interrupted-resume" is for runs   *)
(* in a state that no program produces: a RECOVERING run is either being    *)
(* rolled back or ambiguous.                                               *)
RecoveringIsDecided ==
  \A r \in Runs : status[r] = "RECOVERING" =>
    decision[r] \in {"ROLLBACK_SAFE", "BLOCK_HUMAN"}

(* Sweeps settle what crashes interrupted: no run stays half begun, half    *)
(* integrated or half rolled back; and the task row of a dead worker or     *)
(* reviewer does not keep its run from being worked on or reviewed again,   *)
(* for as long as the run is not over.                                     *)
InterruptedSettles ==
  \A r \in Runs :
    /\ (status[r] \in {"SNAPSHOTTING", "COMMITTING", "RECOVERING"})
         ~> (status[r] \in {"RUNNING", "WAITING_HUMAN"} \cup Terminal)
    /\ task[r] ~> ~task[r] \/ status[r] \in Terminal

Phase(r) == CASE status[r] = "NONE" -> "new"
              [] status[r] = "FAILED" -> "failed"
              [] status[r] = "COMPLETED" -> "integrated"
              [] status[r] = "CANCELLED" -> "abandoned"
              [] OTHER -> "open"

Writer == INSTANCE ProjectWriter
            WITH writer <- lock, history <- main, seen <- base,
                 phase <- [r \in Runs |-> Phase(r)]

(* The programs together implement the exclusive writer of ProjectWriter.  *)
ImplementsWriter == Writer!Spec

Coarse(r) == CASE status[r] = "NONE" -> "none"
               [] status[r] \in {"SNAPSHOTTING", "RUNNING", "REVIEWING"} -> "open"
               [] status[r] = "WAITING_HUMAN" -> "waiting"
               [] status[r] = "COMMITTING" -> "committing"
               [] status[r] = "RECOVERING" -> "recovering"
               [] status[r] = "FAILED" -> "failed"
               [] status[r] = "CANCELLED" -> "cancelled"
               [] status[r] = "COMPLETED" -> "completed"

Lifecycle == INSTANCE RunLifecycle WITH phase <- [r \in Runs |-> Coarse(r)]

(* What the orchestrator relies on when it reads runs.status: a run moves   *)
(* through begin, gate, integration, rollback and recovery only as          *)
(* RunLifecycle says; no failed begin is ever continued, no ambiguous       *)
(* integration ever completed.                                             *)
ImplementsLifecycle == Lifecycle!Spec

-----------------------------------------------------------------------------
(* What the documents say and the programs do not do. *)

(* docs/ARCHITECTURE.md:30, one active write transaction per project.       *)
(* "begin" sets RUNNING without looking at the status it replaces, so a run *)
(* that the recovery cancelled meanwhile comes back without its lock.      *)
OneWriter ==
  \A q, r \in Runs : q # r /\ ProjectOf[q] = ProjectOf[r] => ~(Open(q) /\ Open(r))

(* docs/TRANSACTIONS.md:40, a submission requires the transaction's lock.   *)
SubmissionHoldsLock ==
  [][\A r \in Runs : status[r] = "RUNNING" /\ status'[r] = "REVIEWING"
       => Holds(r)]_vars

(* docs/TRANSACTIONS.md:46, a ROLLBACK_SAFE run had its snapshot verified   *)
(* before anything was removed; rollback_without_snapshot has none.        *)
RollbackHadSnapshot ==
  \A r \in Runs : status[r] = "CANCELLED" /\ decision[r] = "ROLLBACK_SAFE"
                  => snapshot[r]

(* docs/RECOVERY.md:15, BLOCK_HUMAN preserves the lock and creates an       *)
(* approval: a run marked BLOCK_HUMAN because its result is on the branch   *)
(* but not on record is not rolled back before a human is asked.           *)
AmbiguityWaitsForHuman ==
  [][\A r \in Runs :
       /\ r \in main[ProjectOf[r]] /\ decision[r] = "BLOCK_HUMAN"
       /\ decision'[r] = "ROLLBACK_SAFE"
       => approval[r] = "PENDING"]_vars

(* docs/INTEGRATION.md:85-88, rollback supports WAITING_HUMAN; it needs the *)
(* snapshot that a run blocked after a failed begin never got.             *)
WaitingCanBeRolledBack ==
  \A r \in Runs : status[r] = "WAITING_HUMAN" => CanRollBack(r)

(* docs/RECOVERY.md:40, the sweep recovers stale runs: a COMMITTING run     *)
(* whose integrator died is settled.                                       *)
SweepReachesEveryRun ==
  \A r \in Runs : status[r] = "COMMITTING" ~> status[r] # "COMMITTING"

(* docs/NOTIFICATIONS.md:45-51, an operator who answers a pending approval  *)
(* with one of its options has it resolved.                                *)
ApprovalIsResolvable ==
  \A r \in Runs : approval[r] = "PENDING" ~> approval[r] # "PENDING"
ResolvingSpec == FairSpec /\ \A r \in Runs : SF_vars(Resolve(r))
=============================================================================
