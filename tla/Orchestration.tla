---------------------------- MODULE Orchestration ----------------------------
(***************************************************************************)
(* The orchestrator daemon: a queue of objectives, a plan (a DAG of tasks) *)
(* for each, and attempts that drive a run of RunTransaction each.  The    *)
(* daemon's main loop, one thread per task, the planning thread, the       *)
(* operator's commands and the recovery share one SQLite file; a step is   *)
(* one transaction on it, or one program that the daemon starts and waits  *)
(* for.  A run is what RunLifecycle says it is.                            *)
(*                                                                         *)
(* A plan is named like its objective; an imported plan has no objective.  *)
(* Priorities and not_before are abstracted to a free choice among the     *)
(* queued objectives and the tasks that may run.                           *)
(***************************************************************************)
EXTENDS Naturals, FiniteSets

CONSTANTS
  Plans,        \* plans, and the objectives they serve
  Imported,     \* the plans imported without an objective
  Planned,      \* the plans that the AI planner makes for their objective
  Tasks,        \* tasks of all plans
  PlanOf,       \* the plan of a task
  Pipelines,    \* the tasks that drive a run; the others only compute
  ProjectOf,    \* the project of a pipeline
  Parents,      \* the tasks a task depends on
  Before,       \* <<q, t>>: the refresh of their plan visits q before t
  MaxAttempts,  \* attempts of a task, and planning attempts of an objective
  MaxParallel,  \* max_parallel_tasks of a plan
  MaxTasks,     \* global_parallel_tasks
  MaxObjectives,\* global_parallel_objectives
  Commands,     \* the operator commands given
  MaxFaults,    \* bound on programs that fail half way
  MaxCrashes    \* bound on deaths of the daemon

ASSUME ConstantsAssumption ==
  /\ Imported \subseteq Plans /\ Planned \subseteq Plans \ Imported
  /\ PlanOf \in [Tasks -> Plans]
  /\ Pipelines \subseteq Tasks
  /\ Parents \in [Tasks -> SUBSET Tasks]
  /\ \A t \in Tasks : \A q \in Parents[t] : PlanOf[q] = PlanOf[t]
  /\ Before \subseteq Tasks \X Tasks
  /\ MaxAttempts \in Nat \ {0} /\ MaxParallel \in Nat \ {0}
  /\ MaxTasks \in Nat /\ MaxObjectives \in Nat
  /\ MaxFaults \in Nat /\ MaxCrashes \in Nat

VARIABLES
  objective,    \* objective_queue.status
  planning,     \* objective_queue.planning_attempt_count
  planner,      \* the objectives the planning thread works on, at most one
  plan,         \* orchestration_plans.status; NONE: no plan linked
  planError,    \* orchestration_plans.last_error, as far as the code reads it
  task,         \* orchestration_tasks.status
  attempts,     \* orchestration_tasks.attempt_count
  run,          \* where the run of each attempt is
  linked,       \* the runs recorded in orchestration_attempts.run_id
  approvals,    \* the runs with a pending approval
  prepared,     \* the runs with an integration row that approves them
  exec,         \* what the thread of each task does next
  loop,         \* what the daemon's main loop does next
  faults,       \* failures so far
  crashes       \* deaths so far

queueVars == <<objective, planning, planner>>
planVars  == <<plan, planError, task, attempts>>
runVars   == <<run, linked, approvals, prepared>>
boundVars == <<faults, crashes>>
vars == <<queueVars, planVars, runVars, exec, loop, boundVars>>

Runs == Pipelines \X (1 .. MaxAttempts)
NoRun == <<>>

Lifecycle == INSTANCE RunLifecycle WITH phase <- run
Phases == Lifecycle!Phases
Holding == Lifecycle!Holding

Terminal == {"COMPLETED", "FAILED", "CANCELLED"}
Live     == {"READY", "RUNNING", "BLOCKED"}   \* plans the daemon refreshes
Unstarted == {"PENDING", "READY", "BLOCKED"}  \* tasks a cancellation reaches
Bad      == {"FAILED", "BLOCKED", "CANCELLED"}
ObjectiveStates == {"NONE", "QUEUED", "PLANNING", "RUNNING", "PAUSE_REQUESTED",
                    "PAUSED", "CANCEL_REQUESTED"} \cup Terminal
RollbackSteps == {"cancel", "gate", "undo"}
EndOf(step) == CASE step = "cancel" -> "cancel.end" [] step = "gate" -> "gate.end"
                 [] step = "undo" -> "undo.end"
ThreadSteps == {"idle", "reserve", "begin", "link", "work", "check", "apply",
                "commit", "succeed", "wait", "leave", "fail", "refresh"}
               \cup RollbackSteps \cup {EndOf(s) : s \in RollbackSteps}
LoopSteps == {"down", "startup", "list", "clean.end", "sync",
              "dispatch", "promote", "promoted", "refresh"}

TypeOK ==
  /\ objective \in [Plans -> ObjectiveStates]
  /\ planning \in [Plans -> 0 .. MaxAttempts]
  /\ planner \subseteq Planned
  /\ plan \in [Plans -> {"NONE", "DRAFT"} \cup Live \cup Terminal]
  /\ planError \in [Plans -> {"none", "gate", "deferred", "recovery", "pending"}]
  /\ task \in [Tasks -> {"PENDING", "READY", "RUNNING"} \cup Bad \cup {"COMPLETED"}]
  /\ attempts \in [Tasks -> 0 .. MaxAttempts]
  /\ run \in [Runs -> Phases]
  /\ linked \subseteq Runs /\ approvals \subseteq Runs /\ prepared \subseteq Runs
  /\ exec \in [Tasks -> ThreadSteps]
  /\ loop.step \in LoopSteps
  /\ loop.plans \subseteq Plans /\ loop.runs \subseteq Runs
  /\ faults \in 0 .. MaxFaults /\ crashes \in 0 .. MaxCrashes

At(step) == loop.step = step
LoopAt(step, plans, runs) == loop' = [step |-> step, plans |-> plans, runs |-> runs]

Init ==
  /\ objective = [p \in Plans |-> "NONE"]
  /\ planning = [p \in Plans |-> 0] /\ planner = {}
  /\ plan = [p \in Plans |-> "NONE"]
  /\ planError = [p \in Plans |-> "none"]
  /\ task = [t \in Tasks |-> "PENDING"] /\ attempts = [t \in Tasks |-> 0]
  /\ run = [r \in Runs |-> "none"]
  /\ linked = {} /\ approvals = {} /\ prepared = {}
  /\ exec = [t \in Tasks |-> "idle"]
  /\ loop = [step |-> "down", plans |-> {}, runs |-> {}]
  /\ faults = 0 /\ crashes = 0

-----------------------------------------------------------------------------
(* What the transactions read. *)

TasksOf(p)   == {t \in Tasks : PlanOf[t] = p}
RunningOf(p) == {t \in TasksOf(p) : task[t] = "RUNNING"}
RunsOf(p)    == {r \in linked : PlanOf[r[1]] = p}
Current(t)   == <<t, attempts[t]>>

Gated(p) == RunsOf(p) \cap approvals # {}
CancelWanted(p) == objective[p] \in {"CANCEL_REQUESTED", "CANCELLED"}

(* An approved integration that a human gate of the plan does not stop. *)
InFlight(p) == \E r \in RunsOf(p) \cap prepared :
                 \/ run[r] \in {"committing", "recovering"}
                 \/ run[r] = "completed" /\ task[r[1]] = "RUNNING"

\* Variant: only an integration that is over can no longer be cancelled.
IntegrationOver(p) == \E r \in RunsOf(p) : run[r] = "completed"
PointOfNoReturn(p) == \E r \in RunsOf(p) :
                        run[r] \in {"committing", "completed"} \/ r \in prepared
ActiveRuns(p) == {r \in RunsOf(p) : run[r] \in Holding}

ActiveObjectives == {p \in Plans : objective[p] \in
                       {"PLANNING", "RUNNING", "PAUSE_REQUESTED", "CANCEL_REQUESTED"}}

ProjectFree(r) == \A q \in Runs : run[q] \in Holding => ProjectOf[q[1]] # ProjectOf[r[1]]
ProjectBusy(t) == t \in Pipelines /\ \E q \in Pipelines \ {t} :
                    ProjectOf[q] = ProjectOf[t] /\ task[q] = "RUNNING"

(* A thread, or the main loop, runs programs on the run.  A gap between two *)
(* of them is far shorter than the age at which the recovery takes a run.  *)
Driven(r) == \/ At("clean.end") /\ r \in loop.runs
             \/ /\ r = Current(r[1])
                /\ exec[r[1]] \in {"link", "work", "check", "apply", "commit"}
                     \cup RollbackSteps \cup {EndOf(s) : s \in RollbackSteps}

Goto(t, step) == exec' = [exec EXCEPT ![t] = step]
SetRun(r, s)  == run' = [run EXCEPT ![r] = s]
SetTask(t, s) == task' = [task EXCEPT ![t] = s]
(* UPDATE orchestration_tasks ... WHERE status IN from *)
MoveTask(t, from, s) == task' = [task EXCEPT ![t] = IF @ \in from THEN s ELSE @]
Blame(p, from, s, error) ==
  IF plan[p] \in from
    THEN /\ plan' = [plan EXCEPT ![p] = s]
         /\ planError' = [planError EXCEPT ![p] = error]
    ELSE UNCHANGED <<plan, planError>>

(* cancel_objective_plan and cancel_plan_in_transaction, for the plans ps *)
CancelPlans(ps) ==
  LET there == {p \in ps : plan[p] # "NONE"} IN
  /\ task' = [t \in Tasks |-> IF PlanOf[t] \in there /\ task[t] \in Unstarted
                                THEN "CANCELLED" ELSE task[t]]
  /\ plan' = [p \in Plans |-> IF p \in there /\ plan[p] \notin Terminal
                                THEN "CANCELLED" ELSE plan[p]]
  /\ planError' = [p \in Plans |-> IF plan'[p] # plan[p] THEN "none" ELSE planError[p]]

-----------------------------------------------------------------------------
(* refresh_plan_states.  One pass over the pending tasks in the order of    *)
(* Before: a failed parent blocks, a parent blocked earlier in the same    *)
(* pass too; the plan's status then follows from those of its tasks.       *)

\* Variant: a parent that is not bad is good enough.
ParentsUsable(t) == \A q \in Parents[t] : task[q] \notin Bad
ParentsDone(t) == \A q \in Parents[t] : task[q] = "COMPLETED"

SettlePlan(p, was, error, statuses) ==
  LET set(s, e) == /\ plan' = [plan EXCEPT ![p] = s]
                   /\ planError' = [planError EXCEPT ![p] = e]
  IN CASE Gated(p) /\ error = "deferred" ->
            IF InFlight(p) THEN set(was, error) ELSE set("BLOCKED", "gate")
       [] ~(Gated(p) /\ error = "deferred") /\ was = "BLOCKED"
          /\ (error \in {"recovery", "pending"} \/ (Gated(p) /\ error = "gate")) ->
            set(was, error)
       [] OTHER ->
            IF statuses = {"COMPLETED"} THEN set("COMPLETED", "none")
            ELSE IF /\ statuses \cap Bad # {}
                    /\ statuses \cap {"PENDING", "READY", "RUNNING"} = {}
              THEN set("FAILED", "none")
              ELSE set(IF was = "READY" THEN "RUNNING" ELSE was, error)

RefreshAs(p, was, error) ==
  LET pending == {t \in TasksOf(p) : task[t] = "PENDING"}
  IN \E blocked \in SUBSET pending :
       /\ blocked = {t \in pending : \E q \in Parents[t] :
                       task[q] \in Bad \/ (q \in blocked /\ <<q, t>> \in Before)}
       /\ task' = [t \in Tasks |->
                     IF t \in blocked THEN "BLOCKED"
                     ELSE IF t \in pending /\ ParentsDone(t) THEN "READY"
                     ELSE task[t]]
       /\ SettlePlan(p, was, error, {task'[t] : t \in TasksOf(p)})

Refresh(p) == IF plan[p] \in Live THEN RefreshAs(p, plan[p], planError[p])
                                  ELSE UNCHANGED <<plan, planError, task>>

-----------------------------------------------------------------------------
(* execute_task: the thread of a task. *)

(* reservation_ineligibility_reason, read in the reserving transaction *)
\* Variant: the objective is not read again.
MayStartAnyway(t) ==
  LET p == PlanOf[t] IN
  /\ task[t] = "READY" /\ attempts[t] < MaxAttempts
  /\ plan[p] \in {"READY", "RUNNING"} /\ ~Gated(p)
  /\ Cardinality(RunningOf(p)) < MaxParallel /\ ~ProjectBusy(t)
MayStart(t) ==
  LET p == PlanOf[t] IN
  /\ task[t] = "READY" /\ attempts[t] < MaxAttempts
  /\ plan[p] \in {"READY", "RUNNING"}
  /\ objective[p] \in {"NONE", "RUNNING"}
  /\ ~Gated(p)
  /\ Cardinality(RunningOf(p)) < MaxParallel
  /\ ~ProjectBusy(t)

ReserveAttempt(t) ==
  /\ exec[t] = "reserve"
  /\ IF MayStart(t)
       THEN /\ SetTask(t, "RUNNING")
            /\ attempts' = [attempts EXCEPT ![t] = @ + 1]
            /\ Goto(t, IF t \in Pipelines THEN "begin" ELSE "work")
       ELSE Goto(t, "idle") /\ UNCHANGED <<task, attempts>>
  /\ UNCHANGED <<queueVars, plan, planError, runVars, loop, boundVars>>

(* hermesops-transaction begin, outside the try block of execute_pipeline:  *)
(* the reservation, or its refusal.                                        *)
Begin(t) ==
  /\ exec[t] = "begin"
  /\ \/ ProjectFree(Current(t)) /\ SetRun(Current(t), "open") /\ Goto(t, "link")
     \/ UNCHANGED run /\ Goto(t, "fail")
  /\ UNCHANGED <<queueVars, planVars, linked, approvals, prepared, loop, boundVars>>

(* Then it fails, is killed half way, or the attempt learns its run.        *)
Link(t) ==
  /\ exec[t] = "link"
  /\ \/ SetRun(Current(t), "failed") /\ Goto(t, "fail") /\ UNCHANGED linked
     \/ UNCHANGED <<run, linked>> /\ Goto(t, "fail")
     \/ linked' = linked \cup {Current(t)} /\ Goto(t, "work") /\ UNCHANGED run
  /\ UNCHANGED <<queueVars, planVars, approvals, prepared, loop, boundVars>>

(* The worker, submit and the reviewer of a pipeline, or the computation of *)
(* another task: success, or an exception.                                 *)
Work(t) ==
  /\ exec[t] = "work"
  /\ IF t \in Pipelines THEN Goto(t, "check") \/ Goto(t, "undo")
                        ELSE Goto(t, "succeed") \/ Goto(t, "fail")
  /\ UNCHANGED <<queueVars, planVars, runVars, loop, boundVars>>

(* objective_cancellation_requested, then plan_waiting_human_requested *)
Check(t) ==
  /\ exec[t] = "check"
  /\ Goto(t, IF CancelWanted(PlanOf[t]) THEN "cancel"
             ELSE IF Gated(PlanOf[t]) THEN "gate" ELSE "apply")
  /\ UNCHANGED <<queueVars, planVars, runVars, loop, boundVars>>

(* hermesops-integrator apply up to its recording transaction, which reads  *)
(* the cancellation and the gate again: a human verdict, an approval, or   *)
(* (a rejection included) an exception in execute_pipeline.                *)
MayRecord(p) == ~CancelWanted(p) /\ ~Gated(p)

Apply(t) ==
  /\ exec[t] = "apply"
  /\ LET r == Current(t)  p == PlanOf[t] IN
       \/ /\ ~MayRecord(p)
          /\ Goto(t, IF CancelWanted(p) THEN "cancel" ELSE "gate")
          /\ UNCHANGED <<run, approvals, prepared>>
       \/ /\ MayRecord(p)
          /\ SetRun(r, "waiting") /\ approvals' = approvals \cup {r}
          /\ Goto(t, "wait") /\ UNCHANGED prepared
       \/ /\ MayRecord(p)
          /\ SetRun(r, "committing") /\ prepared' = prepared \cup {r}
          /\ Goto(t, "commit") /\ UNCHANGED approvals
       \/ Goto(t, "undo") /\ UNCHANGED <<run, approvals, prepared>>
  /\ UNCHANGED <<queueVars, planVars, linked, loop, boundVars>>

(* The rest of the integrator.  A fault leaves an ambiguous integration, a  *)
(* killed integrator, or an integration whose thread does not learn of it. *)
Commit(t) ==
  /\ exec[t] = "commit"
  /\ \/ SetRun(Current(t), "completed") /\ Goto(t, "succeed") /\ UNCHANGED faults
     \/ /\ faults < MaxFaults /\ faults' = faults + 1
        /\ \E s \in {"committing", "recovering", "completed"} : SetRun(Current(t), s)
        /\ Goto(t, "undo")
  /\ UNCHANGED <<queueVars, planVars, linked, approvals, prepared, loop, crashes>>

-----------------------------------------------------------------------------
(* rollback_run_best_effort, by a thread or by the main loop. *)

(* mark_cancellation_cleanup_recovery, when the rollback failed *)
MarkRecovery(r) ==
  /\ SetRun(r, "recovering")
  /\ approvals' = approvals \ {r}
  /\ MoveTask(r[1], {"PENDING", "READY", "RUNNING", "BLOCKED"}, "BLOCKED")
  /\ Blame(PlanOf[r[1]], Live, "BLOCKED", "recovery")

(* The outcome that execute_pipeline returns or raises after a rollback. *)
After(step, clean) == CASE step = "cancel" -> IF clean THEN "succeed" ELSE "leave"
                        [] step = "gate" -> "wait"
                        [] step = "undo" -> "fail"

(* The transaction program takes every run but a COMMITTING one. *)
\* Variant: only a run that is gone needs no rollback.
Gone(r) == run[r] \in {"none", "cancelled"}
Over(r) == run[r] \notin Holding

Rollback(t) ==
  /\ exec[t] \in RollbackSteps
  /\ LET r == Current(t) IN
       CASE Over(r) ->
              /\ Goto(t, After(exec[t], TRUE))
              /\ UNCHANGED <<run, approvals, task, plan, planError>>
         [] ~Over(r) /\ run[r] = "committing" ->
              /\ MarkRecovery(r)
              /\ Goto(t, After(exec[t], FALSE))
         [] ~Over(r) /\ run[r] # "committing" ->
              /\ SetRun(r, "recovering")
              /\ Goto(t, EndOf(exec[t]))
              /\ UNCHANGED <<approvals, task, plan, planError>>
  /\ UNCHANGED <<queueVars, attempts, linked, prepared, loop, boundVars>>

RollbackEnd(t) ==
  \E step \in RollbackSteps :
    /\ exec[t] = EndOf(step)
    /\ LET r == Current(t) IN
         \/ /\ SetRun(r, "cancelled") /\ approvals' = approvals \ {r}
            /\ Goto(t, After(step, TRUE))
            /\ UNCHANGED <<task, plan, planError, faults>>
         \/ /\ faults < MaxFaults /\ faults' = faults + 1
            /\ MarkRecovery(r)
            /\ Goto(t, After(step, FALSE))
    /\ UNCHANGED <<queueVars, attempts, linked, prepared, loop, crashes>>

-----------------------------------------------------------------------------
(* The transactions that end an attempt, and the refresh that follows. *)

\* Variant: the human gate blocks an integrated pipeline as well.
StoppedByAnyGate(t) == Gated(PlanOf[t])
StoppedByGate(t) == /\ Gated(PlanOf[t])
                    /\ ~(t \in Pipelines /\ run[Current(t)] = "completed")

FinishSuccess(t) ==
  /\ exec[t] = "succeed"
  /\ MoveTask(t, {"RUNNING"}, IF StoppedByGate(t) THEN "BLOCKED" ELSE "COMPLETED")
  /\ Goto(t, "refresh")
  /\ UNCHANGED <<queueVars, plan, planError, attempts, runVars, loop, boundVars>>

(* The tasks that t takes along when its plan has to stop. *)
StopPlanOf(t) ==
  task' = [q \in Tasks |->
             IF \/ PlanOf[q] = PlanOf[t] /\ task[q] \in {"PENDING", "READY"}
                \/ q = t /\ task[q] = "RUNNING"
               THEN "BLOCKED" ELSE task[q]]

FinishWaitingHuman(t) ==
  /\ exec[t] = "wait"
  /\ LET p == PlanOf[t] IN
       CASE CancelWanted(p) ->
              /\ MoveTask(t, {"RUNNING", "BLOCKED"}, "BLOCKED")
              /\ Blame(p, Live, "BLOCKED",
                       IF planError[p] = "recovery" THEN "recovery" ELSE "pending")
         [] ~CancelWanted(p) /\ InFlight(p) ->
              /\ StopPlanOf(t)
              /\ Blame(p, {"READY", "RUNNING"}, plan[p], "deferred")
         [] OTHER ->
              /\ StopPlanOf(t)
              /\ Blame(p, Live, "BLOCKED", "gate")
  /\ Goto(t, "refresh")
  /\ UNCHANGED <<queueVars, attempts, runVars, loop, boundVars>>

FinishCancellationRecovery(t) ==
  /\ exec[t] = "leave"
  /\ StopPlanOf(t)
  /\ Blame(PlanOf[t], Live, "BLOCKED", "recovery")
  /\ Goto(t, "refresh")
  /\ UNCHANGED <<queueVars, attempts, runVars, loop, boundVars>>

Retry(t) == IF attempts[t] < MaxAttempts THEN "READY" ELSE "FAILED"

(* Unless a gate stops it, the task is retried whatever its status is. *)
FinishFailure(t) ==
  /\ exec[t] = "fail"
  /\ IF Gated(PlanOf[t]) THEN MoveTask(t, {"RUNNING"}, "BLOCKED")
                         ELSE SetTask(t, Retry(t))
  /\ Goto(t, "refresh")
  /\ UNCHANGED <<queueVars, plan, planError, attempts, runVars, loop, boundVars>>

FinishRefresh(t) ==
  /\ exec[t] = "refresh"
  /\ Refresh(PlanOf[t])
  /\ Goto(t, "idle")
  /\ UNCHANGED <<queueVars, attempts, runVars, loop, boundVars>>

ThreadStep(t) ==
  \/ ReserveAttempt(t) \/ Begin(t) \/ Link(t) \/ Work(t) \/ Check(t) \/ Apply(t)
  \/ Commit(t) \/ Rollback(t) \/ RollbackEnd(t) \/ FinishSuccess(t)
  \/ FinishWaitingHuman(t) \/ FinishCancellationRecovery(t) \/ FinishFailure(t)
  \/ FinishRefresh(t)

-----------------------------------------------------------------------------
(* The planning thread: execute_objective_planning. *)

PlanningFails(p) ==
  objective' = [objective EXCEPT ![p] =
                  CASE @ = "CANCEL_REQUESTED" -> "CANCELLED"
                    [] @ = "PAUSE_REQUESTED" -> "PAUSED"
                    [] OTHER -> IF planning[p] < MaxAttempts THEN "QUEUED" ELSE "FAILED"]

(* finish_objective_planning_success, or _failure when it raises because of *)
(* an unexpected status or because the planner failed.                     *)
FinishPlanning(p) ==
  /\ p \in planner /\ planner' = {}
  /\ \/ /\ objective[p] = "PLANNING"
        /\ objective' = [objective EXCEPT ![p] = "RUNNING"]
        /\ plan' = [plan EXCEPT ![p] = "READY"]
        /\ UNCHANGED task
     \/ /\ objective[p] = "PAUSE_REQUESTED"
        /\ objective' = [objective EXCEPT ![p] = "PAUSED"]
        /\ plan' = [plan EXCEPT ![p] = "DRAFT"]
        /\ UNCHANGED task
     \/ /\ objective[p] = "CANCEL_REQUESTED"
        /\ objective' = [objective EXCEPT ![p] = "CANCELLED"]
        /\ plan' = [plan EXCEPT ![p] = "CANCELLED"]
        /\ task' = [t \in Tasks |-> IF PlanOf[t] = p THEN "CANCELLED" ELSE task[t]]
     \/ PlanningFails(p) /\ UNCHANGED <<plan, task>>
  /\ UNCHANGED <<planning, planError, attempts, runVars, exec, loop, boundVars>>

-----------------------------------------------------------------------------
(* daemon_loop. *)

(* reconcile_interrupted_tasks: a pipeline with an active run stays RUNNING *)
\* Variant: a run that no longer is open did its work.
ReconciledWhenClosed(t) ==
  IF task[t] # "RUNNING" THEN task[t]
  ELSE IF t \in Pipelines /\ Current(t) \in linked /\ run[Current(t)] # "open"
    THEN "COMPLETED" ELSE Retry(t)
Reconciled(t) ==
  LET r == Current(t) IN
  IF task[t] # "RUNNING" THEN task[t]
  ELSE IF t \in Pipelines /\ r \in linked /\ run[r] \in Holding THEN "RUNNING"
  ELSE IF t \in Pipelines /\ r \in linked /\ run[r] = "completed" THEN "COMPLETED"
  ELSE Retry(t)

Start ==
  /\ At("down")
  /\ task' = [t \in Tasks |-> Reconciled(t)]
  /\ LoopAt("startup", {PlanOf[t] : t \in {t \in Tasks : plan[PlanOf[t]] # "NONE"
                          /\ task'[t] \notin {"COMPLETED", "CANCELLED"}}}, {})
  /\ UNCHANGED <<queueVars, plan, planError, attempts, runVars, exec, boundVars>>

RefreshNext(step) ==
  /\ At(step)
  /\ \E p \in loop.plans : Refresh(p) /\ LoopAt(step, loop.plans \ {p}, {})
  /\ UNCHANGED <<queueVars, attempts, runVars, exec, boundVars>>

(* reconcile_interrupted_objectives *)
ReconcileObjectives ==
  /\ At("startup") /\ loop.plans = {}
  /\ objective' = [p \in Plans |->
                     IF objective[p] # "PLANNING" THEN objective[p]
                     ELSE IF planning[p] < MaxAttempts THEN "QUEUED" ELSE "FAILED"]
  /\ LoopAt("list", {}, {})
  /\ UNCHANGED <<planning, planner, planVars, runVars, exec, boundVars>>

(* cleanup_cancel_requested_human_runs rolls back one run after the other; *)
(* the list of them is read again for each.                                *)
\* Variant: cancelled plans are left to their human gates.
NoneWaiting == {}
WaitingCancelled == {r \in linked : /\ run[r] = "waiting"
                                   /\ objective[PlanOf[r[1]]] = "CANCEL_REQUESTED"}

CleanWaiting ==
  /\ At("list")
  /\ \/ WaitingCancelled = {} /\ UNCHANGED run /\ LoopAt("sync", {}, {})
     \/ \E r \in WaitingCancelled :
          SetRun(r, "recovering") /\ LoopAt("clean.end", {}, {r})
  /\ UNCHANGED <<queueVars, planVars, linked, approvals, prepared, exec, boundVars>>

CleanWaitingEnd ==
  /\ At("clean.end")
  /\ \E r \in loop.runs :
       \/ /\ SetRun(r, "cancelled") /\ approvals' = approvals \ {r}
          /\ UNCHANGED <<task, plan, planError, faults>>
       \/ /\ faults < MaxFaults /\ faults' = faults + 1
          /\ MarkRecovery(r)
  /\ LoopAt("list", {}, {})
  /\ UNCHANGED <<queueVars, attempts, linked, prepared, exec, crashes>>

(* synchronize_objective_states *)
Quiet(p) == RunningOf(p) = {} /\ ActiveRuns(p) = {}

Synchronized(p) ==
  CASE objective[p] = "CANCEL_REQUESTED" -> IF Quiet(p) THEN "CANCELLED" ELSE objective[p]
    [] objective[p] = "PAUSE_REQUESTED" /\ RunningOf(p) = {} -> "PAUSED"
    [] objective[p] \in {"NONE"} \cup Terminal -> objective[p]
    [] OTHER -> IF plan[p] \in Terminal THEN plan[p] ELSE objective[p]

Synchronize ==
  /\ At("sync")
  /\ objective' = [p \in Plans |-> Synchronized(p)]
  /\ CancelPlans({p \in Plans : objective[p] = "CANCEL_REQUESTED" /\ Quiet(p)})
  /\ LoopAt("dispatch", {}, {})
  /\ UNCHANGED <<planning, planner, attempts, runVars, exec, boundVars>>

(* The dispatch loop counts the slots in one transaction, and takes the next *)
(* objective in another; only the planning reserves against a new count.    *)
LeaveDispatch == LoopAt("refresh", {p \in Plans : plan[p] \in Live}, {})

Dispatch ==
  /\ At("dispatch")
  /\ LET queued == {p \in Plans : objective[p] = "QUEUED"} IN
       \/ /\ queued = {} \/ Cardinality(ActiveObjectives) >= MaxObjectives
          /\ LeaveDispatch /\ UNCHANGED queueVars
       \/ /\ Cardinality(ActiveObjectives) < MaxObjectives
          /\ \E p \in queued :
               CASE plan[p] # "NONE" ->
                      LoopAt("promote", {p}, {}) /\ UNCHANGED queueVars
                 [] plan[p] = "NONE" /\ planner # {} ->
                      LeaveDispatch /\ UNCHANGED queueVars
                 [] plan[p] = "NONE" /\ planner = {} /\ planning[p] = MaxAttempts ->
                      /\ objective' = [objective EXCEPT ![p] = "FAILED"]
                      /\ LeaveDispatch /\ UNCHANGED <<planning, planner>>
                 [] OTHER ->
                      /\ objective' = [objective EXCEPT ![p] = "PLANNING"]
                      /\ planning' = [planning EXCEPT ![p] = @ + 1]
                      /\ planner' = {p}
                      /\ LoopAt("dispatch", {}, {})
  /\ UNCHANGED <<planVars, runVars, exec, boundVars>>

(* promote_planned_objective *)
Promote ==
  /\ At("promote")
  /\ \E p \in loop.plans :
       IF objective[p] = "QUEUED"
         THEN /\ objective' = [objective EXCEPT ![p] =
                                 IF plan[p] \in Terminal THEN plan[p] ELSE "RUNNING"]
              /\ IF plan[p] = "DRAFT" THEN Blame(p, {"DRAFT"}, "READY", "none")
                                      ELSE UNCHANGED <<plan, planError>>
              /\ LoopAt("promoted", {p}, {})
         ELSE LeaveDispatch /\ UNCHANGED <<objective, plan, planError>>
  /\ UNCHANGED <<planning, planner, task, attempts, runVars, exec, boundVars>>

RefreshPromoted ==
  /\ At("promoted")
  /\ \E p \in loop.plans : Refresh(p)
  /\ LoopAt("dispatch", {}, {})
  /\ UNCHANGED <<queueVars, attempts, runVars, exec, boundVars>>

(* runnable_tasks, then a thread for each; pipelines need a healthy         *)
(* supervisor.  The threads read everything again before they start work.  *)
Runnable(healthy) ==
  {t \in Tasks : /\ exec[t] = "idle" /\ task[t] = "READY"
                 /\ t \in Pipelines => healthy
                 /\ plan[PlanOf[t]] \in {"READY", "RUNNING"}
                 /\ objective[PlanOf[t]] \in {"NONE", "RUNNING"}
                 /\ ~ProjectBusy(t)}
Admissible(ts) ==
  /\ \A p \in Plans : LET mine == {t \in ts : PlanOf[t] = p} IN
       mine # {} => Cardinality(mine) + Cardinality(RunningOf(p)) <= MaxParallel
  /\ \A q, t \in ts \cap Pipelines : q # t => ProjectOf[q] # ProjectOf[t]
  /\ ts # {} => Cardinality(ts) + Cardinality({t \in Tasks : exec[t] # "idle"}) <= MaxTasks

SubmitRunnable ==
  /\ At("refresh") /\ loop.plans = {}
  /\ \E healthy \in BOOLEAN, ts \in SUBSET Tasks :
       /\ ts \subseteq Runnable(healthy) /\ Admissible(ts)
       /\ \A t \in Runnable(healthy) \ ts : ~Admissible(ts \cup {t})
       /\ exec' = [t \in Tasks |-> IF t \in ts THEN "reserve" ELSE exec[t]]
  /\ LoopAt("list", {}, {})
  /\ UNCHANGED <<queueVars, planVars, runVars, boundVars>>

LoopStep ==
  \/ Start \/ RefreshNext("startup") \/ ReconcileObjectives \/ CleanWaiting
  \/ CleanWaitingEnd \/ Synchronize \/ Dispatch \/ Promote \/ RefreshPromoted
  \/ RefreshNext("refresh") \/ SubmitRunnable

-----------------------------------------------------------------------------
(* hermesops-objectives and the plan commands of the orchestrator. *)

(* submit, submit-plan and import *)
Submit(p) ==
  /\ objective[p] = "NONE" /\ plan[p] = "NONE"
  /\ IF p \in Imported THEN UNCHANGED objective
                       ELSE objective' = [objective EXCEPT ![p] = "QUEUED"]
  /\ plan' = [plan EXCEPT ![p] = IF p \in Planned THEN "NONE" ELSE "DRAFT"]
  /\ UNCHANGED <<planning, planner, planError, task, attempts, runVars, exec, loop,
                 boundVars>>

Pause(p) ==
  /\ "pause" \in Commands
  /\ objective[p] \in {"QUEUED", "PLANNING", "RUNNING", "PAUSE_REQUESTED"}
  /\ objective' = [objective EXCEPT ![p] =
                     IF @ = "PLANNING" \/ RunningOf(p) # {} THEN "PAUSE_REQUESTED"
                                                            ELSE "PAUSED"]
  /\ UNCHANGED <<planning, planner, planVars, runVars, exec, loop, boundVars>>

Resume(p) ==
  /\ "resume" \in Commands
  /\ objective[p] = "PAUSED"
  /\ objective' = [objective EXCEPT ![p] = IF plan[p] = "BLOCKED" THEN "RUNNING"
                                           ELSE IF plan[p] \in Terminal THEN plan[p]
                                           ELSE "QUEUED"]
  /\ UNCHANGED <<planning, planner, planVars, runVars, exec, loop, boundVars>>

Cancel(p) ==
  /\ "cancel" \in Commands
  /\ objective[p] \notin {"NONE"} \cup Terminal
  /\ ~PointOfNoReturn(p)
  /\ IF objective[p] = "PLANNING" \/ RunningOf(p) # {} \/ ActiveRuns(p) # {}
       THEN /\ objective' = [objective EXCEPT ![p] = "CANCEL_REQUESTED"]
            /\ UNCHANGED <<task, plan, planError>>
       ELSE /\ objective' = [objective EXCEPT ![p] = "CANCELLED"]
            /\ CancelPlans({p})
  /\ UNCHANGED <<planning, planner, attempts, runVars, exec, loop, boundVars>>

(* activate, and the refresh that ends it *)
ActivatePlan(p) ==
  /\ "activate" \in Commands
  /\ plan[p] = "DRAFT"
  /\ RefreshAs(p, "READY", "none")
  /\ UNCHANGED <<queueVars, attempts, runVars, exec, loop, boundVars>>

CancelPlan(p) ==
  /\ "cancel-plan" \in Commands
  /\ plan[p] \in {"DRAFT"} \cup Live
  /\ RunningOf(p) = {}
  /\ CancelPlans({p})
  /\ UNCHANGED <<queueVars, attempts, runVars, exec, loop, boundVars>>

(* hermesops-transaction rollback, which answers a human gate.  An         *)
(* unlinked run may have no snapshot to roll back to.                      *)
RollBackWaiting(r) ==
  /\ "rollback" \in Commands
  /\ run[r] = "waiting" /\ r \in linked
  /\ SetRun(r, "recovering")
  /\ UNCHANGED <<queueVars, planVars, linked, approvals, prepared, exec, loop, boundVars>>

-----------------------------------------------------------------------------
(* The recovery, and the death of the daemon with all its programs. *)

Recover(r) ==
  /\ ~Driven(r)
  /\ \E s \in Phases :
       /\ <<run[r], s>> \in Lifecycle!RecoveryMoves
       /\ SetRun(r, s)
       /\ approvals' = CASE s = "waiting" -> approvals \cup {r}
                         [] s = "cancelled" -> approvals \ {r}
                         [] OTHER -> approvals
  /\ UNCHANGED <<queueVars, planVars, linked, prepared, exec, loop, boundVars>>

Crash ==
  /\ ~At("down") /\ crashes < MaxCrashes
  /\ crashes' = crashes + 1
  /\ exec' = [t \in Tasks |-> "idle"]
  /\ planner' = {}
  /\ LoopAt("down", {}, {})
  /\ UNCHANGED <<objective, planning, planVars, runVars, faults>>

Next ==
  \/ \E t \in Tasks : ThreadStep(t)
  \/ \E p \in Plans : \/ FinishPlanning(p) \/ Submit(p) \/ Pause(p) \/ Resume(p)
                      \/ Cancel(p) \/ ActivatePlan(p) \/ CancelPlan(p)
  \/ LoopStep
  \/ \E r \in Runs : RollBackWaiting(r) \/ Recover(r)
  \/ Crash

Spec == Init /\ [][Next]_vars

(* Threads and the loop are scheduled, systemd restarts the daemon, and the *)
(* supervisor's sweeps finish what is half rolled back or half integrated. *)
FairSpec ==
  /\ Spec
  /\ WF_vars(LoopStep)
  /\ \A t \in Tasks : WF_vars(ThreadStep(t))
  /\ \A p \in Planned : WF_vars(FinishPlanning(p))
  /\ \A r \in Runs : WF_vars(run[r] \in {"committing", "recovering"} /\ Recover(r))

-----------------------------------------------------------------------------
(* Properties. *)

(* A task never gets ahead of its parents: once it was ready, whatever the  *)
(* retries, gates, cancellations and restarts did since, each of them is   *)
(* and stays COMPLETED.                                                    *)
DependenciesRespected ==
  \A t \in Tasks : task[t] \in {"READY", "RUNNING", "COMPLETED"} =>
    \A q \in Parents[t] : task[q] = "COMPLETED"

(* What is on the default branch is not lost for its plan: while no program *)
(* fails half way, the task of an integrated run is COMPLETED, or still     *)
(* RUNNING, whatever gate, cancellation or restart came in between.        *)
IntegratedIsRecorded ==
  \A t \in Pipelines : Current(t) \in Runs /\ run[Current(t)] = "completed" =>
    task[t] \in {"RUNNING", "COMPLETED"}

(* A pipeline is COMPLETED only if the run of one of its attempts is, unless *)
(* its objective was cancelled: after failures, gates and restarts too.  A  *)
(* completed plan has nothing left behind: no run of it, of whatever        *)
(* attempt, still holds a project or waits for a human.                    *)
CompletedIsSettled ==
  /\ \A t \in Pipelines : task[t] = "COMPLETED" =>
       \/ \E n \in 1 .. attempts[t] : run[<<t, n>>] = "completed"
       \/ CancelWanted(PlanOf[t])
  /\ \A p \in Plans : plan[p] = "COMPLETED" => ActiveRuns(p) = {} /\ ~Gated(p)

(* What is paused, cancelled, failed or completed has no task in execution: *)
(* no thread slips through between the daemon's choice and the reservation. *)
(* A cancelled objective ends only when the runs on record for it have      *)
(* ended, and none of them comes back to life afterwards.  cancel-plan, and *)
(* only that, can leave it runs: they wait for a human or are on their way  *)
(* out, and nothing works on them or integrates them.                      *)
StoppedIsQuiet ==
  \A p \in Plans :
    /\ objective[p] \in {"PAUSED"} \cup Terminal => RunningOf(p) = {}
    /\ objective[p] = "CANCELLED" => \A r \in ActiveRuns(p) :
         run[r] \in {"waiting", "recovering"} /\ "cancel-plan" \in Commands

(* The point of no return: the operator's cancellation and the integrator's *)
(* preparation exclude each other, so that no run of an objective whose    *)
(* cancellation was accepted is ever integrated.                           *)
CancelledIsNotIntegrated ==
  [][\A r \in Runs : run[r] # "completed" /\ run'[r] = "completed"
       => ~CancelWanted(PlanOf[r[1]])]_vars

(* The daemon and the recovery together move a run only as RunTransaction   *)
(* lets its programs do.                                                   *)
KeepsRunLifecycle == Lifecycle!Spec

(* A cancellation request takes effect, also when rollbacks and             *)
(* integrations fail half way, and so does a pause, which waits for the     *)
(* tasks in execution, as long as the daemon itself lives.                 *)
RequestTakesEffect ==
  \A p \in Plans : \A request \in {"CANCEL_REQUESTED", "PAUSE_REQUESTED"} :
    (objective[p] = request) ~> (objective[p] # request)

-----------------------------------------------------------------------------
(* What the documents say and the programs do not do. *)

(* docs/OBJECTIVES.md:11-14, CANCELLED is where a cancellation ends; a      *)
(* planner that outlives it puts the objective back into the queue.        *)
CancelledStaysCancelled ==
  [][\A p \in Plans : objective[p] = "CANCELLED" => objective'[p] = "CANCELLED"]_vars

(* docs/ORCHESTRATION.md:24, a pipeline is complete only after its reviewed *)
(* integration; a cancelled one is recorded COMPLETED.                     *)
CompleteAfterIntegration ==
  \A t \in Pipelines : task[t] = "COMPLETED" =>
    \E n \in 1 .. attempts[t] : run[<<t, n>>] = "completed"

(* docs/OBJECTIVES.md:12-14, a request becomes effective at a safe boundary; *)
(* not when the daemon died with a run open, whose task it keeps RUNNING.  *)
CancelOutlivesDaemon ==
  \A p \in Plans : (objective[p] = "CANCEL_REQUESTED") ~> (objective[p] # "CANCEL_REQUESTED")

(* docs/ORCHESTRATION.md:33-35, an interrupted non-pipeline attempt is      *)
(* retried; not when its plan was blocked by a gate that is gone meanwhile. *)
InterruptedIsRetried ==
  \A t \in Tasks \ Pipelines :
    (task[t] = "READY" /\ attempts[t] > 0 /\ ~Gated(PlanOf[t]))
      ~> (task[t] # "READY" \/ Gated(PlanOf[t]))
=============================================================================
