------------------------- MODULE OrchestrationProofs -------------------------
(* What holds of the orchestrator daemon for any plans, tasks, projects,   *)
(* commands and numbers of attempts, and then of the Controller's commands *)
(* that go on beside it, for any requests, sessions and reviews.  The      *)
(* theorems on the daemon are about Spec and cite nothing of               *)
(* ControllerCommands; those on the commands are about CommandSpec.        *)
EXTENDS ControllerCommands, TLAPS

(* What a thread knows of its task: it has an attempt once it has reserved  *)
(* it, and drives a run only if the task is a pipeline.                     *)
ThreadsTyped ==
  \A t \in Tasks :
    /\ exec[t] \in {"begin", "link", "work", "check", "apply"} => attempts[t] >= 1
    /\ exec[t] \in {"begin", "link", "check", "apply"} => t \in Pipelines

TypeInv == TypeOK /\ ThreadsTyped

(* Until its plan is there, nothing happens in the name of an objective: its *)
(* tasks rest, no run is linked to it, and only one that is to be planned   *)
(* is queued.                                                               *)
NoPlanYet ==
  /\ \A p \in Plans : plan[p] = "NONE" /\ objective[p] # "NONE" => p \in Planned
  /\ \A t \in Tasks : plan[PlanOf[t]] = "NONE" => task[t] = "PENDING" /\ exec[t] = "idle"
  /\ \A r \in linked \cup loop.runs : plan[PlanOf[r[1]]] # "NONE"
  /\ \A p \in planner : plan[p] = "NONE"

(* The threads that have taken their task on, and not yet ended the attempt, *)
(* have one whose parents are done and that is not complete itself; a dead  *)
(* daemon has no threads.                                                   *)
Started == {"READY", "RUNNING", "COMPLETED"}
Inert   == {"idle", "reserve", "refresh"}
OrderKept ==
  /\ DependenciesRespected
  /\ \A t \in Tasks : exec[t] \notin Inert =>
       ParentsDone(t) /\ task[t] \notin {"PENDING", "COMPLETED"}
  /\ At("down") => \A t \in Tasks : exec[t] = "idle"

DaemonInv == TypeInv /\ NoPlanYet /\ OrderKept

-----------------------------------------------------------------------------
LEMMA RollbackNames ==
  /\ RollbackSteps = {"cancel", "gate", "undo"}
  /\ EndOf("cancel") = "cancel.end" /\ EndOf("gate") = "gate.end" /\ EndOf("undo") = "undo.end"
  /\ \A s \in RollbackSteps, c \in BOOLEAN : After(s, c) \in {"succeed", "leave", "wait", "fail"}
  BY DEF RollbackSteps, EndOf, After

LEMMA PhaseNames ==
  /\ {"open", "waiting", "committing", "recovering", "failed", "cancelled", "completed"}
       \subseteq Phases
  /\ Lifecycle!Phases = Phases
  BY DEF Phases, Lifecycle!Phases

LEMMA CurrentTyped ==
  ASSUME TypeOK, NEW t \in Pipelines, attempts[t] >= 1
  PROVE  Current(t) \in Runs
  BY ConstantsAssumption DEF ConstantsAssumption, TypeOK, Current, Runs

-----------------------------------------------------------------------------
(* The building blocks keep the types of what they write. *)

TaskStates == {"PENDING", "READY", "RUNNING"} \cup Bad \cup {"COMPLETED"}
PlanStates == {"NONE", "DRAFT"} \cup Live \cup Terminal
ErrorStates == {"none", "gate", "deferred", "recovery", "pending"}
RowsTyped == /\ task \in [Tasks -> TaskStates]
             /\ plan \in [Plans -> PlanStates]
             /\ planError \in [Plans -> ErrorStates]

LEMMA CancelPlansTyped ==
  ASSUME TypeOK, NEW ps, CancelPlans(ps)
  PROVE  RowsTyped'
  BY DEF TypeOK, CancelPlans, RowsTyped, TaskStates, PlanStates, ErrorStates, Terminal, Bad

LEMMA BlameTyped ==
  ASSUME TypeOK, NEW p, NEW from, NEW s \in PlanStates, NEW e \in ErrorStates,
         Blame(p, from, s, e)
  PROVE  plan' \in [Plans -> PlanStates] /\ planError' \in [Plans -> ErrorStates]
  BY DEF TypeOK, Blame, PlanStates, ErrorStates

LEMMA MoveTaskTyped ==
  ASSUME TypeOK, NEW t, NEW from, NEW s \in TaskStates, MoveTask(t, from, s)
  PROVE  task' \in [Tasks -> TaskStates]
  BY DEF TypeOK, MoveTask, TaskStates

LEMMA StopPlanTyped ==
  ASSUME TypeOK, NEW t, StopPlanOf(t)
  PROVE  task' \in [Tasks -> TaskStates]
  BY DEF TypeOK, StopPlanOf, TaskStates, Bad

LEMMA MarkRecoveryTyped ==
  ASSUME TypeOK, NEW r, MarkRecovery(r)
  PROVE  RowsTyped' /\ run' \in [Runs -> Phases] /\ approvals' \subseteq Runs
  <1>1. task' \in [Tasks -> TaskStates]
    BY MoveTaskTyped DEF MarkRecovery, TaskStates, Bad
  <1>2. plan' \in [Plans -> PlanStates] /\ planError' \in [Plans -> ErrorStates]
    BY BlameTyped DEF MarkRecovery, PlanStates, ErrorStates, Live
  <1> QED
    BY <1>1, <1>2, PhaseNames DEF MarkRecovery, SetRun, TypeOK, RowsTyped

LEMMA SettleTyped ==
  ASSUME TypeOK, NEW p, NEW was \in PlanStates, NEW error \in ErrorStates, NEW statuses,
         SettlePlan(p, was, error, statuses)
  PROVE  plan' \in [Plans -> PlanStates] /\ planError' \in [Plans -> ErrorStates]
  <1>1. \E s \in PlanStates, e \in ErrorStates :
          plan' = [plan EXCEPT ![p] = s] /\ planError' = [planError EXCEPT ![p] = e]
    <2>1. {"BLOCKED", "COMPLETED", "FAILED", "RUNNING"} \subseteq PlanStates
      BY DEF PlanStates, Live, Terminal
    <2>2. {"gate", "none"} \subseteq ErrorStates
      BY DEF ErrorStates
    <2>3. CASE Gated(p) /\ error = "deferred"
      BY <2>1, <2>2, <2>3 DEF SettlePlan
    <2>4. CASE /\ ~(Gated(p) /\ error = "deferred") /\ was = "BLOCKED"
               /\ error \in {"recovery", "pending"} \/ (Gated(p) /\ error = "gate")
      BY <2>1, <2>2, <2>4 DEF SettlePlan
    <2>5. CASE /\ ~(Gated(p) /\ error = "deferred")
               /\ ~(/\ was = "BLOCKED"
                    /\ error \in {"recovery", "pending"} \/ (Gated(p) /\ error = "gate"))
      BY <2>1, <2>2, <2>5 DEF SettlePlan
    <2> QED BY <2>3, <2>4, <2>5
  <1> QED
    BY <1>1 DEF TypeOK, PlanStates, ErrorStates

LEMMA RefreshAsTyped ==
  ASSUME TypeOK, NEW p, NEW was \in PlanStates, NEW error \in ErrorStates,
         RefreshAs(p, was, error)
  PROVE  RowsTyped'
  <1>1. task' \in [Tasks -> TaskStates]
    BY DEF RefreshAs, TypeOK, TaskStates, Bad
  <1>2. plan' \in [Plans -> PlanStates] /\ planError' \in [Plans -> ErrorStates]
    BY SettleTyped DEF RefreshAs
  <1> QED
    BY <1>1, <1>2 DEF RowsTyped

LEMMA RefreshTyped ==
  ASSUME TypeOK, NEW p \in Plans, Refresh(p)
  PROVE  RowsTyped'
  <1>1. plan[p] \in PlanStates /\ planError[p] \in ErrorStates
    BY DEF TypeOK, PlanStates, ErrorStates
  <1>2. RowsTyped
    BY DEF TypeOK, RowsTyped, TaskStates, PlanStates, ErrorStates
  <1>3. CASE plan[p] \in Live
    BY <1>1, <1>3, RefreshAsTyped DEF Refresh
  <1>4. CASE plan[p] \notin Live
    BY <1>2, <1>4 DEF Refresh, RowsTyped
  <1> QED BY <1>3, <1>4

-----------------------------------------------------------------------------
(* Every step keeps the types. *)

LEMMA TypedAgain ==
  ASSUME TypeInv, RowsTyped',
         objective' \in [Plans -> ObjectiveStates], planning' \in [Plans -> 0 .. MaxAttempts],
         planner' \subseteq Planned, attempts' \in [Tasks -> 0 .. MaxAttempts],
         run' \in [Runs -> Phases], linked' \subseteq Runs, approvals' \subseteq Runs,
         prepared' \subseteq Runs, exec' \in [Tasks -> ThreadSteps],
         loop'.step \in LoopSteps, loop'.plans \subseteq Plans, loop'.runs \subseteq Runs,
         faults' \in 0 .. MaxFaults, crashes' \in 0 .. MaxCrashes, ThreadsTyped'
  PROVE  TypeInv'
  BY DEF TypeInv, TypeOK, RowsTyped, TaskStates, PlanStates, ErrorStates, At

(* A step of the thread of t: what it leaves alone is typed as before.      *)
LEMMA ThreadTyped ==
  ASSUME TypeInv, RowsTyped', NEW t \in Tasks, NEW s \in ThreadSteps, Goto(t, s),
         UNCHANGED <<queueVars, loop, crashes>>,
         attempts' \in [Tasks -> 0 .. MaxAttempts], \A q \in Tasks : attempts'[q] >= attempts[q],
         run' \in [Runs -> Phases], linked' \subseteq Runs, approvals' \subseteq Runs,
         prepared' \subseteq Runs, faults' \in 0 .. MaxFaults,
         s \in {"begin", "link", "work", "check", "apply"} => attempts'[t] >= 1,
         s \in {"begin", "link", "check", "apply"} => t \in Pipelines
  PROVE  TypeInv'
  <1>1. exec' \in [Tasks -> ThreadSteps] /\ exec'[t] = s
        /\ \A q \in Tasks \ {t} : exec'[q] = exec[q]
    BY DEF TypeInv, TypeOK, Goto
  <1>2. ThreadsTyped'
    <2>1. ASSUME NEW q \in Tasks \ {t}
          PROVE  /\ exec'[q] \in {"begin", "link", "work", "check", "apply"} => attempts'[q] >= 1
                 /\ exec'[q] \in {"begin", "link", "check", "apply"} => q \in Pipelines
      <3>1. attempts[q] \in Nat /\ attempts'[q] \in Nat /\ attempts'[q] >= attempts[q]
        BY DEF TypeInv, TypeOK
      <3> QED BY <1>1, <2>1, <3>1 DEF TypeInv, ThreadsTyped
    <2> QED BY <1>1, <2>1 DEF ThreadsTyped
  <1>3. UNCHANGED <<objective, planning, planner, loop, crashes>>
    BY DEF queueVars
  <1> QED
    BY <1>1, <1>2, <1>3, TypedAgain DEF TypeInv, TypeOK

LEMMA RowsBefore == TypeOK => RowsTyped
  BY DEF TypeOK, RowsTyped, TaskStates, PlanStates, ErrorStates

LEMMA StartingSteps ==
  ASSUME TypeInv, NEW t \in Tasks,
         ReserveAttempt(t) \/ Begin(t) \/ Link(t) \/ Work(t) \/ Check(t)
  PROVE  TypeInv'
  <1>1. CASE ReserveAttempt(t)
    <2>1. RowsTyped' /\ attempts' \in [Tasks -> 0 .. MaxAttempts]
          /\ \A q \in Tasks : attempts'[q] >= attempts[q]
      BY <1>1, RowsBefore, ConstantsAssumption
      DEF ReserveAttempt, MayStart, SetTask, TypeInv, TypeOK, RowsTyped, TaskStates,
          ConstantsAssumption
    <2>2. \E s \in {"begin", "work", "idle"} :
            /\ Goto(t, s) /\ s = "begin" => t \in Pipelines
            /\ s # "idle" => attempts'[t] >= 1
      BY <1>1 DEF ReserveAttempt, TypeInv, TypeOK
    <2> QED
      BY <1>1, <2>1, <2>2, ThreadTyped
      DEF ReserveAttempt, runVars, boundVars, TypeInv, TypeOK, ThreadSteps
  <1>2. CASE Begin(t)
    <2>1. \E s \in {"link", "fail"} : Goto(t, s)
      BY <1>2 DEF Begin
    <2>2. t \in Pipelines /\ attempts[t] >= 1
      BY <1>2 DEF Begin, TypeInv, ThreadsTyped
    <2>3. run' \in [Runs -> Phases]
      BY <1>2, PhaseNames DEF Begin, SetRun, TypeInv, TypeOK
    <2>4. RowsTyped' /\ UNCHANGED attempts
      BY <1>2, RowsBefore DEF Begin, planVars, TypeInv, RowsTyped
    <2> QED
      BY <1>2, <2>1, <2>2, <2>3, <2>4, ThreadTyped
      DEF Begin, boundVars, TypeInv, TypeOK, ThreadSteps
  <1>3. CASE Link(t)
    <2>1. \E s \in {"work", "fail"} : Goto(t, s)
      BY <1>3 DEF Link
    <2>2. t \in Pipelines /\ attempts[t] >= 1 /\ Current(t) \in Runs
      BY <1>3, CurrentTyped DEF Link, TypeInv, ThreadsTyped
    <2>3. run' \in [Runs -> Phases] /\ linked' \subseteq Runs
      BY <1>3, <2>2, PhaseNames DEF Link, SetRun, TypeInv, TypeOK
    <2>4. RowsTyped' /\ UNCHANGED attempts
      BY <1>3, RowsBefore DEF Link, planVars, TypeInv, RowsTyped
    <2> QED
      BY <1>3, <2>1, <2>2, <2>3, <2>4, ThreadTyped
      DEF Link, boundVars, TypeInv, TypeOK, ThreadSteps
  <1>4. CASE Work(t)
    <2>1. \E s \in {"check", "undo", "succeed", "fail"} :
            Goto(t, s) /\ s = "check" => t \in Pipelines
      BY <1>4 DEF Work
    <2>2. attempts[t] >= 1
      BY <1>4 DEF Work, TypeInv, ThreadsTyped
    <2>3. RowsTyped' /\ UNCHANGED attempts
      BY <1>4, RowsBefore DEF Work, planVars, TypeInv, RowsTyped
    <2> QED
      BY <1>4, <2>1, <2>2, <2>3, ThreadTyped
      DEF Work, runVars, boundVars, TypeInv, TypeOK, ThreadSteps, RollbackSteps
  <1>5. CASE Check(t)
    <2>1. \E s \in {"cancel", "gate", "apply"} : Goto(t, s)
      BY <1>5 DEF Check
    <2>2. t \in Pipelines /\ attempts[t] >= 1
      BY <1>5 DEF Check, TypeInv, ThreadsTyped
    <2>3. RowsTyped' /\ UNCHANGED attempts
      BY <1>5, RowsBefore DEF Check, planVars, TypeInv, RowsTyped
    <2> QED
      BY <1>5, <2>1, <2>2, <2>3, ThreadTyped
      DEF Check, runVars, boundVars, TypeInv, TypeOK, ThreadSteps, RollbackSteps
  <1> QED BY <1>1, <1>2, <1>3, <1>4, <1>5

LEMMA IntegrationSteps ==
  ASSUME TypeInv, NEW t \in Tasks, Apply(t) \/ Commit(t)
  PROVE  TypeInv'
  <1>1. CASE Apply(t)
    <2>1. \E s \in {"cancel", "gate", "wait", "commit", "undo"} : Goto(t, s)
      BY <1>1 DEF Apply
    <2>2. Current(t) \in Runs
      BY <1>1, CurrentTyped DEF Apply, TypeInv, ThreadsTyped
    <2>3. run' \in [Runs -> Phases] /\ approvals' \subseteq Runs /\ prepared' \subseteq Runs
      BY <1>1, <2>2, PhaseNames DEF Apply, SetRun, TypeInv, TypeOK
    <2>4. RowsTyped' /\ UNCHANGED attempts
      BY <1>1, RowsBefore DEF Apply, planVars, TypeInv, RowsTyped
    <2> QED
      BY <1>1, <2>1, <2>3, <2>4, ThreadTyped
      DEF Apply, boundVars, TypeInv, TypeOK, ThreadSteps, RollbackSteps
  <1>2. CASE Commit(t)
    <2>1. \E s \in {"succeed", "undo"} : Goto(t, s)
      BY <1>2 DEF Commit
    <2>2. run' \in [Runs -> Phases] /\ faults' \in 0 .. MaxFaults
      BY <1>2, PhaseNames, ConstantsAssumption
      DEF Commit, SetRun, TypeInv, TypeOK, ConstantsAssumption
    <2>3. RowsTyped' /\ UNCHANGED attempts
      BY <1>2, RowsBefore DEF Commit, planVars, TypeInv, RowsTyped
    <2> QED
      BY <1>2, <2>1, <2>2, <2>3, ThreadTyped
      DEF Commit, TypeInv, TypeOK, ThreadSteps, RollbackSteps
  <1> QED BY <1>1, <1>2

LEMMA RollbackStepsTyped ==
  ASSUME TypeInv, NEW t \in Tasks, Rollback(t) \/ RollbackEnd(t)
  PROVE  TypeInv'
  <1> DEFINE Ends == {"succeed", "leave", "wait", "fail"}
  <1>1. CASE Rollback(t)
    <2>1. exec[t] \in RollbackSteps
      BY <1>1 DEF Rollback
    <2>2. \E s \in Ends \cup {"cancel.end", "gate.end", "undo.end"} : Goto(t, s)
      BY <1>1, <2>1, RollbackNames DEF Rollback
    <2>3. RowsTyped' /\ run' \in [Runs -> Phases] /\ approvals' \subseteq Runs
      <3>1. CASE UNCHANGED <<run, approvals, task, plan, planError>>
        BY <3>1, RowsBefore DEF TypeInv, TypeOK, RowsTyped
      <3>2. CASE MarkRecovery(Current(t))
        BY <3>2, MarkRecoveryTyped DEF TypeInv
      <3>3. CASE SetRun(Current(t), "recovering") /\ UNCHANGED <<approvals, task, plan, planError>>
        BY <3>3, RowsBefore, PhaseNames DEF SetRun, TypeInv, TypeOK, RowsTyped
      <3> QED BY <1>1, <3>1, <3>2, <3>3 DEF Rollback
    <2> QED
      BY <1>1, <2>2, <2>3, ThreadTyped
      DEF Rollback, boundVars, TypeInv, TypeOK, ThreadSteps, RollbackSteps, EndOf
  <1>2. CASE RollbackEnd(t)
    <2>1. PICK step \in RollbackSteps :
            \/ SetRun(Current(t), "cancelled") /\ approvals' = approvals \ {Current(t)}
               /\ Goto(t, After(step, TRUE)) /\ UNCHANGED <<task, plan, planError, faults>>
            \/ /\ faults < MaxFaults /\ faults' = faults + 1
               /\ MarkRecovery(Current(t)) /\ Goto(t, After(step, FALSE))
      BY <1>2 DEF RollbackEnd
    <2>2. \E s \in Ends : Goto(t, s)
      BY <2>1, RollbackNames
    <2>3. RowsTyped' /\ run' \in [Runs -> Phases] /\ approvals' \subseteq Runs
      <3>1. CASE SetRun(Current(t), "cancelled") /\ approvals' = approvals \ {Current(t)}
                 /\ UNCHANGED <<task, plan, planError>>
        <4>1. RowsTyped'
          BY <3>1, RowsBefore DEF TypeInv, RowsTyped
        <4> QED
          BY <3>1, <4>1, PhaseNames DEF SetRun, TypeInv, TypeOK
      <3>2. CASE MarkRecovery(Current(t))
        BY <3>2, MarkRecoveryTyped DEF TypeInv
      <3> QED
        BY <2>1, <3>1, <3>2
    <2>4. faults' \in 0 .. MaxFaults
      <3>1. faults' = faults \/ (faults < MaxFaults /\ faults' = faults + 1)
        BY <2>1
      <3> QED BY <3>1, ConstantsAssumption DEF TypeInv, TypeOK, ConstantsAssumption
    <2> QED
      BY <1>2, <2>2, <2>3, <2>4, ThreadTyped
      DEF RollbackEnd, TypeInv, TypeOK, ThreadSteps
  <1> QED BY <1>1, <1>2

LEMMA FinishingSteps ==
  ASSUME TypeInv, NEW t \in Tasks,
         \/ FinishSuccess(t) \/ FinishWaitingHuman(t) \/ FinishCancellationRecovery(t)
         \/ FinishFailure(t) \/ FinishRefresh(t)
  PROVE  TypeInv'
  <1>1. PlanOf[t] \in Plans
    BY ConstantsAssumption DEF ConstantsAssumption
  <1>2. RowsTyped'
    <2>1. CASE FinishSuccess(t)
      <3>1. task' \in [Tasks -> TaskStates]
        BY <2>1, MoveTaskTyped DEF FinishSuccess, TypeInv, TaskStates, Bad
      <3> QED BY <2>1, <3>1, RowsBefore DEF FinishSuccess, TypeInv, RowsTyped
    <2>2. CASE FinishWaitingHuman(t)
      <3>1. task' \in [Tasks -> TaskStates]
        BY <2>2, MoveTaskTyped, StopPlanTyped DEF FinishWaitingHuman, TypeInv, TaskStates, Bad
      <3>2. PICK s \in PlanStates, e \in ErrorStates :
              \/ Blame(PlanOf[t], Live, s, e) \/ Blame(PlanOf[t], {"READY", "RUNNING"}, s, e)
        <4>1. /\ "BLOCKED" \in PlanStates /\ {"recovery", "pending", "deferred", "gate"} \subseteq ErrorStates
              /\ plan[PlanOf[t]] \in PlanStates
          BY <1>1 DEF TypeInv, TypeOK, PlanStates, ErrorStates, Live
        <4> QED BY <2>2, <4>1 DEF FinishWaitingHuman
      <3>3. plan' \in [Plans -> PlanStates] /\ planError' \in [Plans -> ErrorStates]
        BY <3>2, BlameTyped DEF TypeInv
      <3> QED BY <3>1, <3>3 DEF RowsTyped
    <2>3. CASE FinishCancellationRecovery(t)
      <3>1. task' \in [Tasks -> TaskStates]
        BY <2>3, StopPlanTyped DEF FinishCancellationRecovery, TypeInv
      <3>2. plan' \in [Plans -> PlanStates] /\ planError' \in [Plans -> ErrorStates]
        BY <2>3, BlameTyped DEF FinishCancellationRecovery, TypeInv, PlanStates, ErrorStates, Live
      <3> QED BY <3>1, <3>2 DEF RowsTyped
    <2>4. CASE FinishFailure(t)
      <3>1. Retry(t) \in TaskStates
        BY DEF Retry, TaskStates, Bad
      <3>2. task' \in [Tasks -> TaskStates]
        BY <2>4, <3>1, MoveTaskTyped, RowsBefore
        DEF FinishFailure, SetTask, TypeInv, TaskStates, Bad, RowsTyped
      <3> QED BY <2>4, <3>2, RowsBefore DEF FinishFailure, TypeInv, RowsTyped
    <2>5. CASE FinishRefresh(t)
      BY <1>1, <2>5, RefreshTyped DEF FinishRefresh, TypeInv
    <2> QED BY <2>1, <2>2, <2>3, <2>4, <2>5
  <1>3. \E s \in {"refresh", "idle"} : Goto(t, s)
    BY DEF FinishSuccess, FinishWaitingHuman, FinishCancellationRecovery, FinishFailure,
           FinishRefresh
  <1>4. UNCHANGED <<queueVars, attempts, runVars, loop, boundVars>>
    BY DEF FinishSuccess, FinishWaitingHuman, FinishCancellationRecovery, FinishFailure,
           FinishRefresh
  <1> QED
    BY <1>2, <1>3, <1>4, ThreadTyped DEF runVars, boundVars, TypeInv, TypeOK, ThreadSteps

LEMMA ThreadStepsTyped ==
  ASSUME TypeInv, NEW t \in Tasks, ThreadStep(t)
  PROVE  TypeInv'
  BY StartingSteps, IntegrationSteps, RollbackStepsTyped, FinishingSteps DEF ThreadStep

(* A step that no thread takes, and that leaves the attempts alone.         *)
LEMMA OtherTyped ==
  ASSUME TypeInv, RowsTyped', UNCHANGED <<attempts, linked, prepared>>,
         objective' \in [Plans -> ObjectiveStates], planning' \in [Plans -> 0 .. MaxAttempts],
         planner' \subseteq Planned, run' \in [Runs -> Phases], approvals' \subseteq Runs,
         exec' \in [Tasks -> ThreadSteps],
         \A t \in Tasks : exec'[t] \in {exec[t], "idle", "reserve"},
         loop'.step \in LoopSteps, loop'.plans \subseteq Plans, loop'.runs \subseteq Runs,
         faults' \in 0 .. MaxFaults, crashes' \in 0 .. MaxCrashes
  PROVE  TypeInv'
  <1>1. ThreadsTyped'
    <2>1. ASSUME NEW t \in Tasks
          PROVE  /\ exec'[t] \in {"begin", "link", "work", "check", "apply"} => attempts'[t] >= 1
                 /\ exec'[t] \in {"begin", "link", "check", "apply"} => t \in Pipelines
      BY DEF TypeInv, ThreadsTyped
    <2> QED BY <2>1 DEF ThreadsTyped
  <1> QED
    BY <1>1, TypedAgain DEF TypeInv, TypeOK

(* The same for a step that leaves the main loop and the threads alone.     *)
LEMMA CommandTyped ==
  ASSUME TypeInv, RowsTyped', UNCHANGED <<attempts, linked, prepared, exec, loop, boundVars>>,
         objective' \in [Plans -> ObjectiveStates], planning' \in [Plans -> 0 .. MaxAttempts],
         planner' \subseteq Planned, run' \in [Runs -> Phases], approvals' \subseteq Runs
  PROVE  TypeInv'
  BY OtherTyped DEF TypeInv, TypeOK, boundVars

LEMMA StateNames ==
  /\ {"QUEUED", "PLANNING", "RUNNING", "PAUSE_REQUESTED", "PAUSED", "CANCEL_REQUESTED",
      "COMPLETED", "FAILED", "CANCELLED"} \subseteq ObjectiveStates
  /\ Terminal \subseteq ObjectiveStates
  /\ {"NONE", "DRAFT", "READY", "RUNNING", "BLOCKED", "CANCELLED"} \subseteq PlanStates
  /\ {"none"} \subseteq ErrorStates
  /\ {"READY", "RUNNING", "COMPLETED", "FAILED", "CANCELLED"} \subseteq TaskStates
  BY DEF ObjectiveStates, Terminal, PlanStates, ErrorStates, TaskStates, Live, Bad

LEMMA PlanningStep ==
  ASSUME TypeInv, NEW p \in Plans, FinishPlanning(p)
  PROVE  TypeInv'
  <1>1. objective' \in [Plans -> ObjectiveStates]
    BY StateNames DEF FinishPlanning, PlanningFails, TypeInv, TypeOK
  <1>2. RowsTyped'
    BY StateNames, RowsBefore DEF FinishPlanning, TypeInv, RowsTyped
  <1> QED
    BY <1>1, <1>2, CommandTyped DEF FinishPlanning, runVars, TypeInv, TypeOK

LEMMA LoopTyped ==
  ASSUME TypeInv, RowsTyped', UNCHANGED <<planning, planner, attempts, runVars, exec, boundVars>>,
         objective' \in [Plans -> ObjectiveStates],
         NEW step \in LoopSteps, NEW plans \in SUBSET Plans, LoopAt(step, plans, {})
  PROVE  TypeInv'
  BY OtherTyped DEF TypeInv, TypeOK, LoopAt, runVars, boundVars

LEMMA LoopSteps1 ==
  ASSUME TypeInv,
         \/ Start \/ RefreshNext("startup") \/ RefreshNext("refresh") \/ ReconcileObjectives
         \/ Synchronize \/ RefreshPromoted \/ Promote
  PROVE  TypeInv'
  <1> USE DEF LoopSteps
  <1>1. CASE Start
    <2>1. task' \in [Tasks -> TaskStates]
      <3>1. \A t \in Tasks : Reconciled(t) \in TaskStates
        BY StateNames, RowsBefore DEF Reconciled, Retry, TypeInv, RowsTyped
      <3> QED BY <1>1, <3>1 DEF Start
    <2>2. RowsTyped'
      BY <1>1, <2>1, RowsBefore DEF Start, TypeInv, RowsTyped
    <2>3. \E plans \in SUBSET Plans : LoopAt("startup", plans, {})
      BY <1>1, ConstantsAssumption DEF Start, ConstantsAssumption
    <2> QED
      BY <1>1, <2>2, <2>3, LoopTyped DEF Start, queueVars, TypeInv, TypeOK
  <1>2. ASSUME NEW step \in {"startup", "refresh"}, RefreshNext(step)
        PROVE  TypeInv'
    <2>1. PICK p \in loop.plans : Refresh(p) /\ LoopAt(step, loop.plans \ {p}, {})
      BY <1>2 DEF RefreshNext
    <2>2. p \in Plans /\ loop.plans \ {p} \in SUBSET Plans
      BY DEF TypeInv, TypeOK
    <2>3. RowsTyped'
      BY <2>1, <2>2, RefreshTyped DEF TypeInv
    <2> QED
      BY <1>2, <2>1, <2>2, <2>3, LoopTyped DEF RefreshNext, queueVars, TypeInv, TypeOK
  <1>3. CASE ReconcileObjectives
    <2>1. objective' \in [Plans -> ObjectiveStates]
      BY <1>3, StateNames DEF ReconcileObjectives, TypeInv, TypeOK
    <2>2. RowsTyped'
      BY <1>3, RowsBefore DEF ReconcileObjectives, planVars, TypeInv, RowsTyped
    <2> QED
      BY <1>3, <2>1, <2>2, LoopTyped DEF ReconcileObjectives, planVars
  <1>4. CASE Synchronize
    <2>1. objective' \in [Plans -> ObjectiveStates]
      BY <1>4, StateNames DEF Synchronize, Synchronized, TypeInv, TypeOK, Terminal
    <2>2. RowsTyped'
      BY <1>4, CancelPlansTyped DEF Synchronize, TypeInv
    <2> QED
      BY <1>4, <2>1, <2>2, LoopTyped DEF Synchronize
  <1>5. CASE RefreshPromoted
    <2>1. RowsTyped'
      BY <1>5, RefreshTyped DEF RefreshPromoted, TypeInv, TypeOK
    <2> QED
      BY <1>5, <2>1, LoopTyped DEF RefreshPromoted, queueVars, TypeInv, TypeOK
  <1>6. CASE Promote
    <2>1. PICK p \in loop.plans :
            IF objective[p] = "QUEUED"
              THEN /\ objective' = [objective EXCEPT ![p] =
                                      IF plan[p] \in Terminal THEN plan[p] ELSE "RUNNING"]
                   /\ IF plan[p] = "DRAFT" THEN Blame(p, {"DRAFT"}, "READY", "none")
                                           ELSE UNCHANGED <<plan, planError>>
                   /\ LoopAt("promoted", {p}, {})
              ELSE LeaveDispatch /\ UNCHANGED <<objective, plan, planError>>
      BY <1>6 DEF Promote
    <2>2. p \in Plans
      BY DEF TypeInv, TypeOK
    <2>3. objective' \in [Plans -> ObjectiveStates]
      BY <2>1, StateNames DEF TypeInv, TypeOK
    <2>4. RowsTyped'
      <3>1. CASE Blame(p, {"DRAFT"}, "READY", "none")
        BY <1>6, <3>1, BlameTyped, StateNames, RowsBefore DEF Promote, TypeInv, RowsTyped
      <3>2. CASE UNCHANGED <<plan, planError>>
        BY <1>6, <3>2, RowsBefore DEF Promote, TypeInv, RowsTyped
      <3> QED BY <2>1, <3>1, <3>2
    <2>5. \E step \in {"promoted", "refresh"}, plans \in SUBSET Plans : LoopAt(step, plans, {})
      BY <2>1, <2>2 DEF LeaveDispatch
    <2> QED
      BY <1>6, <2>3, <2>4, <2>5, LoopTyped DEF Promote
  <1> QED BY <1>1, <1>2, <1>3, <1>4, <1>5, <1>6

LEMMA LoopSteps2 ==
  ASSUME TypeInv, NoPlanYet, CleanWaiting \/ CleanWaitingEnd \/ Dispatch \/ SubmitRunnable
  PROVE  TypeInv'
  <1> USE DEF LoopSteps
  <1>1. CASE CleanWaiting
    <2>1. run' \in [Runs -> Phases]
      BY <1>1, PhaseNames DEF CleanWaiting, SetRun, TypeInv, TypeOK
    <2>2. loop'.step \in LoopSteps /\ loop'.plans \subseteq Plans /\ loop'.runs \subseteq Runs
      BY <1>1 DEF CleanWaiting, LoopAt, WaitingCancelled, TypeInv, TypeOK
    <2>3. RowsTyped'
      BY <1>1, RowsBefore DEF CleanWaiting, planVars, TypeInv, RowsTyped
    <2> QED
      BY <1>1, <2>1, <2>2, <2>3, OtherTyped
      DEF CleanWaiting, queueVars, planVars, boundVars, TypeInv, TypeOK
  <1>2. CASE CleanWaitingEnd
    <2>1. PICK r \in loop.runs :
            \/ /\ SetRun(r, "cancelled") /\ approvals' = approvals \ {r}
               /\ UNCHANGED <<task, plan, planError, faults>>
            \/ /\ faults < MaxFaults /\ faults' = faults + 1
               /\ MarkRecovery(r)
      BY <1>2 DEF CleanWaitingEnd
    <2>2. RowsTyped' /\ run' \in [Runs -> Phases] /\ approvals' \subseteq Runs
      <3>1. CASE SetRun(r, "cancelled") /\ approvals' = approvals \ {r}
                 /\ UNCHANGED <<task, plan, planError>>
        <4>1. RowsTyped'
          BY <3>1, RowsBefore DEF TypeInv, RowsTyped
        <4> QED
          BY <3>1, <4>1, PhaseNames DEF SetRun, TypeInv, TypeOK
      <3>2. CASE MarkRecovery(r)
        BY <3>2, MarkRecoveryTyped DEF TypeInv
      <3> QED
        BY <2>1, <3>1, <3>2
    <2>3. faults' \in 0 .. MaxFaults
      <3>1. faults' = faults \/ (faults < MaxFaults /\ faults' = faults + 1)
        BY <2>1
      <3> QED BY <3>1, ConstantsAssumption DEF TypeInv, TypeOK, ConstantsAssumption
    <2>4. LoopAt("list", {}, {})
      BY <1>2 DEF CleanWaitingEnd
    <2> QED
      BY <1>2, <2>2, <2>3, <2>4, OtherTyped
      DEF CleanWaitingEnd, queueVars, LoopAt, TypeInv, TypeOK
  <1>3. CASE Dispatch
    <2>1. RowsTyped'
      BY <1>3, RowsBefore DEF Dispatch, planVars, TypeInv, RowsTyped
    <2>2. /\ objective' \in [Plans -> ObjectiveStates]
          /\ planning' \in [Plans -> 0 .. MaxAttempts] /\ planner' \subseteq Planned
          /\ \E step \in {"promote", "refresh", "dispatch"}, plans \in SUBSET Plans :
               LoopAt(step, plans, {})
      <3>1. CASE LeaveDispatch /\ UNCHANGED queueVars
        BY <3>1 DEF LeaveDispatch, queueVars, TypeInv, TypeOK
      <3>2. CASE \E p \in Plans : LoopAt("promote", {p}, {}) /\ UNCHANGED queueVars
        BY <3>2 DEF queueVars, TypeInv, TypeOK
      <3>3. CASE \E p \in Plans : /\ objective' = [objective EXCEPT ![p] = "FAILED"]
                                  /\ LeaveDispatch /\ UNCHANGED <<planning, planner>>
        BY <3>3, StateNames DEF LeaveDispatch, TypeInv, TypeOK
      <3>4. CASE \E p \in Plans : /\ objective[p] = "QUEUED" /\ plan[p] = "NONE"
                                  /\ planner = {} /\ planning[p] # MaxAttempts
                                  /\ objective' = [objective EXCEPT ![p] = "PLANNING"]
                                  /\ planning' = [planning EXCEPT ![p] = @ + 1]
                                  /\ planner' = {p}
                                  /\ LoopAt("dispatch", {}, {})
        <4>1. PICK p \in Plans : /\ objective[p] = "QUEUED" /\ plan[p] = "NONE"
                                 /\ planning[p] # MaxAttempts
                                 /\ objective' = [objective EXCEPT ![p] = "PLANNING"]
                                 /\ planning' = [planning EXCEPT ![p] = @ + 1]
                                 /\ planner' = {p}
                                 /\ LoopAt("dispatch", {}, {})
          BY <3>4
        <4>2. p \in Planned
          BY <4>1 DEF NoPlanYet
        <4>3. planning'[p] \in 0 .. MaxAttempts
          BY <4>1, ConstantsAssumption DEF ConstantsAssumption, TypeInv, TypeOK
        <4> QED BY <4>1, <4>2, <4>3, StateNames DEF TypeInv, TypeOK
      <3> QED BY <1>3, <3>1, <3>2, <3>3, <3>4 DEF Dispatch
    <2> QED
      BY <1>3, <2>1, <2>2, OtherTyped
      DEF Dispatch, LoopAt, planVars, runVars, boundVars, TypeInv, TypeOK
  <1>4. CASE SubmitRunnable
    <2>1. exec' \in [Tasks -> ThreadSteps] /\ \A t \in Tasks : exec'[t] \in {exec[t], "reserve"}
      BY <1>4 DEF SubmitRunnable, ThreadSteps, TypeInv, TypeOK
    <2>2. RowsTyped'
      BY <1>4, RowsBefore DEF SubmitRunnable, planVars, TypeInv, RowsTyped
    <2> QED
      BY <1>4, <2>1, <2>2, OtherTyped
      DEF SubmitRunnable, LoopAt, queueVars, planVars, runVars, boundVars, TypeInv, TypeOK
  <1> QED BY <1>1, <1>2, <1>3, <1>4

LEMMA CommandSteps ==
  ASSUME TypeInv, NEW p \in Plans,
         Submit(p) \/ Pause(p) \/ Resume(p) \/ Cancel(p) \/ ActivatePlan(p) \/ CancelPlan(p)
  PROVE  TypeInv'
  <1>1. objective' \in [Plans -> ObjectiveStates]
    <2>1. plan[p] \in Terminal => plan[p] \in ObjectiveStates
      BY StateNames
    <2> QED
      BY <2>1, StateNames DEF Submit, Pause, Resume, Cancel, ActivatePlan, CancelPlan, queueVars,
                              TypeInv, TypeOK
  <1>2. RowsTyped'
    <2>1. CASE Submit(p)
      BY <2>1, StateNames, RowsBefore DEF Submit, TypeInv, RowsTyped
    <2>2. CASE Pause(p) \/ Resume(p)
      BY <2>2, RowsBefore DEF Pause, Resume, planVars, TypeInv, RowsTyped
    <2>3. CASE Cancel(p)
      BY <2>3, CancelPlansTyped, RowsBefore DEF Cancel, TypeInv, RowsTyped
    <2>4. CASE ActivatePlan(p)
      BY <2>4, RefreshAsTyped, StateNames
      DEF ActivatePlan, TypeInv, PlanStates, Live, ErrorStates
    <2>5. CASE CancelPlan(p)
      BY <2>5, CancelPlansTyped DEF CancelPlan, TypeInv
    <2> QED BY <2>1, <2>2, <2>3, <2>4, <2>5
  <1>3. UNCHANGED <<planning, planner, attempts, runVars, exec, loop, boundVars>>
    BY DEF Submit, Pause, Resume, Cancel, ActivatePlan, CancelPlan, queueVars, planVars
  <1> QED
    BY <1>1, <1>2, <1>3, CommandTyped DEF runVars, TypeInv, TypeOK

LEMMA RunSteps ==
  ASSUME TypeInv, NEW r \in Runs, RollBackWaiting(r) \/ Recover(r)
  PROVE  TypeInv'
  <1>1. run' \in [Runs -> Phases] /\ approvals' \subseteq Runs
    BY PhaseNames DEF RollBackWaiting, Recover, SetRun, TypeInv, TypeOK
  <1>2. RowsTyped' /\ UNCHANGED <<queueVars, attempts, linked, prepared, exec, loop, boundVars>>
    BY RowsBefore DEF RollBackWaiting, Recover, planVars, TypeInv, RowsTyped
  <1> QED
    BY <1>1, <1>2, CommandTyped DEF queueVars, TypeInv, TypeOK

LEMMA CrashTyped ==
  ASSUME TypeInv, Crash
  PROVE  TypeInv'
  <1>1. RowsTyped'
    BY RowsBefore DEF Crash, planVars, TypeInv, RowsTyped
  <1>2. crashes' \in 0 .. MaxCrashes
    BY ConstantsAssumption DEF Crash, ConstantsAssumption, TypeInv, TypeOK
  <1>3. exec' \in [Tasks -> ThreadSteps] /\ \A t \in Tasks : exec'[t] = "idle"
    BY DEF Crash, ThreadSteps
  <1> QED
    BY <1>1, <1>2, <1>3, OtherTyped
    DEF Crash, LoopAt, LoopSteps, planVars, runVars, TypeInv, TypeOK

LEMMA TypeInvStep ==
  ASSUME TypeInv, NoPlanYet, [Next]_vars
  PROVE  TypeInv'
  <1>1. CASE UNCHANGED vars
    BY <1>1 DEF vars, queueVars, planVars, runVars, boundVars, TypeInv, TypeOK, ThreadsTyped, At
  <1>2. CASE LoopStep
    BY <1>2, LoopSteps1, LoopSteps2 DEF LoopStep
  <1>3. CASE \E t \in Tasks : ThreadStep(t)
    BY <1>3, ThreadStepsTyped
  <1>4. CASE \E p \in Plans : \/ FinishPlanning(p) \/ Submit(p) \/ Pause(p) \/ Resume(p)
                              \/ Cancel(p) \/ ActivatePlan(p) \/ CancelPlan(p)
    BY <1>4, PlanningStep, CommandSteps
  <1>5. CASE \E r \in Runs : RollBackWaiting(r) \/ Recover(r)
    BY <1>5, RunSteps
  <1>6. CASE Crash
    BY <1>6, CrashTyped
  <1> QED BY <1>1, <1>2, <1>3, <1>4, <1>5, <1>6 DEF Next

LEMMA DaemonInvInit == Init => DaemonInv
  <1> SUFFICES ASSUME Init PROVE DaemonInv
    OBVIOUS
  <1>1. TypeOK
    <2>1. /\ objective \in [Plans -> ObjectiveStates] /\ planning \in [Plans -> 0 .. MaxAttempts]
          /\ planner \subseteq Planned /\ plan \in [Plans -> PlanStates]
          /\ planError \in [Plans -> ErrorStates]
      BY ConstantsAssumption
      DEF Init, ConstantsAssumption, ObjectiveStates, PlanStates, ErrorStates
    <2>2. task \in [Tasks -> TaskStates] /\ attempts \in [Tasks -> 0 .. MaxAttempts]
          /\ exec \in [Tasks -> ThreadSteps]
      BY ConstantsAssumption DEF Init, ConstantsAssumption, TaskStates, ThreadSteps
    <2>3. run \in [Runs -> Phases]
      BY DEF Init, Phases, Lifecycle!Phases
    <2>4. /\ linked \subseteq Runs /\ approvals \subseteq Runs /\ prepared \subseteq Runs
          /\ loop.step \in LoopSteps /\ loop.plans \subseteq Plans /\ loop.runs \subseteq Runs
          /\ faults \in 0 .. MaxFaults /\ crashes \in 0 .. MaxCrashes
      BY ConstantsAssumption DEF Init, ConstantsAssumption, LoopSteps
    <2> QED BY <2>1, <2>2, <2>3, <2>4 DEF TypeOK, TaskStates, PlanStates, ErrorStates
  <1>2. ThreadsTyped
    BY DEF Init, ThreadsTyped
  <1>3. NoPlanYet
    BY DEF Init, NoPlanYet
  <1>4. OrderKept
    BY DEF Init, OrderKept, DependenciesRespected, Inert
  <1> QED BY <1>1, <1>2, <1>3, <1>4 DEF DaemonInv, TypeInv

-----------------------------------------------------------------------------
(* What a step may do to a task and to its thread: leave COMPLETED alone,   *)
(* start the task only behind its parents, and complete it only as the     *)
(* attempt ends.                                                           *)
TaskMove(q) ==
  \/ task'[q] = task[q]
  \/ /\ task[q] # "COMPLETED" /\ task'[q] # "PENDING"
     /\ task'[q] \in Started => ParentsDone(q)
     /\ task'[q] = "COMPLETED" => exec'[q] \in Inert
ThreadMove(q) == exec'[q] \in Inert \/ exec[q] \notin Inert \/ task'[q] = "RUNNING"
RestsYet(q) == plan[PlanOf[q]] = "NONE" =>
                 plan'[PlanOf[q]] # "NONE" \/ UNCHANGED <<task[q], exec[q]>>

LEMMA OrderKeptAgain ==
  ASSUME DaemonInv, \A q \in Tasks : TaskMove(q) /\ ThreadMove(q),
         At("down")' => \A t \in Tasks : exec'[t] = "idle"
  PROVE  OrderKept'
  <1>1. \A q \in Tasks : task[q] = "COMPLETED" => task'[q] = "COMPLETED"
    BY DEF TaskMove
  <1>2. \A t \in Tasks : ParentsDone(t) => ParentsDone(t)'
    BY <1>1, ConstantsAssumption DEF ParentsDone, ConstantsAssumption
  <1>3. \A t \in Tasks : task'[t] \in Started => ParentsDone(t)'
    BY <1>2 DEF TaskMove, DaemonInv, OrderKept, DependenciesRespected, Started, ParentsDone
  <1>4. ASSUME NEW t \in Tasks, exec'[t] \notin Inert
        PROVE  ParentsDone(t)' /\ task'[t] \notin {"PENDING", "COMPLETED"}
    <2>1. CASE exec[t] \notin Inert
      <3>1. ParentsDone(t) /\ task[t] \notin {"PENDING", "COMPLETED"}
        BY <2>1 DEF DaemonInv, OrderKept
      <3> QED BY <1>2, <1>4, <3>1 DEF TaskMove
    <2>2. CASE task'[t] = "RUNNING"
      BY <1>3, <2>2 DEF Started
    <2> QED BY <1>4, <2>1, <2>2 DEF ThreadMove
  <1> QED
    BY <1>3, <1>4 DEF OrderKept, DependenciesRespected, Started, ParentsDone

PlansStay == \A p \in Plans : plan'[p] = "NONE" <=> plan[p] = "NONE"
Moves == \A q \in Tasks : TaskMove(q) /\ ThreadMove(q) /\ RestsYet(q)

LEMMA NoPlanAgain ==
  ASSUME DaemonInv, PlansStay, \A q \in Tasks : RestsYet(q),
         \A r \in linked' \cup loop'.runs : plan[PlanOf[r[1]]] # "NONE" /\ PlanOf[r[1]] \in Plans,
         \A p \in planner' : p \in Plans /\ plan[p] = "NONE",
         \A p \in Plans : objective[p] = "NONE" => objective'[p] = "NONE"
  PROVE  NoPlanYet'
  BY ConstantsAssumption
  DEF ConstantsAssumption, DaemonInv, NoPlanYet, PlansStay, RestsYet

(* The runs on record, and those the loop rolls back, belong to plans.      *)
LEMMA RecordedRuns ==
  ASSUME DaemonInv, NEW r \in linked \cup loop.runs
  PROVE  r \in Runs /\ r[1] \in Tasks /\ PlanOf[r[1]] \in Plans /\ plan[PlanOf[r[1]]] # "NONE"
  <1>1. r \in Runs
    BY DEF DaemonInv, TypeInv, TypeOK
  <1>2. r[1] \in Tasks /\ PlanOf[r[1]] \in Plans
    BY <1>1, ConstantsAssumption DEF Runs, ConstantsAssumption
  <1> QED BY <1>1, <1>2 DEF DaemonInv, NoPlanYet

LEMMA PlannersTyped ==
  ASSUME DaemonInv, NEW p \in planner
  PROVE  p \in Plans /\ plan[p] = "NONE"
  BY ConstantsAssumption DEF ConstantsAssumption, DaemonInv, TypeInv, TypeOK, NoPlanYet

(* A thread that is not idle serves a plan.                                 *)
LEMMA BusyHasPlan ==
  ASSUME DaemonInv, NEW t \in Tasks, exec[t] # "idle"
  PROVE  PlanOf[t] \in Plans /\ plan[PlanOf[t]] # "NONE"
  BY ConstantsAssumption DEF ConstantsAssumption, DaemonInv, NoPlanYet

LEMMA NothingMoves ==
  ASSUME UNCHANGED <<task, exec>>
  PROVE  Moves
  BY DEF Moves, TaskMove, ThreadMove, RestsYet

LEMMA CancelMoves ==
  ASSUME DaemonInv, NEW ps, CancelPlans(ps), UNCHANGED exec
  PROVE  Moves /\ PlansStay
  <1>1. PlansStay
    BY DEF CancelPlans, PlansStay, DaemonInv, TypeInv, TypeOK, Terminal
  <1>2. ASSUME NEW q \in Tasks
        PROVE  TaskMove(q) /\ ThreadMove(q) /\ RestsYet(q)
    BY DEF CancelPlans, TaskMove, ThreadMove, RestsYet, Unstarted, Started, DaemonInv, NoPlanYet
  <1> QED BY <1>1, <1>2 DEF Moves

LEMMA BlamePlans ==
  ASSUME DaemonInv, NEW p \in Plans, NEW from, NEW s, NEW e, s # "NONE", "NONE" \notin from,
         Blame(p, from, s, e)
  PROVE  PlansStay
  BY DEF Blame, PlansStay, DaemonInv, TypeInv, TypeOK

LEMMA RefreshAsMoves ==
  ASSUME DaemonInv, NEW p \in Plans, NEW was \in PlanStates \ {"NONE"}, NEW e, plan[p] # "NONE",
         RefreshAs(p, was, e), \A q \in Tasks : exec'[q] \in Inert \/ exec'[q] = exec[q],
         \A q \in Tasks : plan[PlanOf[q]] = "NONE" => exec'[q] = exec[q]
  PROVE  Moves /\ PlansStay
  <1>1. PlansStay
    <2>1. \E s \in PlanStates \ {"NONE"} : plan' = [plan EXCEPT ![p] = s]
      <3>1. {"BLOCKED", "COMPLETED", "FAILED", "RUNNING"} \subseteq PlanStates \ {"NONE"}
        BY DEF PlanStates, Live, Terminal
      <3>2. PICK statuses : SettlePlan(p, was, e, statuses)
        BY DEF RefreshAs
      <3>3. CASE Gated(p) /\ e = "deferred"
        BY <3>1, <3>2, <3>3 DEF SettlePlan
      <3>4. CASE /\ ~(Gated(p) /\ e = "deferred") /\ was = "BLOCKED"
                 /\ e \in {"recovery", "pending"} \/ (Gated(p) /\ e = "gate")
        BY <3>1, <3>2, <3>4 DEF SettlePlan
      <3>5. CASE /\ ~(Gated(p) /\ e = "deferred")
                 /\ ~(/\ was = "BLOCKED"
                      /\ e \in {"recovery", "pending"} \/ (Gated(p) /\ e = "gate"))
        BY <3>1, <3>2, <3>5 DEF SettlePlan
      <3> QED BY <3>3, <3>4, <3>5
    <2> QED BY <2>1 DEF PlansStay, DaemonInv, TypeInv, TypeOK
  <1>2. ASSUME NEW q \in Tasks
        PROVE  TaskMove(q) /\ ThreadMove(q) /\ RestsYet(q)
    <2>1. task'[q] = task[q] \/ /\ PlanOf[q] = p /\ task[q] = "PENDING"
                                /\ task'[q] = "BLOCKED" \/ (task'[q] = "READY" /\ ParentsDone(q))
      <3>1. PICK blocked \in SUBSET {t \in TasksOf(p) : task[t] = "PENDING"} :
              task'[q] = IF q \in blocked THEN "BLOCKED"
                         ELSE IF q \in {t \in TasksOf(p) : task[t] = "PENDING"} /\ ParentsDone(q)
                           THEN "READY"
                         ELSE task[q]
        BY SMTT(30) DEF RefreshAs
      <3> QED BY <3>1 DEF TasksOf
    <2>2. ThreadMove(q)
      BY DEF ThreadMove
    <2> QED
      BY <2>1, <2>2 DEF TaskMove, RestsYet, Started
  <1> QED BY <1>1, <1>2 DEF Moves

LEMMA RefreshMoves ==
  ASSUME DaemonInv, NEW p \in Plans, Refresh(p),
         \A q \in Tasks : exec'[q] \in Inert \/ exec'[q] = exec[q],
         \A q \in Tasks : plan[PlanOf[q]] = "NONE" => exec'[q] = exec[q]
  PROVE  Moves /\ PlansStay
  <1>1. CASE plan[p] \in Live
    BY <1>1, RefreshAsMoves DEF Refresh, PlanStates, Live
  <1>2. CASE plan[p] \notin Live
    BY <1>2 DEF Refresh, Moves, PlansStay, TaskMove, ThreadMove, RestsYet
  <1> QED BY <1>1, <1>2

(* MarkRecovery, for a run of a plan; its thread, if any, ends the attempt. *)
LEMMA MarkMoves ==
  ASSUME DaemonInv, NEW r \in Runs, plan[PlanOf[r[1]]] # "NONE", MarkRecovery(r),
         \A q \in Tasks : ThreadMove(q) /\ RestsYet(q)
  PROVE  Moves /\ PlansStay
  <1>1. r[1] \in Tasks /\ PlanOf[r[1]] \in Plans
    BY ConstantsAssumption DEF ConstantsAssumption, Runs
  <1>2. PlansStay
    BY <1>1, BlamePlans DEF MarkRecovery, Live
  <1>3. ASSUME NEW q \in Tasks
        PROVE  TaskMove(q)
    BY DEF MarkRecovery, MoveTask, TaskMove, Started, DaemonInv, TypeInv, TypeOK
  <1> QED BY <1>2, <1>3 DEF Moves

(* A step of one thread that leaves every other thread alone.               *)
LEMMA OneThread ==
  ASSUME DaemonInv, NEW t \in Tasks, exec[t] # "idle", NEW s, Goto(t, s)
  PROVE  /\ exec'[t] = s
         /\ \A q \in Tasks \ {t} : exec'[q] = exec[q] /\ ThreadMove(q)
         /\ \A q \in Tasks : plan[PlanOf[q]] = "NONE" => q # t /\ exec'[q] = exec[q]
         /\ exec[t] \notin Inert => ThreadMove(t)
         /\ s \in Inert => ThreadMove(t)
  <1>1. exec' \in [Tasks -> {exec[q] : q \in Tasks} \cup {s}] /\ exec'[t] = s
        /\ \A q \in Tasks \ {t} : exec'[q] = exec[q]
    BY DEF DaemonInv, TypeInv, TypeOK, Goto
  <1>2. \A q \in Tasks \ {t} : ThreadMove(q)
    BY <1>1 DEF ThreadMove
  <1>3. \A q \in Tasks : plan[PlanOf[q]] = "NONE" => q # t /\ exec'[q] = exec[q]
    BY <1>1, BusyHasPlan
  <1> QED
    BY <1>1, <1>2, <1>3 DEF ThreadMove

LEMMA OrderAfterThread ==
  ASSUME DaemonInv, UNCHANGED <<queueVars, loop>>, Moves, PlansStay,
         \A r \in linked' : r \in linked \/ (plan[PlanOf[r[1]]] # "NONE" /\ PlanOf[r[1]] \in Plans),
         NEW t \in Tasks, exec[t] # "idle"
  PROVE  NoPlanYet' /\ OrderKept'
  <1>1. UNCHANGED <<objective, planning, planner, loop>>
    BY DEF queueVars
  <1>2. \A r \in linked' \cup loop'.runs : plan[PlanOf[r[1]]] # "NONE" /\ PlanOf[r[1]] \in Plans
    BY <1>1, RecordedRuns
  <1>3. NoPlanYet'
    BY <1>1, <1>2, NoPlanAgain, PlannersTyped DEF Moves
  <1>4. ~At("down")'
    BY <1>1 DEF DaemonInv, OrderKept, At
  <1> QED BY <1>3, <1>4, OrderKeptAgain DEF Moves

LEMMA OrderWhileStarting ==
  ASSUME DaemonInv, NEW t \in Tasks,
         \/ ReserveAttempt(t) \/ Begin(t) \/ Link(t) \/ Work(t) \/ Check(t) \/ Apply(t)
         \/ Commit(t)
  PROVE  NoPlanYet' /\ OrderKept'
  <1>1. exec[t] # "idle" /\ UNCHANGED <<queueVars, loop, plan>>
        /\ \E s : Goto(t, s)
    BY DEF ReserveAttempt, Begin, Link, Work, Check, Apply, Commit, planVars
  <1>2. PlansStay
    BY <1>1 DEF PlansStay
  <1>3. \A r \in linked' : r \in linked \/ (plan[PlanOf[r[1]]] # "NONE" /\ PlanOf[r[1]] \in Plans)
    <2>1. linked' = linked \/ linked' = linked \cup {Current(t)}
      BY DEF ReserveAttempt, Begin, Link, Work, Check, Apply, Commit, runVars
    <2>2. Current(t)[1] = t
      BY DEF Current
    <2>3. PlanOf[t] \in Plans /\ plan[PlanOf[t]] # "NONE"
      BY <1>1, BusyHasPlan
    <2> QED BY <2>1, <2>2, <2>3
  <1>4. Moves
    <2>1. CASE ReserveAttempt(t)
      <3>1. CASE MayStart(t)
        <4>1. task[t] = "READY" /\ task' = [task EXCEPT ![t] = "RUNNING"]
          BY <2>1, <3>1 DEF ReserveAttempt, MayStart, SetTask
        <4>2. task'[t] = "RUNNING" /\ \A q \in Tasks \ {t} : task'[q] = task[q]
          BY <4>1 DEF DaemonInv, TypeInv, TypeOK
        <4>3. ParentsDone(t)
          BY <4>1 DEF DaemonInv, OrderKept, DependenciesRespected, ParentsDone
        <4> QED
          BY <1>1, <4>1, <4>2, <4>3, OneThread DEF Moves, TaskMove, ThreadMove, RestsYet
      <3>2. CASE ~MayStart(t)
        <4>1. Goto(t, "idle") /\ UNCHANGED task
          BY <2>1, <3>2 DEF ReserveAttempt
        <4> QED BY <1>1, <4>1, OneThread DEF Moves, TaskMove, ThreadMove, RestsYet, Inert
      <3> QED BY <3>1, <3>2
    <2>2. CASE Begin(t) \/ Link(t) \/ Work(t) \/ Check(t) \/ Apply(t) \/ Commit(t)
      <3>1. exec[t] \notin Inert /\ UNCHANGED task
        BY <2>2 DEF Begin, Link, Work, Check, Apply, Commit, planVars, Inert
      <3> QED BY <1>1, <3>1, OneThread DEF Moves, TaskMove, ThreadMove, RestsYet
    <2> QED BY <2>1, <2>2
  <1> QED BY <1>1, <1>2, <1>3, <1>4, OrderAfterThread

LEMMA OrderWhileEnding ==
  ASSUME DaemonInv, NEW t \in Tasks,
         \/ Rollback(t) \/ RollbackEnd(t) \/ FinishSuccess(t) \/ FinishWaitingHuman(t)
         \/ FinishCancellationRecovery(t) \/ FinishFailure(t) \/ FinishRefresh(t)
  PROVE  NoPlanYet' /\ OrderKept'
  <1>1. exec[t] # "idle" /\ UNCHANGED <<queueVars, loop, linked>> /\ \E s : Goto(t, s)
    BY RollbackNames
    DEF Rollback, RollbackEnd, FinishSuccess, FinishWaitingHuman, FinishCancellationRecovery,
        FinishFailure, FinishRefresh, runVars
  <1>2. PlanOf[t] \in Plans /\ plan[PlanOf[t]] # "NONE"
    BY <1>1, BusyHasPlan
  <1>3. Moves /\ PlansStay
    <2>1. CASE Rollback(t) \/ RollbackEnd(t)
      <3>1. exec[t] \notin Inert
        BY <2>1, RollbackNames DEF Rollback, RollbackEnd, Inert
      <3>2. MarkRecovery(Current(t)) \/ UNCHANGED <<task, plan>>
        BY <2>1 DEF Rollback, RollbackEnd
      <3>3. CASE MarkRecovery(Current(t))
        <4>1. PlansStay
          BY <1>2, <3>3, BlamePlans DEF MarkRecovery, Current, Live
        <4>2. \A q \in Tasks : TaskMove(q)
          BY <3>3 DEF MarkRecovery, MoveTask, TaskMove, Started, DaemonInv, TypeInv, TypeOK
        <4>3. \A q \in Tasks \ {t} : task'[q] = task[q]
          BY <3>3 DEF MarkRecovery, MoveTask, Current, DaemonInv, TypeInv, TypeOK
        <4> QED BY <1>1, <3>1, <4>1, <4>2, <4>3, OneThread DEF Moves, RestsYet
      <3>4. CASE UNCHANGED <<task, plan>>
        BY <1>1, <3>1, <3>4, OneThread DEF Moves, TaskMove, RestsYet, PlansStay
      <3> QED BY <3>2, <3>3, <3>4
    <2>2. CASE FinishSuccess(t)
      <3>1. exec'[t] = "refresh" /\ UNCHANGED plan
        BY <1>1, <2>2, OneThread DEF FinishSuccess
      <3>2. \A q \in Tasks : task'[q] = task[q] \/ /\ q = t /\ task[t] = "RUNNING"
                                                   /\ task'[t] \in {"BLOCKED", "COMPLETED"}
        BY <2>2 DEF FinishSuccess, MoveTask, DaemonInv, TypeInv, TypeOK
      <3>3. task[t] = "RUNNING" => ParentsDone(t)
        BY DEF DaemonInv, OrderKept, DependenciesRespected, ParentsDone
      <3> QED
        BY <1>1, <2>2, <3>1, <3>2, <3>3, OneThread
        DEF FinishSuccess, Moves, TaskMove, RestsYet, PlansStay, Inert
    <2>3. CASE FinishWaitingHuman(t) \/ FinishCancellationRecovery(t)
      <3>1. exec'[t] = "refresh" /\ Goto(t, "refresh")
        BY <1>1, <2>3, OneThread DEF FinishWaitingHuman, FinishCancellationRecovery
      <3>2. \A q \in Tasks : task'[q] = task[q] \/ /\ PlanOf[q] = PlanOf[t]
                                                   /\ task[q] # "COMPLETED" /\ task'[q] = "BLOCKED"
        BY <2>3 DEF FinishWaitingHuman, FinishCancellationRecovery, StopPlanOf, MoveTask,
                    DaemonInv, TypeInv, TypeOK
      <3>3. PlansStay
        <4>1. \E s, e : \/ Blame(PlanOf[t], Live, "BLOCKED", e)
                        \/ Blame(PlanOf[t], {"READY", "RUNNING"}, plan[PlanOf[t]], e)
          BY <2>3 DEF FinishWaitingHuman, FinishCancellationRecovery
        <4> QED BY <1>2, <4>1, BlamePlans DEF Live
      <3> QED
        BY <1>1, <1>2, <3>1, <3>2, <3>3, OneThread DEF Moves, TaskMove, RestsYet, Started, Inert
    <2>4. CASE FinishFailure(t)
      <3>1. exec'[t] = "refresh" /\ Goto(t, "refresh") /\ exec[t] \notin Inert /\ UNCHANGED plan
        BY <1>1, <2>4, OneThread DEF FinishFailure, Inert
      <3>2. \A q \in Tasks : task'[q] = task[q] \/ (q = t /\ task'[t] \in {"BLOCKED", "READY", "FAILED"})
        <4>1. MoveTask(t, {"RUNNING"}, "BLOCKED") \/ SetTask(t, "READY") \/ SetTask(t, "FAILED")
          BY <2>4 DEF FinishFailure, Retry
        <4> QED BY <4>1 DEF MoveTask, SetTask, DaemonInv, TypeInv, TypeOK
      <3>3. ParentsDone(t) /\ task[t] # "COMPLETED"
        BY <3>1 DEF DaemonInv, OrderKept
      <3> QED
        BY <1>1, <1>2, <3>1, <3>2, <3>3, OneThread
        DEF Moves, TaskMove, RestsYet, PlansStay, Started
    <2>5. CASE FinishRefresh(t)
      <3>1. Goto(t, "idle") /\ Refresh(PlanOf[t])
        BY <2>5 DEF FinishRefresh
      <3> QED BY <1>1, <1>2, <3>1, OneThread, RefreshMoves DEF Inert
    <2> QED BY <2>1, <2>2, <2>3, <2>4, <2>5
  <1> QED BY <1>1, <1>3, OrderAfterThread

-----------------------------------------------------------------------------
(* A step of the main loop, of an operator or of the recovery, which takes  *)
(* no run on record and leaves the threads alone, or at most starts them.   *)
LEMMA OrderAfterLoop ==
  ASSUME DaemonInv, Moves, PlansStay, UNCHANGED <<planner, linked>>,
         loop'.runs \subseteq linked \cup loop.runs, At("down")' => At("down") /\ UNCHANGED exec,
         \A p \in Plans : objective[p] = "NONE" => objective'[p] = "NONE"
  PROVE  NoPlanYet' /\ OrderKept'
  <1>1. \A r \in linked' \cup loop'.runs : plan[PlanOf[r[1]]] # "NONE" /\ PlanOf[r[1]] \in Plans
    BY RecordedRuns
  <1>2. NoPlanYet'
    BY <1>1, NoPlanAgain, PlannersTyped DEF Moves
  <1>3. OrderKept'
    BY OrderKeptAgain DEF Moves, DaemonInv, OrderKept
  <1> QED BY <1>2, <1>3

LEMMA OrderAcrossRefresh ==
  ASSUME DaemonInv, NEW p \in Plans, Refresh(p), UNCHANGED <<queueVars, runVars, exec>>,
         NEW step \in LoopSteps \ {"down"}, NEW plans, LoopAt(step, plans, {})
  PROVE  NoPlanYet' /\ OrderKept'
  <1>1. Moves /\ PlansStay
    BY RefreshMoves
  <1> QED
    BY <1>1, OrderAfterLoop DEF LoopAt, At, queueVars, runVars

LEMMA OrderInLoop1 ==
  ASSUME DaemonInv,
         \/ Start \/ RefreshNext("startup") \/ RefreshNext("refresh") \/ ReconcileObjectives
         \/ Synchronize \/ RefreshPromoted \/ Promote
  PROVE  NoPlanYet' /\ OrderKept'
  <1> USE DEF LoopSteps
  <1>1. CASE Start
    <2>1. \A q \in Tasks : exec[q] = "idle" /\ exec'[q] = "idle"
      BY <1>1 DEF Start, DaemonInv, OrderKept
    <2>2. \A q \in Tasks : task'[q] = task[q] \/ /\ task[q] = "RUNNING"
                                                 /\ task'[q] \in Started \cup {"FAILED"}
      BY <1>1 DEF Start, Reconciled, Retry, Started
    <2>3. \A q \in Tasks : task[q] = "RUNNING" => ParentsDone(q)
      BY DEF DaemonInv, OrderKept, DependenciesRespected, ParentsDone
    <2>4. Moves /\ PlansStay
      BY <1>1, <2>1, <2>2, <2>3
      DEF Start, Moves, PlansStay, TaskMove, ThreadMove, RestsYet, Started, Inert, DaemonInv,
          NoPlanYet
    <2>5. UNCHANGED <<objective, planner, linked, exec>> /\ loop'.runs = {} /\ ~At("down")'
      BY <1>1 DEF Start, LoopAt, At, queueVars, runVars
    <2> QED BY <2>4, <2>5, OrderAfterLoop
  <1>2. ASSUME NEW step \in {"startup", "refresh"}, RefreshNext(step)
        PROVE  NoPlanYet' /\ OrderKept'
    BY <1>2, OrderAcrossRefresh DEF RefreshNext, DaemonInv, TypeInv, TypeOK
  <1>3. CASE ReconcileObjectives
    <2>1. Moves /\ PlansStay
      BY <1>3, NothingMoves DEF ReconcileObjectives, planVars, PlansStay
    <2> QED
      BY <1>3, <2>1, OrderAfterLoop DEF ReconcileObjectives, LoopAt, At, runVars
  <1>4. CASE Synchronize
    <2>1. Moves /\ PlansStay
      BY <1>4, CancelMoves DEF Synchronize
    <2>2. \A p \in Plans : objective[p] = "NONE" => objective'[p] = "NONE"
      BY <1>4 DEF Synchronize, Synchronized
    <2> QED
      BY <1>4, <2>1, <2>2, OrderAfterLoop DEF Synchronize, LoopAt, At, runVars
  <1>5. CASE RefreshPromoted
    BY <1>5, OrderAcrossRefresh DEF RefreshPromoted, DaemonInv, TypeInv, TypeOK
  <1>6. CASE Promote
    <2>1. PICK p \in loop.plans :
            IF objective[p] = "QUEUED"
              THEN /\ objective' = [objective EXCEPT ![p] =
                                      IF plan[p] \in Terminal THEN plan[p] ELSE "RUNNING"]
                   /\ IF plan[p] = "DRAFT" THEN Blame(p, {"DRAFT"}, "READY", "none")
                                           ELSE UNCHANGED <<plan, planError>>
                   /\ LoopAt("promoted", {p}, {})
              ELSE LeaveDispatch /\ UNCHANGED <<objective, plan, planError>>
      BY <1>6 DEF Promote
    <2>2. p \in Plans
      BY DEF DaemonInv, TypeInv, TypeOK
    <2>3. PlansStay
      <3>1. CASE Blame(p, {"DRAFT"}, "READY", "none")
        BY <2>2, <3>1, BlamePlans
      <3>2. CASE UNCHANGED <<plan, planError>>
        BY <3>2 DEF PlansStay
      <3> QED BY <2>1, <3>1, <3>2
    <2>4. Moves
      BY <1>6, NothingMoves DEF Promote
    <2>5. \A q \in Plans : objective[q] = "NONE" => objective'[q] = "NONE"
      BY <2>1, <2>2 DEF DaemonInv, TypeInv, TypeOK
    <2>6. loop'.runs = {} /\ ~At("down")'
      BY <2>1 DEF LeaveDispatch, LoopAt, At
    <2> QED
      BY <1>6, <2>3, <2>4, <2>5, <2>6, OrderAfterLoop DEF Promote, runVars
  <1> QED BY <1>1, <1>2, <1>3, <1>4, <1>5, <1>6

LEMMA OrderInLoop2 ==
  ASSUME DaemonInv, CleanWaiting \/ CleanWaitingEnd \/ Dispatch \/ SubmitRunnable
  PROVE  NoPlanYet' /\ OrderKept'
  <1>1. CASE CleanWaiting
    <2>1. Moves /\ PlansStay
      BY <1>1, NothingMoves DEF CleanWaiting, planVars, PlansStay
    <2>2. loop'.runs \subseteq linked /\ ~At("down")'
      BY <1>1 DEF CleanWaiting, LoopAt, At, WaitingCancelled
    <2> QED
      BY <1>1, <2>1, <2>2, OrderAfterLoop DEF CleanWaiting, queueVars
  <1>2. CASE CleanWaitingEnd
    <2>1. PICK r \in loop.runs : MarkRecovery(r) \/ UNCHANGED <<task, plan>>
      BY <1>2 DEF CleanWaitingEnd
    <2>2. UNCHANGED exec
      BY <1>2 DEF CleanWaitingEnd
    <2>3. Moves /\ PlansStay
      <3>1. CASE UNCHANGED <<task, plan>>
        BY <2>2, <3>1, NothingMoves DEF PlansStay
      <3>2. CASE MarkRecovery(r)
        <4>1. r \in Runs /\ plan[PlanOf[r[1]]] # "NONE"
          BY RecordedRuns
        <4>2. \A q \in Tasks : PlanOf[q] # PlanOf[r[1]] => task'[q] = task[q]
          BY <3>2 DEF MarkRecovery, MoveTask, DaemonInv, TypeInv, TypeOK
        <4> QED BY <2>2, <3>2, <4>1, <4>2, MarkMoves DEF ThreadMove, RestsYet
      <3> QED BY <2>1, <3>1, <3>2
    <2> QED
      BY <1>2, <2>3, OrderAfterLoop DEF CleanWaitingEnd, LoopAt, At, queueVars
  <1>3. CASE Dispatch
    <2>1. UNCHANGED <<task, plan, exec, linked>>
      BY <1>3 DEF Dispatch, planVars, runVars
    <2>2. Moves /\ PlansStay
      BY <2>1, NothingMoves DEF PlansStay
    <2>3. loop'.runs = {} /\ ~At("down")'
      BY <1>3 DEF Dispatch, LeaveDispatch, LoopAt, At
    <2>4. \A p \in planner' : p \in Plans /\ plan[p] = "NONE"
      BY <1>3, PlannersTyped DEF Dispatch, queueVars
    <2>5. \A p \in Plans : objective[p] = "NONE" => objective'[p] = "NONE"
      BY <1>3 DEF Dispatch, queueVars, DaemonInv, TypeInv, TypeOK
    <2>6. NoPlanYet'
      BY <2>1, <2>2, <2>3, <2>4, <2>5, NoPlanAgain, RecordedRuns DEF Moves
    <2> QED BY <2>2, <2>3, <2>6, OrderKeptAgain DEF Moves
  <1>4. CASE SubmitRunnable
    <2>1. PICK ts \in SUBSET Tasks :
            /\ \A t \in ts : plan[PlanOf[t]] \in {"READY", "RUNNING"}
            /\ exec' = [t \in Tasks |-> IF t \in ts THEN "reserve" ELSE exec[t]]
      BY <1>4 DEF SubmitRunnable, Runnable
    <2>2. UNCHANGED <<task, plan, objective, planner, linked>> /\ loop'.runs = {} /\ ~At("down")'
      BY <1>4 DEF SubmitRunnable, planVars, queueVars, runVars, LoopAt, At
    <2>3. Moves /\ PlansStay
      BY <2>1, <2>2 DEF Moves, PlansStay, TaskMove, ThreadMove, RestsYet, Inert
    <2> QED BY <2>2, <2>3, OrderAfterLoop
  <1> QED BY <1>1, <1>2, <1>3, <1>4

LEMMA OrderInCommands ==
  ASSUME DaemonInv, NEW p \in Plans,
         \/ FinishPlanning(p) \/ Submit(p) \/ Pause(p) \/ Resume(p) \/ Cancel(p)
         \/ ActivatePlan(p) \/ CancelPlan(p)
  PROVE  NoPlanYet' /\ OrderKept'
  <1>1. UNCHANGED <<linked, exec, loop>>
    BY DEF FinishPlanning, Submit, Pause, Resume, Cancel, ActivatePlan, CancelPlan, runVars
  <1>2. CASE Pause(p) \/ Resume(p) \/ Cancel(p) \/ ActivatePlan(p) \/ CancelPlan(p)
    <2>1. UNCHANGED planner
      BY <1>2 DEF Pause, Resume, Cancel, ActivatePlan, CancelPlan, queueVars
    <2>2. \A q \in Plans : objective[q] = "NONE" => objective'[q] = "NONE"
      BY <1>2 DEF Pause, Resume, Cancel, ActivatePlan, CancelPlan, queueVars, DaemonInv, TypeInv,
                  TypeOK
    <2>3. Moves /\ PlansStay
      <3>1. CASE Pause(p) \/ Resume(p)
        BY <1>1, <3>1, NothingMoves DEF Pause, Resume, planVars, PlansStay
      <3>2. CASE Cancel(p)
        BY <1>1, <3>2, NothingMoves, CancelMoves DEF Cancel, PlansStay
      <3>3. CASE ActivatePlan(p)
        BY <1>1, <3>3, RefreshAsMoves DEF ActivatePlan, PlanStates, Live
      <3>4. CASE CancelPlan(p)
        BY <1>1, <3>4, CancelMoves DEF CancelPlan
      <3> QED BY <1>2, <3>1, <3>2, <3>3, <3>4
    <2> QED BY <1>1, <2>1, <2>2, <2>3, OrderAfterLoop DEF At
  <1>3. CASE Submit(p)
    <2>1. UNCHANGED <<task, planner>> /\ objective[p] = "NONE" /\ plan[p] = "NONE"
      BY <1>3 DEF Submit
    <2>2. \A q \in Plans : plan'[q] = IF q = p THEN IF p \in Planned THEN "NONE" ELSE "DRAFT"
                                              ELSE plan[q]
      BY <1>3 DEF Submit, DaemonInv, TypeInv, TypeOK
    <2>3. \A q \in Plans : q # p => objective'[q] = objective[q]
      BY <1>3 DEF Submit, DaemonInv, TypeInv, TypeOK
    <2>4. p \in planner => p \in Planned
      BY DEF DaemonInv, TypeInv, TypeOK
    <2>5. NoPlanYet'
      <3>1. \A q \in Plans : plan'[q] = "NONE" /\ objective'[q] # "NONE" => q \in Planned
        BY <2>2, <2>3 DEF DaemonInv, NoPlanYet
      <3>2. \A t \in Tasks : plan'[PlanOf[t]] = "NONE" => task'[t] = "PENDING" /\ exec'[t] = "idle"
        BY <1>1, <2>1, <2>2, ConstantsAssumption DEF ConstantsAssumption, DaemonInv, NoPlanYet
      <3>3. \A r \in linked \cup loop.runs : plan'[PlanOf[r[1]]] # "NONE"
        BY <2>1, <2>2, RecordedRuns
      <3>4. \A q \in planner : plan'[q] = "NONE"
        BY <2>2, <2>4, PlannersTyped
      <3> QED BY <1>1, <2>1, <3>1, <3>2, <3>3, <3>4 DEF NoPlanYet
    <2>6. \A q \in Tasks : TaskMove(q) /\ ThreadMove(q)
      BY <1>1, <2>1 DEF TaskMove, ThreadMove
    <2> QED BY <1>1, <2>5, <2>6, OrderKeptAgain DEF DaemonInv, OrderKept, At
  <1>4. CASE FinishPlanning(p)
    <2>1. p \in planner /\ plan[p] = "NONE" /\ planner' = {}
      BY <1>4 DEF FinishPlanning, DaemonInv, NoPlanYet
    <2>2. \A q \in Plans : /\ q # p => plan'[q] = plan[q]
                           /\ objective'[q] # "NONE" => objective[q] # "NONE" \/ q = p
      BY <1>4 DEF FinishPlanning, PlanningFails, DaemonInv, TypeInv, TypeOK
    <2>3. /\ \A q \in Tasks : task'[q] = task[q] \/ (PlanOf[q] = p /\ task'[q] = "CANCELLED")
          /\ plan'[p] # "NONE" \/ UNCHANGED task
      BY <1>4 DEF FinishPlanning, DaemonInv, TypeInv, TypeOK
    <2>4. p \in Planned
      BY <2>1 DEF DaemonInv, TypeInv, TypeOK
    <2>5. NoPlanYet'
      <3>1. \A q \in Plans : plan'[q] = "NONE" /\ objective'[q] # "NONE" => q \in Planned
        BY <2>2, <2>4 DEF DaemonInv, NoPlanYet
      <3>2. \A t \in Tasks : plan'[PlanOf[t]] = "NONE" => task'[t] = "PENDING" /\ exec'[t] = "idle"
        BY <1>1, <2>1, <2>2, <2>3, ConstantsAssumption DEF ConstantsAssumption, DaemonInv, NoPlanYet
      <3>3. \A r \in linked \cup loop.runs : plan'[PlanOf[r[1]]] # "NONE"
        BY <2>1, <2>2, RecordedRuns
      <3> QED BY <1>1, <2>1, <3>1, <3>2, <3>3 DEF NoPlanYet
    <2>6. \A q \in Tasks : PlanOf[q] = p => task[q] = "PENDING"
      BY <2>1 DEF DaemonInv, NoPlanYet
    <2>7. \A q \in Tasks : TaskMove(q) /\ ThreadMove(q)
      BY <1>1, <2>3, <2>6 DEF TaskMove, ThreadMove, Started
    <2> QED BY <1>1, <2>5, <2>7, OrderKeptAgain DEF DaemonInv, OrderKept, At
  <1> QED BY <1>2, <1>3, <1>4

LEMMA OrderInRecovery ==
  ASSUME DaemonInv, \/ \E r \in Runs : RollBackWaiting(r) \/ Recover(r)
                    \/ Crash
  PROVE  NoPlanYet' /\ OrderKept'
  <1>1. CASE \E r \in Runs : RollBackWaiting(r) \/ Recover(r)
    <2>1. UNCHANGED <<objective, planner, plan, task, linked, exec, loop>>
      BY <1>1 DEF RollBackWaiting, Recover, queueVars, planVars
    <2> QED
      BY <2>1, NothingMoves, OrderAfterLoop DEF PlansStay, At
  <1>2. CASE Crash
    <2>1. UNCHANGED <<objective, plan, task, linked>> /\ planner' = {} /\ loop'.runs = {}
          /\ \A t \in Tasks : exec'[t] = "idle"
      BY <1>2 DEF Crash, LoopAt, planVars, runVars
    <2>2. Moves /\ PlansStay
      BY <2>1 DEF Moves, PlansStay, TaskMove, ThreadMove, RestsYet, Inert, DaemonInv, NoPlanYet
    <2>3. NoPlanYet'
      BY <2>1, <2>2, NoPlanAgain, RecordedRuns DEF Moves
    <2> QED BY <2>1, <2>2, <2>3, OrderKeptAgain DEF Moves
  <1> QED BY <1>1, <1>2

LEMMA DaemonInvStep == DaemonInv /\ [Next]_vars => DaemonInv'
  <1> SUFFICES ASSUME DaemonInv, [Next]_vars PROVE DaemonInv'
    OBVIOUS
  <1>1. TypeInv'
    BY TypeInvStep DEF DaemonInv
  <1>2. CASE UNCHANGED vars
    BY <1>1, <1>2 DEF vars, queueVars, planVars, runVars, boundVars, DaemonInv, NoPlanYet,
       OrderKept, DependenciesRespected, ParentsDone, At
  <1>3. CASE LoopStep
    BY <1>1, <1>3, OrderInLoop1, OrderInLoop2 DEF LoopStep, DaemonInv
  <1>4. CASE \E t \in Tasks : ThreadStep(t)
    BY <1>1, <1>4, OrderWhileStarting, OrderWhileEnding DEF ThreadStep, DaemonInv
  <1>5. CASE \E p \in Plans : \/ FinishPlanning(p) \/ Submit(p) \/ Pause(p) \/ Resume(p)
                              \/ Cancel(p) \/ ActivatePlan(p) \/ CancelPlan(p)
    BY <1>1, <1>5, OrderInCommands DEF DaemonInv
  <1>6. CASE (\E r \in Runs : RollBackWaiting(r) \/ Recover(r)) \/ Crash
    BY <1>1, <1>6, OrderInRecovery DEF DaemonInv
  <1> QED BY <1>2, <1>3, <1>4, <1>5, <1>6 DEF Next

LEMMA DaemonInvariant == Spec => []DaemonInv
  BY DaemonInvInit, DaemonInvStep, PTL DEF Spec

(* Every state of the daemon's tables, threads and main loop is well        *)
(* formed: the attempts stay within their limit, and every run it drives,   *)
(* links, prepares or asks a human about is one of an attempt.              *)
THEOREM TypeCorrect == Spec => []TypeOK
  BY DaemonInvariant, PTL DEF DaemonInv, TypeInv

(* Whatever retries, gates, cancellations, deaths of the daemon and         *)
(* recoveries do in between, a task is ready, runs or is complete only     *)
(* while all of its parents are COMPLETED.                                  *)
THEOREM DependenciesHold == Spec => []DependenciesRespected
  BY DaemonInvariant, PTL DEF DaemonInv, OrderKept

-----------------------------------------------------------------------------
(* What a step does to the rows of the tasks and of the plans.  Outside of  *)
(* the tasks S it neither starts nor ends an attempt; a plan leaves its     *)
(* first states and those of the daemon only one way, and never while one  *)
(* of its tasks is in execution.                                            *)
TaskRests(q) ==
  /\ task'[q] = "RUNNING" <=> task[q] = "RUNNING"
  /\ task'[q] = "COMPLETED" <=> task[q] = "COMPLETED"
  /\ task'[q] = "PENDING" => task[q] = "PENDING"
  /\ task'[q] = "READY" => task[q] \in {"READY", "PENDING"}

New == {"NONE", "DRAFT"}
Open == {"READY", "RUNNING"}
PlanAdvances(p) ==
  /\ plan'[p] \in New => plan[p] \in New
  /\ plan'[p] \in Open => plan[p] \in New \cup Open
  /\ plan[p] \in Terminal => plan'[p] = plan[p]
  /\ plan[p] \in Live /\ (\E q \in TasksOf(p) : task'[q] = "RUNNING") => plan'[p] \in Live

RowsRest(S) == /\ \A q \in Tasks \ S : TaskRests(q)
               /\ \A p \in Plans : PlanAdvances(p)

LEMMA NothingRests ==
  ASSUME NEW S, UNCHANGED <<task, plan>>
  PROVE  RowsRest(S)
  BY DEF RowsRest, TaskRests, PlanAdvances, New, Open, Terminal, Live

LEMMA BlameRests ==
  ASSUME DaemonInv, NEW p \in Plans, NEW from, NEW s, NEW e, Blame(p, from, s, e),
         \/ from = {"DRAFT"} /\ s = "READY"
         \/ from \subseteq Live /\ s = "BLOCKED"
         \/ from \subseteq Live /\ s = plan[p]
  PROVE  \A q \in Plans : PlanAdvances(q) /\ (plan[q] = "COMPLETED" <=> plan'[q] = "COMPLETED")
                          /\ (plan[q] = "CANCELLED" <=> plan'[q] = "CANCELLED")
  BY DEF DaemonInv, TypeInv, TypeOK, Blame, PlanAdvances, New, Open, Terminal, Live

LEMMA MarkRests ==
  ASSUME DaemonInv, NEW r \in Runs, MarkRecovery(r)
  PROVE  /\ RowsRest({r[1]}) /\ plan'[PlanOf[r[1]]] \notin Open
         /\ task'[r[1]] = task[r[1]] \/ (task'[r[1]] = "BLOCKED" /\ task[r[1]] # "COMPLETED")
         /\ task'[r[1]] \notin {"PENDING", "READY", "RUNNING"}
         /\ \A p \in Plans : /\ plan[p] = "COMPLETED" <=> plan'[p] = "COMPLETED"
                             /\ plan[p] = "CANCELLED" <=> plan'[p] = "CANCELLED"
         /\ \A q \in Tasks \ {r[1]} : task'[q] = task[q]
  <1>1. r[1] \in Tasks /\ PlanOf[r[1]] \in Plans
    BY ConstantsAssumption DEF ConstantsAssumption, Runs
  <1>2. /\ \A p \in Plans : PlanAdvances(p)
        /\ \A p \in Plans : /\ plan[p] = "COMPLETED" <=> plan'[p] = "COMPLETED"
                            /\ plan[p] = "CANCELLED" <=> plan'[p] = "CANCELLED"
    BY <1>1, BlameRests DEF MarkRecovery
  <1>3. plan'[PlanOf[r[1]]] \notin Open
    BY <1>1 DEF MarkRecovery, Blame, Live, Open, DaemonInv, TypeInv, TypeOK
  <1>4. \A q \in Tasks : task'[q] = IF q = r[1] /\ task[q] \in {"PENDING", "READY", "RUNNING", "BLOCKED"}
                                      THEN "BLOCKED" ELSE task[q]
    BY <1>1 DEF MarkRecovery, MoveTask, DaemonInv, TypeInv, TypeOK
  <1> QED
    BY <1>1, <1>2, <1>3, <1>4 DEF RowsRest, TaskRests

LEMMA CancelRests ==
  ASSUME DaemonInv, NEW ps \in SUBSET Plans, CancelPlans(ps), \A p \in ps : RunningOf(p) = {}
  PROVE  /\ RowsRest({})
         /\ \A q \in Tasks : task'[q] = "COMPLETED" <=> task[q] = "COMPLETED"
         /\ \A p \in Plans : /\ plan'[p] = "COMPLETED" <=> plan[p] = "COMPLETED"
                             /\ plan'[p] = "CANCELLED" => plan[p] = "CANCELLED" \/ p \in ps
  <1>1. \A q \in Tasks : TaskRests(q)
    BY DEF CancelPlans, TaskRests, Unstarted
  <1>2. \A p \in Plans : plan'[p] = plan[p] \/ (p \in ps /\ plan[p] \notin Terminal /\ plan[p] # "NONE"
                                               /\ plan'[p] = "CANCELLED")
    BY DEF CancelPlans
  <1>3. \A p \in Plans : PlanAdvances(p)
    BY <1>1, <1>2 DEF PlanAdvances, TaskRests, RunningOf, TasksOf, New, Open, Terminal, Live
  <1> QED
    BY <1>1, <1>2, <1>3 DEF RowsRest, TaskRests, Terminal

LEMMA StopRests ==
  ASSUME DaemonInv, NEW t \in Tasks, StopPlanOf(t)
  PROVE  /\ \A q \in Tasks \ {t} : TaskRests(q)
         /\ task'[t] \in {task[t], "BLOCKED"} /\ task'[t] \notin {"PENDING", "READY", "RUNNING"}
  BY DEF StopPlanOf, TaskRests, DaemonInv, TypeInv, TypeOK

(* A refresh completes a plan when each of its tasks is; it does not end it *)
(* in any other way that it was not asked to.                               *)
LEMMA RefreshAsRests ==
  ASSUME DaemonInv, NEW p \in Plans, NEW was \in PlanStates, NEW e,
         (plan[p] \in Live /\ was = plan[p]) \/ (plan[p] = "DRAFT" /\ was = "READY"),
         RefreshAs(p, was, e)
  PROVE  /\ RowsRest({})
         /\ \A q \in Plans : plan'[q] = "CANCELLED" => plan[q] = "CANCELLED"
         /\ \A q \in Plans : plan'[q] = "COMPLETED" =>
              plan[q] = "COMPLETED" \/ \A t \in TasksOf(q) : task[t] = "COMPLETED"
  <1>1. ASSUME NEW q \in Tasks
        PROVE  task'[q] = task[q] \/ (task[q] = "PENDING" /\ task'[q] \in {"BLOCKED", "READY"})
    <2>1. PICK blocked \in SUBSET {t \in TasksOf(p) : task[t] = "PENDING"} :
            task'[q] = IF q \in blocked THEN "BLOCKED"
                       ELSE IF q \in {t \in TasksOf(p) : task[t] = "PENDING"} /\ ParentsDone(q)
                         THEN "READY"
                       ELSE task[q]
      BY SMTT(30) DEF RefreshAs
    <2> QED BY <2>1 DEF TasksOf
  <1>2. \A q \in Tasks : TaskRests(q)
    BY <1>1 DEF TaskRests
  <1>3. \E s \in PlanStates :
          /\ plan' = [plan EXCEPT ![p] = s]
          /\ \/ s = was
             \/ s = "BLOCKED"
             \/ s = "RUNNING" /\ was = "READY"
             \/ s = "COMPLETED" /\ \A t \in TasksOf(p) : task'[t] = "COMPLETED"
             \/ s = "FAILED" /\ \A t \in TasksOf(p) : task'[t] # "RUNNING"
    <2>1. {"BLOCKED", "COMPLETED", "FAILED", "RUNNING"} \subseteq PlanStates
      BY DEF PlanStates, Live, Terminal
    <2>2. SettlePlan(p, was, e, {task'[t] : t \in TasksOf(p)})
      BY DEF RefreshAs
    <2>3. CASE Gated(p) /\ e = "deferred"
      BY <2>1, <2>2, <2>3 DEF SettlePlan
    <2>4. CASE /\ ~(Gated(p) /\ e = "deferred") /\ was = "BLOCKED"
               /\ e \in {"recovery", "pending"} \/ (Gated(p) /\ e = "gate")
      BY <2>1, <2>2, <2>4 DEF SettlePlan
    <2>5. CASE /\ ~(Gated(p) /\ e = "deferred")
               /\ ~(/\ was = "BLOCKED"
                    /\ e \in {"recovery", "pending"} \/ (Gated(p) /\ e = "gate"))
      BY <2>1, <2>2, <2>5 DEF SettlePlan
    <2> QED BY <2>3, <2>4, <2>5
  <1>4. PICK s \in PlanStates :
          /\ \A q \in Plans : plan'[q] = IF q = p THEN s ELSE plan[q]
          /\ \/ s = was
             \/ s = "BLOCKED"
             \/ s = "RUNNING" /\ was = "READY"
             \/ s = "COMPLETED" /\ \A t \in TasksOf(p) : task'[t] = "COMPLETED"
             \/ s = "FAILED" /\ \A t \in TasksOf(p) : task'[t] # "RUNNING"
    BY <1>3 DEF DaemonInv, TypeInv, TypeOK
  <1>5. \A q \in Plans : PlanAdvances(q)
    BY <1>2, <1>4 DEF PlanAdvances, New, Open, Terminal, Live
  <1>6. \A q \in Plans : plan'[q] = "CANCELLED" => plan[q] = "CANCELLED"
    BY <1>4 DEF Live
  <1>7. \A q \in Plans : plan'[q] = "COMPLETED" =>
          plan[q] = "COMPLETED" \/ \A t \in TasksOf(q) : task[t] = "COMPLETED"
    BY <1>1, <1>4 DEF Live, TasksOf
  <1> QED
    BY <1>1, <1>2, <1>5, <1>6, <1>7 DEF RowsRest

LEMMA RefreshRests ==
  ASSUME DaemonInv, NEW p \in Plans, Refresh(p)
  PROVE  /\ RowsRest({})
         /\ \A q \in Plans : plan'[q] = "CANCELLED" => plan[q] = "CANCELLED"
         /\ \A q \in Plans : plan'[q] = "COMPLETED" =>
              plan[q] = "COMPLETED" \/ \A t \in TasksOf(q) : task[t] = "COMPLETED"
  <1>1. CASE plan[p] \in Live
    <2>1. plan[p] \in PlanStates /\ RefreshAs(p, plan[p], planError[p])
      BY <1>1 DEF Refresh, PlanStates
    <2> QED BY <1>1, <2>1, RefreshAsRests
  <1>2. CASE plan[p] \notin Live
    BY <1>2, NothingRests DEF Refresh
  <1> QED BY <1>1, <1>2

-----------------------------------------------------------------------------
(* The thread that drives an attempt owns its run: what it does next says   *)
(* where the run is, and the run is on record from the link on.             *)
Driving == {"link", "work", "check", "apply", "commit", "cancel", "gate", "undo",
            "cancel.end", "gate.end", "undo.end"}
Taken   == Driving \cup {"begin", "succeed"}
DrivesRun(t) ==
  LET r == Current(t) IN
  /\ exec[t] = "begin" => run[r] = "none" /\ r \notin linked
  /\ exec[t] = "link" => run[r] = "open" /\ r \notin linked
  /\ exec[t] \in (Driving \ {"link"}) \cup {"succeed"} => r \in linked
  /\ exec[t] \in {"work", "check", "apply", "cancel", "gate"} => run[r] = "open"
  /\ exec[t] = "commit" => run[r] = "committing"
  /\ exec[t] = "undo" => run[r] \in {"open", "committing", "recovering", "completed"}
  /\ exec[t] \in {"cancel.end", "gate.end", "undo.end"} => run[r] = "recovering"
  /\ exec[t] = "succeed" => run[r] \in {"completed", "cancelled"}

(* Only the latest attempt of a task holds a project, and there is no next  *)
(* one, in a plan that may start it, before it has let go.                  *)
RunFits(r) ==
  /\ r[2] > attempts[r[1]] => run[r] = "none" /\ r \notin linked
  /\ r \in linked => run[r] \notin {"none", "failed"}
  /\ r \in linked /\ run[r] \in Holding => r = Current(r[1])
  /\ run[r] \in {"committing", "completed"} => r \in linked
  /\ r \in approvals => run[r] \in {"waiting", "recovering"}
RetryIsFree(t) ==
  (task[t] = "READY" \/ exec[t] = "fail") /\ plan[PlanOf[t]] \in Open /\ Current(t) \in linked
    => run[Current(t)] \notin Holding

(* A task in execution belongs to a plan that the daemon refreshes; only a  *)
(* pipeline has more to do than its work.                                   *)
TaskFits(t) ==
  /\ exec[t] \in Taken => task[t] = "RUNNING"
  /\ exec[t] \in Taken \ {"work", "succeed"} => t \in Pipelines
  /\ task[t] = "PENDING" \/ plan[PlanOf[t]] \in New => attempts[t] = 0
  /\ task[t] = "RUNNING" => plan[PlanOf[t]] \in Live

(* The run that the main loop rolls back is nobody else's.                  *)
LoopOwns ==
  At("clean.end") => \A r \in loop.runs :
    r \in linked /\ run[r] = "recovering" /\ exec[r[1]] \notin Taken

RunsInv ==
  /\ \A t \in Pipelines : DrivesRun(t) /\ RetryIsFree(t)
  /\ \A r \in Runs : RunFits(r)
  /\ \A t \in Tasks : TaskFits(t)
  /\ LoopOwns

LEMMA RunFacts ==
  /\ Pipelines \subseteq Tasks
  /\ \A r \in Runs : /\ r[1] \in Pipelines /\ r[2] \in 1 .. MaxAttempts /\ r[2] \in Nat
                     /\ r = <<r[1], r[2]>> /\ PlanOf[r[1]] \in Plans
  /\ \A t : Current(t)[1] = t /\ Current(t)[2] = attempts[t]
  /\ \A t, q : Current(t) = Current(q) => t = q
  /\ \A r \in Runs : r = Current(r[1]) <=> r[2] = attempts[r[1]]
  /\ \A t \in Tasks : PlanOf[t] \in Plans
  BY ConstantsAssumption DEF ConstantsAssumption, Runs, Current

LEMMA HoldingNames == Holding = {"open", "waiting", "committing", "recovering"}
  BY DEF Holding, Lifecycle!Holding

LEMMA RunsInvInit == Init => RunsInv
  <1> SUFFICES ASSUME Init PROVE RunsInv
    OBVIOUS
  <1>1. \A t \in Tasks : exec[t] = "idle" /\ task[t] = "PENDING" /\ attempts[t] = 0
    BY DEF Init
  <1>2. linked = {} /\ approvals = {} /\ \A r \in Runs : run[r] = "none"
    BY DEF Init
  <1>3. ~At("clean.end")
    BY DEF Init, At
  <1> QED
    BY <1>1, <1>2, <1>3, RunFacts
    DEF RunsInv, DrivesRun, RetryIsFree, RunFits, TaskFits, LoopOwns, Driving, Taken

(* The frame of a step of the thread of t: what it leaves alone.            *)
LEMMA RunsAfterThread ==
  ASSUME DaemonInv, RunsInv, NEW t \in Tasks, UNCHANGED loop, RowsRest({t}),
         \A q \in Tasks \ {t} : exec'[q] = exec[q] /\ attempts'[q] = attempts[q],
         \A r \in Runs : r[1] # t => /\ run'[r] = run[r] /\ (r \in linked' <=> r \in linked)
                                     /\ r \in approvals' => r \in approvals,
         linked' \subseteq Runs,
         t \in Pipelines => DrivesRun(t)' /\ RetryIsFree(t)',
         \A r \in Runs : r[1] = t => RunFits(r)',
         TaskFits(t)',
         At("clean.end") => \A r \in loop.runs :
           r[1] = t => r \in linked' /\ run'[r] = "recovering" /\ exec'[t] \notin Taken
  PROVE  RunsInv'
  <1>1. linked \subseteq Runs /\ loop.runs \subseteq Runs /\ \A q \in Tasks : attempts[q] \in Nat
    BY DEF DaemonInv, TypeInv, TypeOK
  <1>2. ASSUME NEW q \in Tasks \ {t}
        PROVE  TaskFits(q)' /\ (q \in Pipelines => DrivesRun(q)' /\ RetryIsFree(q)')
    <2>1. Current(q)' = Current(q) /\ Current(q)[1] = q
      BY RunFacts DEF Current
    <2>2. /\ Current(q) \in linked' <=> Current(q) \in linked
          /\ Current(q) \in linked => run'[Current(q)] = run[Current(q)]
          /\ Current(q) \in Runs => run'[Current(q)] = run[Current(q)]
      BY <1>1, <2>1
    <2>3. TaskRests(q) /\ PlanAdvances(PlanOf[q]) /\ q \in TasksOf(PlanOf[q])
      BY RunFacts DEF RowsRest, TasksOf
    <2>4. TaskFits(q)'
      BY <2>3 DEF RunsInv, TaskFits, TaskRests, PlanAdvances
    <2>5. ASSUME q \in Pipelines PROVE DrivesRun(q)'
      <3>1. exec[q] \in {"begin", "link"} => Current(q) \in Runs
        BY <2>5, CurrentTyped DEF DaemonInv, TypeInv, ThreadsTyped
      <3>2. exec[q] \in (Driving \ {"link"}) \cup {"succeed"} => Current(q) \in Runs
        BY <1>1, <2>5 DEF RunsInv, DrivesRun
      <3> QED
        BY <2>1, <2>2, <2>5, <3>1, <3>2 DEF RunsInv, DrivesRun, Driving
    <2>6. ASSUME q \in Pipelines PROVE RetryIsFree(q)'
      <3>1. SUFFICES ASSUME task'[q] = "READY" \/ exec[q] = "fail", plan'[PlanOf[q]] \in Open,
                            Current(q) \in linked
                     PROVE  run[Current(q)] \notin Holding
        BY <2>1, <2>2, <2>6 DEF RetryIsFree
      <3>2. attempts[q] # 0
        BY <1>1, <2>1, <3>1, RunFacts
      <3>3. task[q] # "PENDING" /\ plan[PlanOf[q]] \notin New
        BY <3>2 DEF RunsInv, TaskFits
      <3> QED
        BY <2>3, <2>6, <3>1, <3>3 DEF RunsInv, RetryIsFree, TaskRests, PlanAdvances
    <2> QED BY <2>4, <2>5, <2>6
  <1>3. ASSUME NEW r \in Runs, r[1] # t
        PROVE  RunFits(r)'
    <2>1. attempts'[r[1]] = attempts[r[1]] /\ (r = Current(r[1]))' = (r = Current(r[1]))
      BY <1>3, RunFacts DEF Current
    <2> QED
      BY <1>3, <2>1 DEF RunsInv, RunFits
  <1>4. LoopOwns'
    <2>1. At("clean.end")' <=> At("clean.end")
      BY DEF At
    <2> QED
      BY <1>1, <2>1, RunFacts DEF RunsInv, LoopOwns
  <1>5. \A q \in Tasks : TaskFits(q)'
    BY <1>2
  <1>6. \A q \in Pipelines : DrivesRun(q)' /\ RetryIsFree(q)'
    BY <1>2, RunFacts
  <1>7. \A r \in Runs : RunFits(r)'
    BY <1>3
  <1> QED
    BY <1>4, <1>5, <1>6, <1>7 DEF RunsInv

(* The thread takes its task on, and gets a run.                            *)
LEMMA RunsWhileStarting ==
  ASSUME DaemonInv, RunsInv, NEW t \in Tasks,
         ReserveAttempt(t) \/ Begin(t) \/ Link(t) \/ Work(t) \/ Check(t)
  PROVE  RunsInv'
  <1> DEFINE c == Current(t)
  <1>1. /\ DrivesRun(t) \/ t \notin Pipelines
        /\ RetryIsFree(t) \/ t \notin Pipelines
        /\ TaskFits(t) /\ LoopOwns /\ \A r \in Runs : RunFits(r)
    BY DEF RunsInv
  <1>2. TypeOK /\ t \in DOMAIN exec /\ attempts[t] \in Nat /\ PlanOf[t] \in Plans
        /\ linked \subseteq Runs /\ loop.runs \subseteq Runs
    BY RunFacts DEF DaemonInv, TypeInv, TypeOK
  <1>3. ASSUME NEW r \in Runs, r[1] = t, r[2] # attempts[t] PROVE r # c
    BY <1>3, RunFacts
  <1>4. CASE ReserveAttempt(t)
    <2>1. CASE ~MayStart(t)
      <3>1. RowsRest({t}) /\ exec'[t] = "idle" /\ UNCHANGED <<task, plan, attempts, run, linked, approvals, loop>>
            /\ \A q \in Tasks \ {t} : exec'[q] = exec[q]
        BY <1>2, <1>4, <2>1, NothingRests DEF ReserveAttempt, Goto, runVars, TypeOK
      <3> QED
        BY <1>1, <1>2, <1>4, <3>1, RunFacts, RunsAfterThread
        DEF ReserveAttempt, DrivesRun, RetryIsFree, TaskFits, RunFits, LoopOwns, Current, Driving, Taken
    <2>2. CASE MayStart(t)
      <3>1. /\ task'[t] = "RUNNING" /\ task[t] = "READY" /\ plan[PlanOf[t]] \in Open
            /\ attempts'[t] = attempts[t] + 1 /\ attempts[t] < MaxAttempts
            /\ exec'[t] = IF t \in Pipelines THEN "begin" ELSE "work"
            /\ UNCHANGED <<plan, run, linked, approvals, loop>>
            /\ \A q \in Tasks \ {t} : exec'[q] = exec[q] /\ attempts'[q] = attempts[q] /\ task'[q] = task[q]
        BY <1>2, <1>4, <2>2 DEF ReserveAttempt, MayStart, Goto, SetTask, runVars, TypeOK, Open
      <3>2. RowsRest({t})
        BY <3>1 DEF RowsRest, TaskRests, PlanAdvances, New, Open, Live, Terminal
      <3>3. Current(t)' = <<t, attempts[t] + 1>> /\ Current(t)'[1] = t /\ Current(t)'[2] = attempts[t] + 1
        BY <3>1 DEF Current
      <3>4. t \in Pipelines => Current(t)' \in Runs
        BY <1>2, <3>1, <3>3, ConstantsAssumption DEF Runs, ConstantsAssumption
      <3>5. t \in Pipelines => run[Current(t)'] = "none" /\ Current(t)' \notin linked
        <4>1. attempts[t] + 1 > attempts[t]
          BY <1>2
        <4> QED BY <1>1, <3>3, <3>4, <4>1 DEF RunFits
      <3>6. t \in Pipelines => DrivesRun(t)' /\ RetryIsFree(t)'
        BY <3>1, <3>5 DEF DrivesRun, RetryIsFree, Driving
      <3>7. TaskFits(t)'
        BY <3>1 DEF TaskFits, Open, New, Live
      <3>8. ASSUME NEW r \in Runs, r[1] = t PROVE RunFits(r)'
        <4>1. r \in linked => run[r] \notin Holding
          BY <1>1, <1>2, <3>1, <3>8, RunFacts DEF RunFits, RetryIsFree
        <4>2. r[2] > attempts[t] + 1 => r[2] > attempts[t]
          BY <1>2, <3>8, RunFacts
        <4> QED
          BY <1>1, <3>1, <3>8, <4>1, <4>2 DEF RunFits
      <3>9. At("clean.end") => \A r \in loop.runs : r[1] # t
        BY <1>1, <1>2, <3>1, <3>8, RunFacts, HoldingNames DEF LoopOwns, RunFits, RetryIsFree
      <3> QED
        BY <3>1, <3>2, <3>6, <3>7, <3>8, <3>9, <1>2, RunsAfterThread
    <2> QED BY <2>1, <2>2
  <1>5. CASE Begin(t)
    <2>1. c \in Runs /\ t \in Pipelines
      BY <1>2, <1>5, CurrentTyped DEF Begin, DaemonInv, TypeInv, ThreadsTyped
    <2>2. /\ UNCHANGED <<task, plan, attempts, linked, approvals, loop>> /\ exec[t] = "begin"
          /\ \A q \in Tasks \ {t} : exec'[q] = exec[q]
          /\ \A r \in Runs \ {c} : run'[r] = run[r]
          /\ \/ run'[c] = "open" /\ exec'[t] = "link"
             \/ run'[c] = run[c] /\ exec'[t] = "fail"
      BY <1>2, <1>5, <2>1 DEF Begin, Goto, SetRun, TypeOK, planVars
    <2>3. run[c] = "none" /\ c \notin linked /\ task[t] = "RUNNING" /\ Current(t)' = c /\ c[1] = t
          /\ RowsRest({t}) /\ c \notin approvals
      BY <1>1, <2>1, <2>2, RunFacts, NothingRests DEF DrivesRun, TaskFits, Current, Taken, RunFits
    <2>4. At("clean.end") => \A r \in loop.runs : r[1] # t
      BY <1>1, <2>2 DEF LoopOwns, Taken
    <2>5. DrivesRun(t)' /\ RetryIsFree(t)' /\ TaskFits(t)'
      BY <1>1, <2>2, <2>3 DEF DrivesRun, RetryIsFree, TaskFits, Driving, Taken
    <2>6. ASSUME NEW r \in Runs PROVE RunFits(r)'
      <3>1. (r = Current(r[1]))' = (r = Current(r[1])) /\ ~(c[2] > attempts[t])
        BY <1>2, <2>2, RunFacts DEF Current
      <3> QED
        BY <1>1, <2>1, <2>2, <2>3, <3>1 DEF RunFits
    <2>8. \A r \in Runs : r[1] # t => r # c
      BY RunFacts
    <2> QED
      BY <1>2, <2>2, <2>3, <2>4, <2>5, <2>6, <2>8, RunsAfterThread
  <1>6. CASE Link(t)
    <2>1. c \in Runs /\ t \in Pipelines
      BY <1>2, <1>6, CurrentTyped DEF Link, DaemonInv, TypeInv, ThreadsTyped
    <2>2. /\ UNCHANGED <<task, plan, attempts, approvals, loop>> /\ exec[t] = "link"
          /\ \A q \in Tasks \ {t} : exec'[q] = exec[q]
          /\ \A r \in Runs \ {c} : run'[r] = run[r]
          /\ \/ run'[c] \in {"failed", run[c]} /\ exec'[t] = "fail" /\ linked' = linked
             \/ run'[c] = run[c] /\ exec'[t] = "work" /\ linked' = linked \cup {c}
      BY <1>2, <1>6, <2>1 DEF Link, Goto, SetRun, TypeOK, planVars
    <2>3. run[c] = "open" /\ c \notin linked /\ task[t] = "RUNNING" /\ Current(t)' = c /\ c[1] = t
          /\ RowsRest({t}) /\ c \notin approvals
      BY <1>1, <2>1, <2>2, RunFacts, NothingRests DEF DrivesRun, TaskFits, Current, Taken, Driving, RunFits
    <2>4. At("clean.end") => \A r \in loop.runs : r[1] # t
      BY <1>1, <2>2 DEF LoopOwns, Taken, Driving
    <2>5. DrivesRun(t)' /\ RetryIsFree(t)' /\ TaskFits(t)'
      BY <1>1, <2>2, <2>3 DEF DrivesRun, RetryIsFree, TaskFits, Driving, Taken
    <2>6. ASSUME NEW r \in Runs PROVE RunFits(r)'
      <3>1. (r = Current(r[1]))' = (r = Current(r[1])) /\ ~(c[2] > attempts[t]) /\ c = Current(c[1])
        BY <1>2, <2>2, RunFacts DEF Current
      <3> QED
        BY <1>1, <2>1, <2>2, <2>3, <3>1 DEF RunFits
    <2>8. \A r \in Runs : r[1] # t => r # c
      BY RunFacts
    <2> QED
      BY <1>2, <2>1, <2>2, <2>3, <2>4, <2>5, <2>6, <2>8, RunsAfterThread
  <1>7. CASE Work(t) \/ Check(t)
    <2>1. /\ UNCHANGED <<task, plan, attempts, run, linked, approvals, loop>>
          /\ exec[t] \in {"work", "check"}
          /\ \A q \in Tasks \ {t} : exec'[q] = exec[q]
          /\ IF t \in Pipelines THEN exec'[t] \in {"check", "undo", "cancel", "gate", "apply"}
                                ELSE exec'[t] \in {"succeed", "fail"}
      <3>1. t \notin Pipelines => exec[t] # "check"
        BY DEF DaemonInv, TypeInv, ThreadsTyped
      <3> QED
        BY <1>2, <1>7, <3>1 DEF Work, Check, Goto, TypeOK, planVars, runVars
    <2>2. RowsRest({t}) /\ Current(t)' = c
      BY <2>1, NothingRests DEF Current
    <2>3. (t \in Pipelines => DrivesRun(t)' /\ RetryIsFree(t)') /\ TaskFits(t)'
      BY <1>1, <2>1, <2>2 DEF DrivesRun, RetryIsFree, TaskFits, Driving, Taken
    <2>4. ASSUME NEW r \in Runs PROVE RunFits(r)'
      <3>1. (r = Current(r[1]))' = (r = Current(r[1]))
        BY <2>1 DEF Current
      <3> QED
        BY <1>1, <2>1, <3>1 DEF RunFits
    <2>5. At("clean.end") => \A r \in loop.runs : r[1] # t
      BY <1>1, <2>1 DEF LoopOwns, Taken, Driving
    <2> QED
      BY <1>2, <2>1, <2>2, <2>3, <2>4, <2>5, RunsAfterThread
  <1> QED BY <1>4, <1>5, <1>6, <1>7

(* The verdict, the integration and the rollback of the run.                *)
LEMMA RunsWhileIntegrating ==
  ASSUME DaemonInv, RunsInv, NEW t \in Tasks,
         Apply(t) \/ Commit(t) \/ Rollback(t) \/ RollbackEnd(t), t \in Pipelines
  PROVE  RunsInv'
  <1> DEFINE c == Current(t)
  <1>1. DrivesRun(t) /\ RetryIsFree(t) /\ TaskFits(t) /\ LoopOwns /\ \A r \in Runs : RunFits(r)
    BY DEF RunsInv
  <1>2. TypeOK /\ t \in DOMAIN exec /\ attempts[t] \in Nat /\ PlanOf[t] \in Plans
        /\ linked \subseteq Runs /\ loop.runs \subseteq Runs
    BY RunFacts DEF DaemonInv, TypeInv, TypeOK
  <1>3. /\ exec[t] \in Driving \ {"link"} /\ UNCHANGED <<attempts, linked, loop>>
        /\ exec[t] \in {"apply", "commit", "cancel", "gate", "undo", "cancel.end", "gate.end", "undo.end"}
    BY RollbackNames DEF Apply, Commit, Rollback, RollbackEnd, Driving, planVars
  <1>4. c \in linked /\ c \in Runs /\ task[t] = "RUNNING" /\ plan[PlanOf[t]] \in Live
        /\ Current(t)' = c /\ c[1] = t /\ c = Current(c[1]) /\ ~(c[2] > attempts[t])
    BY <1>1, <1>2, <1>3, RunFacts DEF DrivesRun, TaskFits, Taken, Current
  <1>5. At("clean.end") => \A r \in loop.runs : r[1] # t
    BY <1>1, <1>3 DEF LoopOwns, Taken
  <1>6. \A r \in Runs : (r[1] # t => r # c) /\ (r = Current(r[1]))' = (r = Current(r[1]))
    BY <1>3, RunFacts DEF Current
  (* The rows of t follow, and so does the frame.                           *)
  <1>7. SUFFICES
          /\ RowsRest({t})
          /\ \A q \in Tasks \ {t} : exec'[q] = exec[q]
          /\ \A r \in Runs \ {c} : run'[r] = run[r] /\ (r \in approvals' => r \in approvals)
          /\ DrivesRun(t)' /\ RetryIsFree(t)' /\ TaskFits(t)' /\ RunFits(c)'
    <2>1. \A r \in Runs \ {c} : RunFits(r)'
      BY <1>1, <1>3, <1>6, <1>7 DEF RunFits
    <2> QED
      BY <1>2, <1>3, <1>4, <1>5, <1>6, <1>7, <2>1, RunsAfterThread
  <1>8. CASE Apply(t)
    <2>1. /\ UNCHANGED <<task, plan>> /\ run[c] = "open" /\ c \notin approvals
          /\ \A q \in Tasks \ {t} : exec'[q] = exec[q]
          /\ \A r \in Runs \ {c} : run'[r] = run[r] /\ (r \in approvals' => r \in approvals)
          /\ \/ run'[c] = "open" /\ c \notin approvals' /\ exec'[t] \in {"cancel", "gate", "undo"}
             \/ run'[c] = "waiting" /\ exec'[t] = "wait"
             \/ run'[c] = "committing" /\ c \notin approvals' /\ exec'[t] = "commit"
      BY <1>1, <1>2, <1>4, <1>8 DEF Apply, Goto, SetRun, TypeOK, planVars, DrivesRun, RunFits
    <2>2. RowsRest({t})
      BY <2>1, NothingRests
    <2> QED
      BY <1>3, <1>4, <2>1, <2>2, HoldingNames
      DEF DrivesRun, RetryIsFree, TaskFits, RunFits, Driving, Taken, Live, New
  <1>9. CASE Commit(t)
    <2>1. /\ UNCHANGED <<task, plan>> /\ run[c] = "committing" /\ c \notin approvals
          /\ \A q \in Tasks \ {t} : exec'[q] = exec[q]
          /\ \A r \in Runs \ {c} : run'[r] = run[r]
          /\ approvals' = approvals
          /\ \/ run'[c] = "completed" /\ exec'[t] = "succeed"
             \/ run'[c] \in {"committing", "recovering", "completed"} /\ exec'[t] = "undo"
      BY <1>1, <1>2, <1>4, <1>9 DEF Commit, Goto, SetRun, TypeOK, planVars, DrivesRun, RunFits
    <2>2. RowsRest({t})
      BY <2>1, NothingRests
    <2> QED
      BY <1>3, <1>4, <2>1, <2>2, HoldingNames
      DEF DrivesRun, RetryIsFree, TaskFits, RunFits, Driving, Taken, Live, New
  <1>10. CASE MarkRecovery(c) /\ \E s \in {"leave", "wait", "fail"} : Goto(t, s)
    <2>1. /\ \A q \in Tasks \ {t} : exec'[q] = exec[q]
          /\ \A r \in Runs \ {c} : run'[r] = run[r] /\ (r \in approvals' => r \in approvals)
          /\ run'[c] = "recovering" /\ c \notin approvals' /\ exec'[t] \in {"leave", "wait", "fail"}
      BY <1>2, <1>4, <1>10 DEF MarkRecovery, Goto, SetRun, TypeOK
    <2>2. RowsRest({t}) /\ plan'[PlanOf[t]] \notin Open /\ task'[t] \notin {"PENDING", "READY", "RUNNING"}
      BY <1>4, <1>10, MarkRests
    <2>3. PlanAdvances(PlanOf[t])
      BY <1>2, <2>2 DEF RowsRest
    <2>4. plan'[PlanOf[t]] \notin New
      BY <1>4, <2>3 DEF PlanAdvances, Live, New
    <2> QED
      BY <1>3, <1>4, <2>1, <2>2, <2>4, HoldingNames
      DEF DrivesRun, RetryIsFree, TaskFits, RunFits, Driving, Taken
  <1>11. CASE Rollback(t)
    <2>1. exec[t] \in {"cancel", "gate", "undo"}
      BY <1>11, RollbackNames DEF Rollback
    <2>2. CASE Over(c)
      <3>1. /\ UNCHANGED <<task, plan, run, approvals>>
            /\ \A q \in Tasks \ {t} : exec'[q] = exec[q]
            /\ exec'[t] = After(exec[t], TRUE)
        BY <1>2, <1>11, <2>2 DEF Rollback, Goto, TypeOK
      <3>2. exec[t] = "undo" /\ exec'[t] = "fail" /\ run[c] \notin Holding
        BY <1>1, <2>1, <2>2, <3>1, HoldingNames DEF DrivesRun, Over, After
      <3>3. RowsRest({t})
        BY <3>1, NothingRests
      <3> QED
        BY <1>1, <1>3, <1>4, <3>1, <3>2, <3>3
        DEF DrivesRun, RetryIsFree, TaskFits, RunFits, Driving, Taken
    <2>3. CASE ~Over(c) /\ run[c] = "committing"
      <3>1. exec[t] = "undo"
        BY <1>1, <2>1, <2>3 DEF DrivesRun
      <3>2. After(exec[t], FALSE) = "fail"
        BY <3>1 DEF After
      <3> QED
        BY <1>10, <1>11, <2>3, <3>2 DEF Rollback
    <2>4. CASE ~Over(c) /\ run[c] # "committing"
      <3>1. /\ UNCHANGED <<task, plan, approvals>>
            /\ \A q \in Tasks \ {t} : exec'[q] = exec[q]
            /\ \A r \in Runs \ {c} : run'[r] = run[r]
            /\ run'[c] = "recovering" /\ run[c] \in Holding
            /\ exec'[t] \in {"cancel.end", "gate.end", "undo.end"}
        BY <1>2, <1>4, <1>11, <2>1, <2>4, RollbackNames DEF Rollback, Goto, SetRun, Over, TypeOK
      <3>2. RowsRest({t})
        BY <3>1, NothingRests
      <3> QED
        BY <1>1, <1>3, <1>4, <3>1, <3>2, HoldingNames
        DEF DrivesRun, RetryIsFree, TaskFits, RunFits, Driving, Taken, Live, New
    <2> QED BY <2>2, <2>3, <2>4
  <1>12. CASE RollbackEnd(t)
    <2>1. PICK step \in {"cancel", "gate", "undo"} :
            \/ SetRun(c, "cancelled") /\ approvals' = approvals \ {c}
               /\ Goto(t, After(step, TRUE)) /\ UNCHANGED <<task, plan, planError, faults>>
            \/ MarkRecovery(c) /\ Goto(t, After(step, FALSE))
      BY <1>12, RollbackNames DEF RollbackEnd
    <2>2. CASE SetRun(c, "cancelled") /\ approvals' = approvals \ {c}
               /\ Goto(t, After(step, TRUE)) /\ UNCHANGED <<task, plan, planError, faults>>
      <3>1. /\ \A q \in Tasks \ {t} : exec'[q] = exec[q]
            /\ \A r \in Runs \ {c} : run'[r] = run[r] /\ (r \in approvals' => r \in approvals)
            /\ run'[c] = "cancelled" /\ c \notin approvals'
            /\ exec'[t] = After(step, TRUE)
        BY <1>2, <1>4, <2>2 DEF Goto, SetRun, TypeOK
      <3>2. exec'[t] \in {"succeed", "wait", "fail"}
        BY <2>1, <3>1 DEF After
      <3>3. RowsRest({t})
        BY <2>2, NothingRests
      <3> QED
        BY <1>1, <1>3, <1>4, <2>2, <3>1, <3>2, <3>3, HoldingNames
        DEF DrivesRun, RetryIsFree, TaskFits, RunFits, Driving, Taken, Live, New
    <2>3. CASE MarkRecovery(c) /\ Goto(t, After(step, FALSE))
      <3>1. After(step, FALSE) \in {"leave", "wait", "fail"}
        BY <2>1 DEF After
      <3> QED BY <1>10, <2>3, <3>1
    <2> QED BY <2>1, <2>2, <2>3
  <1> QED BY <1>8, <1>9, <1>11, <1>12


(* The end of an attempt, and the refresh after it.                         *)
LEMMA RunsWhileEnding ==
  ASSUME DaemonInv, RunsInv, NEW t \in Tasks,
         \/ FinishSuccess(t) \/ FinishWaitingHuman(t) \/ FinishCancellationRecovery(t)
         \/ FinishFailure(t) \/ FinishRefresh(t)
  PROVE  RunsInv'
  <1>1. (t \in Pipelines => DrivesRun(t) /\ RetryIsFree(t)) /\ TaskFits(t) /\ LoopOwns
        /\ \A r \in Runs : RunFits(r)
    BY DEF RunsInv
  <1>2. TypeOK /\ t \in DOMAIN exec /\ attempts[t] \in Nat /\ PlanOf[t] \in Plans
        /\ linked \subseteq Runs /\ loop.runs \subseteq Runs
    BY RunFacts DEF DaemonInv, TypeInv, TypeOK
  <1>3. /\ UNCHANGED <<attempts, run, linked, approvals, loop>>
        /\ exec'[t] \in {"refresh", "idle"} /\ \A q \in Tasks \ {t} : exec'[q] = exec[q]
    BY <1>2
    DEF FinishSuccess, FinishWaitingHuman, FinishCancellationRecovery, FinishFailure, FinishRefresh,
        Goto, runVars, TypeOK
  <1>4. \A r \in Runs : RunFits(r)'
    BY <1>1, <1>3 DEF RunFits, Current
  <1>5. Current(t)' = Current(t) /\ (t \in Pipelines => DrivesRun(t)')
    BY <1>3 DEF Current, DrivesRun, Driving
  <1>6. ASSUME RowsRest({t}), RetryIsFree(t)' \/ t \notin Pipelines, TaskFits(t)'
        PROVE  RunsInv'
    <2>1. At("clean.end") => \A r \in loop.runs : r[1] = t => r \in linked' /\ run'[r] = "recovering"
                                                             /\ exec'[t] \notin Taken
      BY <1>1, <1>3 DEF LoopOwns, Taken, Driving
    <2> QED
      BY <1>2, <1>3, <1>4, <1>5, <1>6, <2>1, RunsAfterThread
  <1>7. CASE FinishRefresh(t)
    <2>1. RowsRest({})
      BY <1>2, <1>7, RefreshRests DEF FinishRefresh
    <2>2. TaskRests(t) /\ PlanAdvances(PlanOf[t]) /\ RowsRest({t}) /\ t \in TasksOf(PlanOf[t])
      BY <1>2, <2>1 DEF RowsRest, TasksOf
    <2>3. attempts[t] = 0 => Current(t) \notin linked
      BY <1>2, RunFacts
    <2>4. RetryIsFree(t)' \/ t \notin Pipelines
      BY <1>1, <1>3, <1>5, <2>2, <2>3 DEF RetryIsFree, TaskFits, TaskRests, PlanAdvances
    <2>5. TaskFits(t)'
      BY <1>1, <1>3, <2>2 DEF TaskFits, TaskRests, PlanAdvances, Taken, Driving
    <2> QED BY <1>6, <2>2, <2>4, <2>5
  <1>8. CASE FinishSuccess(t)
    <2>1. /\ UNCHANGED plan /\ task[t] = "RUNNING" /\ task'[t] \in {"BLOCKED", "COMPLETED"}
          /\ \A q \in Tasks \ {t} : task'[q] = task[q]
      BY <1>1, <1>2, <1>8 DEF FinishSuccess, MoveTask, TaskFits, Taken, TypeOK
    <2>2. RowsRest({t})
      BY <2>1 DEF RowsRest, TaskRests, PlanAdvances, New, Open, Live, Terminal
    <2> QED
      BY <1>1, <1>3, <1>6, <2>1, <2>2 DEF RetryIsFree, TaskFits, Taken, Driving
  <1>9. CASE FinishFailure(t)
    <2>1. /\ UNCHANGED plan /\ exec[t] = "fail"
          /\ task'[t] \notin {"RUNNING", "PENDING"}
          /\ \A q \in Tasks \ {t} : task'[q] = task[q]
      <3>1. task[t] # "PENDING"
        BY <1>9 DEF FinishFailure, DaemonInv, OrderKept, Inert
      <3>2. CASE MoveTask(t, {"RUNNING"}, "BLOCKED")
        BY <1>2, <1>9, <3>1, <3>2 DEF FinishFailure, MoveTask, TypeOK
      <3>3. CASE SetTask(t, Retry(t))
        BY <1>2, <1>9, <3>3 DEF FinishFailure, SetTask, Retry, TypeOK
      <3> QED BY <1>9, <3>2, <3>3 DEF FinishFailure
    <2>2. RowsRest({t})
      BY <2>1 DEF RowsRest, TaskRests, PlanAdvances, New, Open, Live, Terminal
    <2>3. RetryIsFree(t)' \/ t \notin Pipelines
      BY <1>1, <1>3, <1>5, <2>1 DEF RetryIsFree
    <2>4. TaskFits(t)'
      BY <1>1, <1>3, <2>1 DEF TaskFits, Taken, Driving
    <2> QED BY <1>6, <2>2, <2>3, <2>4
  <1>10. CASE FinishWaitingHuman(t) \/ FinishCancellationRecovery(t)
    <2>1. task[t] # "PENDING"
      BY <1>10 DEF FinishWaitingHuman, FinishCancellationRecovery, DaemonInv, OrderKept, Inert
    <2>2. /\ \A q \in Tasks \ {t} : TaskRests(q)
          /\ task'[t] \notin {"RUNNING", "READY", "PENDING"}
             \/ (UNCHANGED task /\ task[t] \notin {"RUNNING", "PENDING"})
      <3>1. CASE StopPlanOf(t)
        BY <3>1, StopRests
      <3>2. CASE MoveTask(t, {"RUNNING", "BLOCKED"}, "BLOCKED")
        BY <1>2, <2>1, <3>2 DEF MoveTask, TypeOK, TaskRests
      <3> QED BY <1>10, <3>1, <3>2 DEF FinishWaitingHuman, FinishCancellationRecovery
    <2>3. \A p \in Plans : PlanAdvances(p)
      <3>1. \E from \in SUBSET Live : \E s, e :
              /\ s = "BLOCKED" \/ s = plan[PlanOf[t]]
              /\ Blame(PlanOf[t], from, s, e)
        BY <1>10 DEF FinishWaitingHuman, FinishCancellationRecovery, Live
      <3> QED BY <1>2, <3>1, BlameRests
    <2>4. RowsRest({t})
      BY <2>2, <2>3 DEF RowsRest
    <2>5. PlanAdvances(PlanOf[t])
      BY <1>2, <2>3
    <2>6. TaskFits(t)'
      BY <1>1, <1>3, <2>2, <2>5 DEF TaskFits, PlanAdvances, Taken, Driving
    <2>7. attempts[t] = 0 => Current(t) \notin linked
      BY <1>2, RunFacts
    <2>8. RetryIsFree(t)' \/ t \notin Pipelines
      BY <1>1, <1>3, <1>5, <2>2, <2>5, <2>7 DEF RetryIsFree, PlanAdvances, TaskFits
    <2> QED BY <1>6, <2>4, <2>6, <2>8
  <1> QED BY <1>7, <1>8, <1>9, <1>10

(* What the main loop, an operator or the recovery may do to a run: nothing *)
(* that its thread, if it has one, does not expect.                         *)
Untaken(r) == r = Current(r[1]) => exec[r[1]] \notin Taken
RunRests(r) ==
  \/ run'[r] = run[r] /\ (r \in approvals' => r \in approvals)
  \/ /\ Untaken(r)
     /\ run[r] \in Holding \cup {"failed"}
     /\ run'[r] \in {"waiting", "recovering", "cancelled", "completed"}
     /\ run'[r] = "completed" => run[r] = "committing"
     /\ run'[r] \in {"cancelled", "completed"} => r \notin approvals'

LEMMA RunsAfterOther ==
  ASSUME DaemonInv, RunsInv, UNCHANGED <<attempts, linked>>,
         \A t \in Tasks : exec'[t] = exec[t] \/ exec'[t] \in {"idle", "reserve"},
         NEW S \in SUBSET Tasks, RowsRest(S),
         \A t \in S : TaskFits(t)' /\ RetryIsFree(t)',
         \A r \in Runs : RunRests(r), LoopOwns'
  PROVE  RunsInv'
  <1>1. linked \subseteq Runs /\ loop.runs \subseteq Runs /\ \A q \in Tasks : attempts[q] \in Nat
    BY DEF DaemonInv, TypeInv, TypeOK
  <1>2. \A q : Current(q)' = Current(q) /\ Current(q)[1] = q
    BY RunFacts DEF Current
  <1>3. ASSUME NEW q \in Tasks \ S
        PROVE  TaskFits(q)' /\ (q \in Pipelines => RetryIsFree(q)')
    <2>1. TaskRests(q) /\ PlanAdvances(PlanOf[q]) /\ q \in TasksOf(PlanOf[q])
      BY RunFacts DEF RowsRest, TasksOf
    <2>2. TaskFits(q)'
      BY <2>1 DEF RunsInv, TaskFits, TaskRests, PlanAdvances, Taken, Driving
    <2>3. ASSUME q \in Pipelines PROVE RetryIsFree(q)'
      <3>1. SUFFICES ASSUME task'[q] = "READY" \/ exec[q] = "fail", plan'[PlanOf[q]] \in Open,
                            Current(q) \in linked
                     PROVE  run'[Current(q)] \notin Holding
        BY <1>2, <2>3 DEF RetryIsFree
      <3>2. attempts[q] # 0
        BY <1>1, <3>1, RunFacts
      <3>3. task[q] # "PENDING" /\ plan[PlanOf[q]] \notin New
        BY <3>2 DEF RunsInv, TaskFits
      <3>4. run[Current(q)] \notin Holding
        BY <2>1, <2>3, <3>1, <3>3 DEF RunsInv, RetryIsFree, TaskRests, PlanAdvances
      <3>5. RunRests(Current(q)) /\ run[Current(q)] # "failed"
        BY <1>1, <3>1 DEF RunsInv, RunFits
      <3> QED
        BY <3>4, <3>5 DEF RunRests
    <2> QED BY <2>2, <2>3
  <1>4. ASSUME NEW q \in Pipelines
        PROVE  DrivesRun(q)'
    <2>1. CASE exec'[q] # exec[q]
      BY <2>1, RunFacts DEF DrivesRun, Driving
    <2>2. CASE exec[q] \notin Taken
      BY <2>2, RunFacts DEF DrivesRun, Driving, Taken
    <2>3. CASE exec'[q] = exec[q] /\ exec[q] \in Taken
      <3>1. Current(q) \in Runs
        <4>1. exec[q] \in {"begin", "link"} => Current(q) \in Runs
          BY CurrentTyped, RunFacts DEF DaemonInv, TypeInv, ThreadsTyped
        <4>2. exec[q] \in (Driving \ {"link"}) \cup {"succeed"} => Current(q) \in Runs
          BY <1>1 DEF RunsInv, DrivesRun
        <4> QED BY <2>3, <4>1, <4>2 DEF Taken
      <3>2. run'[Current(q)] = run[Current(q)]
        BY <1>2, <2>3, <3>1 DEF RunRests, Untaken
      <3> QED BY <1>2, <2>3, <3>2 DEF RunsInv, DrivesRun
    <2> QED BY <2>1, <2>2, <2>3
  <1>5. ASSUME NEW r \in Runs
        PROVE  RunFits(r)'
    <2>1. RunRests(r) /\ RunFits(r) /\ (r = Current(r[1]))' = (r = Current(r[1]))
      BY <1>2 DEF RunsInv
    <2>2. r[2] > attempts[r[1]] => run'[r] = "none" /\ r \notin linked
      BY <2>1, HoldingNames DEF RunFits, RunRests
    <2>3. r \in linked => /\ run'[r] \notin {"none", "failed"}
                          /\ run'[r] \in Holding => r = Current(r[1])
      BY <2>1, HoldingNames DEF RunFits, RunRests
    <2>4. run'[r] \in {"committing", "completed"} => r \in linked
      BY <2>1 DEF RunFits, RunRests
    <2>5. r \in approvals' => run'[r] \in {"waiting", "recovering"}
      BY <2>1 DEF RunFits, RunRests
    <2> QED
      BY <2>1, <2>2, <2>3, <2>4, <2>5 DEF RunFits
  <1>6. \A t \in Pipelines : DrivesRun(t)' /\ RetryIsFree(t)'
    BY <1>3, <1>4, RunFacts
  <1>7. \A t \in Tasks : TaskFits(t)'
    BY <1>3
  <1> QED
    BY <1>5, <1>6, <1>7 DEF RunsInv

(* A run that waits for a human has no thread.                              *)
LEMMA WaitingIsUntaken ==
  ASSUME DaemonInv, RunsInv, NEW r \in Runs, run[r] = "waiting"
  PROVE  Untaken(r)
  BY RunFacts DEF RunsInv, DrivesRun, Untaken, Taken, Driving

LEMMA RunsInLoop ==
  ASSUME DaemonInv, RunsInv, LoopStep
  PROVE  RunsInv'
  <1>1. TypeOK /\ linked \subseteq Runs /\ loop.runs \subseteq Runs /\ loop.plans \subseteq Plans
    BY DEF DaemonInv, TypeInv, TypeOK
  <1>2. UNCHANGED <<attempts, linked>> /\ \A t \in Tasks : exec'[t] = exec[t] \/ exec'[t] = "reserve"
    BY DEF LoopStep, Start, RefreshNext, ReconcileObjectives, CleanWaiting, CleanWaitingEnd,
           Synchronize, Dispatch, Promote, RefreshPromoted, SubmitRunnable, planVars, runVars
  <1>3. ASSUME UNCHANGED <<run, approvals>>
        PROVE  \A r \in Runs : RunRests(r)
    BY <1>3 DEF RunRests
  <1>4. ASSUME RowsRest({}), UNCHANGED <<run, approvals>>, ~At("clean.end")'
        PROVE  RunsInv'
    BY <1>2, <1>3, <1>4, RunsAfterOther DEF LoopOwns
  <1>5. CASE Start
    <2>1. /\ UNCHANGED <<plan, run, approvals>> /\ ~At("clean.end")'
          /\ \A t \in Tasks : exec[t] = "idle" /\ exec'[t] = "idle" /\ task'[t] = Reconciled(t)
      BY <1>5 DEF Start, DaemonInv, OrderKept, runVars, LoopAt, At
    <2> DEFINE S == {t \in Tasks : task[t] = "RUNNING"}
    <2>2. RowsRest(S)
      BY <2>1 DEF RowsRest, TaskRests, PlanAdvances, Reconciled, New, Open, Live, Terminal
    <2>3. ASSUME NEW t \in S PROVE TaskFits(t)' /\ RetryIsFree(t)'
      <3>1. task'[t] \in {"RUNNING", "COMPLETED", "READY", "FAILED"} /\ task[t] = "RUNNING"
            /\ TaskFits(t)
        BY <2>1 DEF Reconciled, Retry, RunsInv
      <3>2. TaskFits(t)'
        BY <1>2, <2>1, <3>1 DEF TaskFits, Taken, Driving
      <3>3. RetryIsFree(t)'
        <4>1. SUFFICES ASSUME task'[t] = "READY", Current(t) \in linked
                       PROVE  run[Current(t)] \notin Holding
          BY <1>2, <2>1 DEF RetryIsFree, Current
        <4>2. t \in Pipelines
          BY <1>1, <4>1, RunFacts
        <4> QED BY <2>1, <3>1, <4>1, <4>2 DEF Reconciled
      <3> QED BY <3>2, <3>3
    <2> HIDE DEF S
    <2>4. S \in SUBSET Tasks
      BY DEF S
    <2> QED
      BY <1>2, <1>3, <2>1, <2>2, <2>3, <2>4, RunsAfterOther DEF LoopOwns
  <1>6. CASE RefreshNext("startup") \/ RefreshNext("refresh") \/ RefreshPromoted
    <2>1. RowsRest({}) /\ UNCHANGED <<run, approvals>>
      BY <1>1, <1>6, RefreshRests DEF RefreshNext, RefreshPromoted, runVars
    <2>2. ~At("clean.end")'
      BY <1>6 DEF RefreshNext, RefreshPromoted, LoopAt, At
    <2> QED BY <1>4, <2>1, <2>2
  <1>7. CASE ReconcileObjectives \/ Dispatch \/ SubmitRunnable
    <2>1. UNCHANGED <<task, plan, run, approvals>> /\ ~At("clean.end")'
      BY <1>7 DEF ReconcileObjectives, Dispatch, SubmitRunnable, LeaveDispatch, LoopAt, At,
                  planVars, runVars
    <2> QED BY <1>4, <2>1, NothingRests
  <1>8. CASE Synchronize
    <2>1. RowsRest({})
      BY <1>8, CancelRests DEF Synchronize, Quiet
    <2>2. UNCHANGED <<run, approvals>> /\ ~At("clean.end")'
      BY <1>8 DEF Synchronize, runVars, LoopAt, At
    <2> QED BY <1>4, <2>1, <2>2
  <1>9. CASE Promote
    <2>1. UNCHANGED <<task, run, approvals>> /\ ~At("clean.end")'
          /\ \E p \in Plans : Blame(p, {"DRAFT"}, "READY", "none") \/ UNCHANGED <<plan, planError>>
      BY <1>1, <1>9 DEF Promote, LeaveDispatch, LoopAt, At, runVars
    <2>2. \A p \in Plans : PlanAdvances(p)
      <3>1. CASE UNCHANGED plan
        BY <3>1 DEF PlanAdvances, New, Open, Live, Terminal
      <3>2. CASE \E p \in Plans : Blame(p, {"DRAFT"}, "READY", "none")
        BY <3>2, BlameRests
      <3> QED BY <2>1, <3>1, <3>2
    <2>3. RowsRest({})
      BY <2>1, <2>2 DEF RowsRest, TaskRests
    <2> QED BY <1>4, <2>1, <2>3
  <1>10. CASE CleanWaiting
    <2>1. UNCHANGED <<task, plan, approvals, exec>>
      BY <1>10 DEF CleanWaiting, planVars
    <2>4. RowsRest({})
      BY <2>1, NothingRests
    <2>2. CASE UNCHANGED run /\ LoopAt("sync", {}, {})
      BY <1>4, <2>1, <2>2, <2>4 DEF LoopAt, At
    <2>3. CASE \E r \in WaitingCancelled : SetRun(r, "recovering") /\ LoopAt("clean.end", {}, {r})
      <3>1. PICK r \in linked : run[r] = "waiting" /\ SetRun(r, "recovering") /\ LoopAt("clean.end", {}, {r})
        BY <2>3 DEF WaitingCancelled
      <3>2. /\ r \in Runs /\ run'[r] = "recovering" /\ \A q \in Runs \ {r} : run'[q] = run[q]
            /\ loop'.runs = {r}
        BY <1>1, <3>1 DEF SetRun, LoopAt, TypeOK
      <3>3. Untaken(r) /\ r = Current(r[1])
        BY <3>1, <3>2, WaitingIsUntaken, HoldingNames DEF RunsInv, RunFits
      <3>4. \A q \in Runs : RunRests(q)
        BY <2>1, <3>1, <3>2, <3>3, HoldingNames DEF RunRests
      <3>5. LoopOwns'
        BY <1>2, <2>1, <3>1, <3>2, <3>3 DEF LoopOwns, Untaken
      <3> QED
        BY <1>2, <2>1, <2>4, <3>4, <3>5, RunsAfterOther
    <2> QED BY <1>10, <2>2, <2>3 DEF CleanWaiting
  <1>11. CASE CleanWaitingEnd
    <2>1. PICK r \in loop.runs :
            \/ /\ SetRun(r, "cancelled") /\ approvals' = approvals \ {r}
               /\ UNCHANGED <<task, plan, planError, faults>>
            \/ MarkRecovery(r)
      BY <1>11 DEF CleanWaitingEnd
    <2>2. /\ r \in Runs /\ r[1] \in Tasks /\ run[r] = "recovering" /\ exec[r[1]] \notin Taken
          /\ ~At("clean.end")' /\ r \in linked /\ UNCHANGED exec
      BY <1>1, <1>11, RunFacts DEF CleanWaitingEnd, RunsInv, LoopOwns, LoopAt, At
    <2>3. /\ run'[r] \in {"cancelled", "recovering"} /\ r \notin approvals'
          /\ \A q \in Runs \ {r} : run'[q] = run[q] /\ (q \in approvals' => q \in approvals)
      BY <1>1, <2>1, <2>2 DEF SetRun, MarkRecovery, TypeOK
    <2>4. \A q \in Runs : RunRests(q)
      BY <2>2, <2>3, HoldingNames DEF RunRests, Untaken
    <2>5. RowsRest({r[1]}) /\ TaskFits(r[1])' /\ RetryIsFree(r[1])'
      <3>1. CASE UNCHANGED <<task, plan>>
        <4>1. TaskFits(r[1]) /\ RetryIsFree(r[1]) /\ Current(r[1])' = Current(r[1])
          BY <1>2, <2>2, RunFacts DEF RunsInv, Current
        <4>2. run'[Current(r[1])] \in Holding => run[Current(r[1])] \in Holding
          BY <2>2, <2>3, <4>1, HoldingNames DEF RunsInv, RunFits
        <4> QED
          BY <1>2, <2>2, <3>1, <4>1, <4>2, NothingRests DEF TaskFits, RetryIsFree
      <3>2. CASE MarkRecovery(r)
        <4>1. /\ RowsRest({r[1]}) /\ plan'[PlanOf[r[1]]] \notin Open
              /\ task'[r[1]] \notin {"PENDING", "READY", "RUNNING"}
          BY <2>2, <3>2, MarkRests
        <4>2. PlanAdvances(PlanOf[r[1]])
          BY <2>2, <4>1, RunFacts DEF RowsRest
        <4> QED
          BY <1>2, <2>2, <4>1, <4>2 DEF RunsInv, TaskFits, RetryIsFree, PlanAdvances
      <3> QED BY <2>1, <3>1, <3>2
    <2> QED
      BY <1>2, <2>2, <2>4, <2>5, RunsAfterOther DEF LoopOwns
  <1> QED
    BY <1>5, <1>6, <1>7, <1>8, <1>9, <1>10, <1>11 DEF LoopStep

LEMMA RunsInCommands ==
  ASSUME DaemonInv, RunsInv, NEW p \in Plans,
         \/ FinishPlanning(p) \/ Submit(p) \/ Pause(p) \/ Resume(p) \/ Cancel(p)
         \/ ActivatePlan(p) \/ CancelPlan(p)
  PROVE  RunsInv'
  <1>1. UNCHANGED <<attempts, run, linked, approvals, exec, loop>>
    BY DEF FinishPlanning, Submit, Pause, Resume, Cancel, ActivatePlan, CancelPlan, runVars, planVars
  <1>2. LoopOwns' /\ \A r \in Runs : RunRests(r)
    BY <1>1 DEF RunRests, RunsInv, LoopOwns, At
  <1>3. ASSUME RowsRest({})
        PROVE  RunsInv'
    BY <1>1, <1>2, <1>3, RunsAfterOther
  <1>4. CASE Pause(p) \/ Resume(p)
    BY <1>3, <1>4, NothingRests DEF Pause, Resume, planVars
  <1>5. CASE Cancel(p)
    <2>1. CASE UNCHANGED <<task, plan, planError>>
      BY <1>3, <2>1, NothingRests
    <2>2. CASE CancelPlans({p}) /\ RunningOf(p) = {}
      BY <1>3, <2>2, CancelRests
    <2> QED BY <1>5, <2>1, <2>2 DEF Cancel
  <1>6. CASE CancelPlan(p)
    BY <1>3, <1>6, CancelRests DEF CancelPlan
  <1>7. CASE ActivatePlan(p)
    BY <1>3, <1>7, RefreshAsRests, StateNames DEF ActivatePlan, PlanStates, Live
  <1>8. CASE Submit(p) \/ FinishPlanning(p)
    <2>1. plan[p] = "NONE"
      BY <1>8, PlannersTyped DEF Submit, FinishPlanning
    <2>2. \A t \in Tasks : PlanOf[t] = p => task[t] = "PENDING" /\ exec[t] = "idle" /\ attempts[t] = 0
      BY <2>1 DEF DaemonInv, NoPlanYet, RunsInv, TaskFits
    <2>3. /\ \A q \in Plans \ {p} : plan'[q] = plan[q]
          /\ plan'[p] \in {"NONE", "DRAFT", "READY", "CANCELLED"}
          /\ \A t \in Tasks : task'[t] = task[t] \/ (PlanOf[t] = p /\ task'[t] = "CANCELLED")
      BY <1>8, <2>1 DEF Submit, FinishPlanning, DaemonInv, TypeInv, TypeOK
    <2>4. RowsRest({})
      BY <2>1, <2>2, <2>3 DEF RowsRest, TaskRests, PlanAdvances, New, Open, Live, Terminal
    <2> QED BY <1>3, <2>4
  <1> QED BY <1>4, <1>5, <1>6, <1>7, <1>8

LEMMA RunsInRecovery ==
  ASSUME DaemonInv, RunsInv, \/ \E r \in Runs : RollBackWaiting(r) \/ Recover(r)
                             \/ Crash
  PROVE  RunsInv'
  <1>1. TypeOK /\ linked \subseteq Runs /\ loop.runs \subseteq Runs
    BY DEF DaemonInv, TypeInv, TypeOK
  <1>2. UNCHANGED <<attempts, linked, task, plan>>
        /\ \A t \in Tasks : exec'[t] = exec[t] \/ exec'[t] = "idle"
    BY DEF RollBackWaiting, Recover, Crash, planVars, runVars
  <1>6. RowsRest({})
    BY <1>2, NothingRests
  <1>3. CASE Crash
    <2>1. UNCHANGED <<run, approvals>> /\ ~At("clean.end")'
      BY <1>3 DEF Crash, runVars, LoopAt, At
    <2> QED
      BY <1>2, <1>6, <2>1, RunsAfterOther DEF RunRests, LoopOwns
  <1>4. ASSUME NEW r \in Runs, RollBackWaiting(r)
        PROVE  RunsInv'
    <2>1. /\ UNCHANGED <<approvals, exec, loop>> /\ run[r] = "waiting" /\ run'[r] = "recovering"
          /\ \A q \in Runs \ {r} : run'[q] = run[q]
      BY <1>1, <1>4 DEF RollBackWaiting, SetRun, TypeOK
    <2>2. \A q \in Runs : RunRests(q)
      BY <2>1, WaitingIsUntaken, HoldingNames DEF RunRests
    <2>3. LoopOwns'
      BY <1>1, <1>2, <2>1 DEF RunsInv, LoopOwns, At
    <2> QED
      BY <1>2, <1>6, <2>1, <2>2, <2>3, RunsAfterOther
  <1>5. ASSUME NEW r \in Runs, Recover(r)
        PROVE  RunsInv'
    <2>1. PICK s \in Phases :
            /\ <<run[r], s>> \in Lifecycle!RecoveryMoves
            /\ SetRun(r, s)
            /\ approvals' = CASE s = "waiting" -> approvals \cup {r}
                              [] s = "cancelled" -> approvals \ {r}
                              [] OTHER -> approvals
      BY <1>5 DEF Recover
    <2>2. /\ UNCHANGED <<exec, loop>> /\ run'[r] = s /\ \A q \in Runs \ {r} : run'[q] = run[q]
      BY <1>1, <1>5, <2>1 DEF Recover, SetRun, TypeOK
    <2>3. /\ run[r] \in {"open", "committing", "recovering", "failed"}
          /\ s \in {"waiting", "recovering", "cancelled", "completed"}
          /\ s = "completed" => run[r] = "committing"
      BY <2>1 DEF Lifecycle!RecoveryMoves, Lifecycle!Holding
    <2>4. Untaken(r)
      <3>1. r = Current(r[1]) => exec[r[1]] \notin Driving
        BY <1>5 DEF Recover, Driven, Driving, RollbackSteps, EndOf
      <3> QED
        BY <2>3, <3>1, RunFacts DEF RunsInv, DrivesRun, Untaken, Taken
    <2>5. \A q \in Runs \ {r} : q \in approvals' => q \in approvals
      BY <2>1
    <2>6. s \in {"cancelled", "completed"} => r \notin approvals'
      BY <2>1, <2>3 DEF RunsInv, RunFits
    <2>7. \A q \in Runs : RunRests(q)
      BY <2>2, <2>3, <2>4, <2>5, <2>6, HoldingNames DEF RunRests
    <2>8. LoopOwns'
      <3>1. ~(At("clean.end") /\ r \in loop.runs)
        BY <1>5 DEF Recover, Driven
      <3> QED
        BY <1>1, <1>2, <2>2, <3>1 DEF RunsInv, LoopOwns, At
    <2> QED
      BY <1>2, <1>6, <2>2, <2>7, <2>8, RunsAfterOther
  <1> QED BY <1>3, <1>4, <1>5

LEMMA RunsInvStep ==
  ASSUME DaemonInv, RunsInv, [Next]_vars
  PROVE  RunsInv'
  <1>1. CASE UNCHANGED vars
    BY <1>1 DEF vars, queueVars, planVars, runVars, boundVars, RunsInv, DrivesRun, RunFits,
                RetryIsFree, TaskFits, LoopOwns, Current, At
  <1>2. CASE \E t \in Tasks : ThreadStep(t)
    <2>1. PICK t \in Tasks : ThreadStep(t)
      BY <1>2
    <2>2. Apply(t) \/ Commit(t) \/ Rollback(t) \/ RollbackEnd(t) => t \in Pipelines
      <3>1. Apply(t) \/ Commit(t) \/ Rollback(t) \/ RollbackEnd(t) => exec[t] \in Taken \ {"work", "succeed"}
        BY RollbackNames DEF Apply, Commit, Rollback, RollbackEnd, Taken, Driving
      <3> QED BY <3>1 DEF RunsInv, TaskFits
    <2> QED
      BY <2>1, <2>2, RunsWhileStarting, RunsWhileIntegrating, RunsWhileEnding DEF ThreadStep
  <1>3. CASE LoopStep
    BY <1>3, RunsInLoop
  <1>4. CASE \E p \in Plans : \/ FinishPlanning(p) \/ Submit(p) \/ Pause(p) \/ Resume(p)
                              \/ Cancel(p) \/ ActivatePlan(p) \/ CancelPlan(p)
    BY <1>4, RunsInCommands
  <1>5. CASE (\E r \in Runs : RollBackWaiting(r) \/ Recover(r)) \/ Crash
    BY <1>5, RunsInRecovery
  <1> QED BY <1>1, <1>2, <1>3, <1>4, <1>5 DEF Next

LEMMA RunsInvariant == Spec => [](DaemonInv /\ RunsInv)
  <1>1. DaemonInv /\ RunsInv /\ [Next]_vars => (DaemonInv /\ RunsInv)'
    BY DaemonInvStep, RunsInvStep
  <1> QED BY <1>1, DaemonInvInit, RunsInvInit, PTL DEF Spec

-----------------------------------------------------------------------------
(* What any step does: to the rows, to the threads, to the runs and to the  *)
(* objectives.                                                              *)
Cleans(q) == /\ At("clean.end") /\ UNCHANGED exec
             /\ task'[q] = task[q] \/ (task'[q] = "BLOCKED" /\ task[q] # "COMPLETED")
             /\ \E r \in loop.runs : r[1] = q

LEMMA ThreadRests ==
  ASSUME DaemonInv, RunsInv, NEW t \in Tasks, ThreadStep(t)
  PROVE  RowsRest({t}) /\ \A q \in Tasks \ {t} : exec'[q] = exec[q] /\ attempts'[q] = attempts[q]
  <1>1. TypeOK /\ PlanOf[t] \in Plans
    BY RunFacts DEF DaemonInv, TypeInv, TypeOK
  <1>2. \A q \in Tasks \ {t} : exec'[q] = exec[q] /\ attempts'[q] = attempts[q]
    BY <1>1
    DEF ThreadStep, ReserveAttempt, Begin, Link, Work, Check, Apply, Commit, Rollback, RollbackEnd,
        FinishSuccess, FinishWaitingHuman, FinishCancellationRecovery, FinishFailure, FinishRefresh,
        Goto, planVars, TypeOK
  <1>3. CASE UNCHANGED <<task, plan>>
    BY <1>2, <1>3, NothingRests
  <1>4. CASE UNCHANGED plan /\ \E s : SetTask(t, s) \/ MoveTask(t, {"RUNNING"}, s)
    <2>1. \A q \in Tasks \ {t} : task'[q] = task[q]
      BY <1>1, <1>4 DEF SetTask, MoveTask, TypeOK
    <2> QED
      BY <1>2, <1>4, <2>1 DEF RowsRest, TaskRests, PlanAdvances, New, Open, Live, Terminal
  <1>5. CASE MarkRecovery(Current(t)) /\ exec[t] \in Taken \ {"begin", "link"} /\ t \in Pipelines
    <2>1. Current(t) \in Runs
      BY <1>1, <1>5 DEF RunsInv, DrivesRun, Taken, TypeOK
    <2> QED BY <1>2, <1>5, <2>1, MarkRests, RunFacts
  <1>6. CASE FinishWaitingHuman(t) \/ FinishCancellationRecovery(t)
    <2>1. \A q \in Tasks \ {t} : TaskRests(q)
      <3>1. CASE StopPlanOf(t)
        BY <3>1, StopRests
      <3>2. CASE MoveTask(t, {"RUNNING", "BLOCKED"}, "BLOCKED")
        BY <1>1, <3>2 DEF MoveTask, TypeOK, TaskRests
      <3> QED BY <1>6, <3>1, <3>2 DEF FinishWaitingHuman, FinishCancellationRecovery
    <2>2. \A p \in Plans : PlanAdvances(p)
      <3>1. \E from \in SUBSET Live : \E s, e :
              /\ s = "BLOCKED" \/ s = plan[PlanOf[t]]
              /\ Blame(PlanOf[t], from, s, e)
        BY <1>6 DEF FinishWaitingHuman, FinishCancellationRecovery, Live
      <3> QED BY <1>1, <3>1, BlameRests
    <2> QED BY <1>2, <2>1, <2>2 DEF RowsRest
  <1>7. CASE Refresh(PlanOf[t])
    <2>1. RowsRest({})
      BY <1>1, <1>7, RefreshRests
    <2> QED BY <1>2, <2>1 DEF RowsRest
  <1>8. Rollback(t) \/ RollbackEnd(t) => exec[t] \in Taken \ {"begin", "link", "work", "succeed"}
    BY RollbackNames DEF Rollback, RollbackEnd, Taken, Driving
  <1>9. Rollback(t) \/ RollbackEnd(t) => UNCHANGED <<task, plan>> \/ MarkRecovery(Current(t))
    BY DEF Rollback, RollbackEnd
  <1>10. Rollback(t) \/ RollbackEnd(t) => t \in Pipelines
    BY <1>8 DEF RunsInv, TaskFits
  <1>11. CASE Rollback(t) \/ RollbackEnd(t)
    BY <1>3, <1>5, <1>8, <1>9, <1>10, <1>11
  <1>12. CASE ReserveAttempt(t) \/ FinishSuccess(t) \/ FinishFailure(t)
    BY <1>3, <1>4, <1>12 DEF ReserveAttempt, FinishSuccess, FinishFailure
  <1>13. CASE Begin(t) \/ Link(t) \/ Work(t) \/ Check(t) \/ Apply(t) \/ Commit(t)
    BY <1>3, <1>13 DEF Begin, Link, Work, Check, Apply, Commit, planVars
  <1>14. CASE FinishRefresh(t)
    BY <1>7, <1>14 DEF FinishRefresh
  <1> QED BY <1>6, <1>11, <1>12, <1>13, <1>14 DEF ThreadStep

LEMMA OtherRests ==
  ASSUME DaemonInv, RunsInv,
         \/ LoopStep \/ (\E r \in Runs : RollBackWaiting(r) \/ Recover(r)) \/ Crash
         \/ \E p \in Plans : \/ FinishPlanning(p) \/ Submit(p) \/ Pause(p) \/ Resume(p) \/ Cancel(p)
                             \/ ActivatePlan(p) \/ CancelPlan(p)
  PROVE  /\ \A p \in Plans : PlanAdvances(p)
         /\ \A q \in Tasks : TaskRests(q) \/ Start \/ Cleans(q)
         /\ \A q \in Tasks : \/ exec'[q] \in {exec[q], "idle"}
                             \/ exec'[q] = "reserve" /\ exec[q] = "idle" /\ task[q] = "READY"
         /\ UNCHANGED attempts
  <1>1. TypeOK /\ loop.runs \subseteq Runs /\ loop.plans \subseteq Plans
    BY DEF DaemonInv, TypeInv, TypeOK
  <1>2. /\ UNCHANGED attempts
        /\ \A q \in Tasks : \/ exec'[q] \in {exec[q], "idle"}
                            \/ exec'[q] = "reserve" /\ exec[q] = "idle" /\ task[q] = "READY"
    <2>1. CASE LoopStep
      <3>1. CASE SubmitRunnable
        BY <3>1 DEF SubmitRunnable, Runnable, planVars
      <3>2. CASE Start
        BY <3>2 DEF Start
      <3>3. CASE RefreshNext("startup") \/ RefreshNext("refresh") \/ RefreshPromoted
        BY <3>3 DEF RefreshNext, RefreshPromoted
      <3>4. CASE ReconcileObjectives \/ CleanWaiting \/ CleanWaitingEnd
        BY <3>4 DEF ReconcileObjectives, CleanWaiting, CleanWaitingEnd, planVars
      <3>5. CASE Synchronize \/ Dispatch \/ Promote
        BY <3>5 DEF Synchronize, Dispatch, Promote, planVars
      <3> QED
        BY <2>1, <3>1, <3>2, <3>3, <3>4, <3>5 DEF LoopStep
    <2>2. CASE (\E r \in Runs : RollBackWaiting(r) \/ Recover(r)) \/ Crash
      BY <2>2 DEF RollBackWaiting, Recover, Crash, planVars
    <2>3. CASE \E p \in Plans : \/ FinishPlanning(p) \/ Submit(p) \/ Pause(p) \/ Resume(p)
                                \/ Cancel(p) \/ ActivatePlan(p) \/ CancelPlan(p)
      BY <2>3
      DEF FinishPlanning, Submit, Pause, Resume, Cancel, ActivatePlan, CancelPlan, planVars, runVars
    <2> QED BY <2>1, <2>2, <2>3
  <1>3. ASSUME RowsRest({})
        PROVE  (\A p \in Plans : PlanAdvances(p)) /\ \A q \in Tasks : TaskRests(q)
    BY <1>3 DEF RowsRest
  <1>4. CASE Start
    BY <1>2, <1>4 DEF Start, PlanAdvances, New, Open, Live, Terminal
  <1>5. CASE RefreshNext("startup") \/ RefreshNext("refresh") \/ RefreshPromoted
    <2>1. RowsRest({})
      BY <1>1, <1>5, RefreshRests DEF RefreshNext, RefreshPromoted
    <2> QED BY <1>2, <1>3, <2>1
  <1>6. CASE \/ ReconcileObjectives \/ Dispatch \/ SubmitRunnable \/ CleanWaiting \/ Crash
             \/ \E r \in Runs : RollBackWaiting(r) \/ Recover(r)
    <2>1. UNCHANGED <<task, plan>>
      BY <1>6 DEF ReconcileObjectives, Dispatch, SubmitRunnable, CleanWaiting, Crash, RollBackWaiting,
                  Recover, planVars
    <2> QED BY <1>2, <1>3, <2>1, NothingRests
  <1>7. CASE Synchronize
    <2>1. RowsRest({})
      BY <1>7, CancelRests DEF Synchronize, Quiet
    <2> QED BY <1>2, <1>3, <2>1
  <1>8. CASE Promote
    <2>1. UNCHANGED task
          /\ \E p \in Plans : Blame(p, {"DRAFT"}, "READY", "none") \/ UNCHANGED <<plan, planError>>
      BY <1>1, <1>8 DEF Promote
    <2>2. \A p \in Plans : PlanAdvances(p)
      <3>1. CASE UNCHANGED plan
        BY <3>1 DEF PlanAdvances, New, Open, Live, Terminal
      <3>2. CASE \E p \in Plans : Blame(p, {"DRAFT"}, "READY", "none")
        BY <3>2, BlameRests
      <3> QED BY <2>1, <3>1, <3>2
    <2> QED BY <1>2, <2>1, <2>2 DEF TaskRests
  <1>9. CASE CleanWaitingEnd
    <2>1. PICK r \in loop.runs : UNCHANGED <<task, plan>> \/ MarkRecovery(r)
      BY <1>9 DEF CleanWaitingEnd
    <2>2. RowsRest({r[1]})
      BY <1>1, <2>1, NothingRests, MarkRests
    <2>3. Cleans(r[1])
      BY <1>1, <1>9, <2>1, MarkRests DEF CleanWaitingEnd, Cleans
    <2> QED BY <1>2, <2>2, <2>3 DEF RowsRest
  <1>10. ASSUME NEW p \in Plans,
                \/ FinishPlanning(p) \/ Submit(p) \/ Pause(p) \/ Resume(p) \/ Cancel(p)
                \/ ActivatePlan(p) \/ CancelPlan(p)
         PROVE  RowsRest({})
    <2>1. CASE Pause(p) \/ Resume(p)
      BY <2>1, NothingRests DEF Pause, Resume, planVars
    <2>2. CASE Cancel(p)
      BY <2>2, NothingRests, CancelRests DEF Cancel
    <2>3. CASE CancelPlan(p)
      BY <2>3, CancelRests DEF CancelPlan
    <2>4. CASE ActivatePlan(p)
      BY <2>4, RefreshAsRests, StateNames DEF ActivatePlan, PlanStates, Live
    <2>5. CASE Submit(p) \/ FinishPlanning(p)
      <3>1. plan[p] = "NONE"
        BY <2>5, PlannersTyped DEF Submit, FinishPlanning
      <3>2. \A t \in Tasks : PlanOf[t] = p => task[t] = "PENDING"
        BY <3>1 DEF DaemonInv, NoPlanYet
      <3>3. /\ \A q \in Plans \ {p} : plan'[q] = plan[q]
            /\ plan'[p] \in {"NONE", "DRAFT", "READY", "CANCELLED"}
            /\ \A t \in Tasks : task'[t] = task[t] \/ (PlanOf[t] = p /\ task'[t] = "CANCELLED")
        BY <2>5, <3>1 DEF Submit, FinishPlanning, DaemonInv, TypeInv, TypeOK
      <3> QED
        BY <3>1, <3>2, <3>3 DEF RowsRest, TaskRests, PlanAdvances, New, Open, Live, Terminal
    <2> QED BY <1>10, <2>1, <2>2, <2>3, <2>4, <2>5
  <1>11. CASE \E p \in Plans : \/ FinishPlanning(p) \/ Submit(p) \/ Pause(p) \/ Resume(p)
                               \/ Cancel(p) \/ ActivatePlan(p) \/ CancelPlan(p)
    BY <1>2, <1>3, <1>10, <1>11
  <1> QED
    BY <1>4, <1>5, <1>6, <1>7, <1>8, <1>9, <1>11 DEF LoopStep

LEMMA StepRests ==
  ASSUME DaemonInv, RunsInv, [Next]_vars
  PROVE  /\ \A p \in Plans : PlanAdvances(p)
         /\ \A q \in Tasks : TaskRests(q) \/ ThreadStep(q) \/ Start \/ Cleans(q)
         /\ \A q \in Tasks : \/ exec'[q] \in {exec[q], "idle"} \/ ThreadStep(q)
                             \/ exec'[q] = "reserve" /\ exec[q] = "idle" /\ task[q] = "READY"
         /\ \A q \in Tasks : attempts'[q] = attempts[q] \/ (ReserveAttempt(q) /\ MayStart(q))
  <1>1. CASE UNCHANGED vars
    <2>1. UNCHANGED <<task, plan, exec, attempts>>
      BY <1>1 DEF vars, planVars
    <2>2. RowsRest({})
      BY <2>1, NothingRests
    <2> QED BY <2>1, <2>2 DEF RowsRest
  <1>2. ASSUME NEW t \in Tasks, ThreadStep(t)
        PROVE  /\ \A p \in Plans : PlanAdvances(p)
               /\ \A q \in Tasks : TaskRests(q) \/ ThreadStep(q)
               /\ \A q \in Tasks : exec'[q] = exec[q] \/ ThreadStep(q)
               /\ \A q \in Tasks : attempts'[q] = attempts[q] \/ (ReserveAttempt(q) /\ MayStart(q))
    <2>1. ~(ReserveAttempt(t) /\ MayStart(t)) => UNCHANGED attempts
      BY <1>2
      DEF ThreadStep, ReserveAttempt, Begin, Link, Work, Check, Apply, Commit, Rollback, RollbackEnd,
          FinishSuccess, FinishWaitingHuman, FinishCancellationRecovery, FinishFailure, FinishRefresh,
          planVars
    <2> QED
      BY <1>2, <2>1, ThreadRests DEF RowsRest
  <1> QED
    BY <1>1, <1>2, OtherRests DEF Next

(* A step moves one run at most, as the life of a run allows; only its own  *)
(* thread moves a run that has one, and only the integrator prepares it.    *)
RunMoves(r) ==
  /\ <<run[r], run'[r]>> \in Lifecycle!Moves
  /\ (ThreadStep(r[1]) /\ r = Current(r[1])) \/ Untaken(r)
  /\ run'[r] = "committing" => Apply(r[1]) /\ r \in prepared' /\ ~CancelWanted(PlanOf[r[1]])
  /\ run' = [run EXCEPT ![r] = run'[r]]

LEMMA SetRunMoves ==
  ASSUME DaemonInv, NEW r \in Runs, NEW s, SetRun(r, s), <<run[r], s>> \in Lifecycle!Moves,
         (ThreadStep(r[1]) /\ r = Current(r[1])) \/ Untaken(r),
         s = "committing" => Apply(r[1]) /\ r \in prepared' /\ ~CancelWanted(PlanOf[r[1]])
  PROVE  \E q \in Runs : RunMoves(q)
  <1>1. run'[r] = s
    BY DEF SetRun, DaemonInv, TypeInv, TypeOK
  <1> QED BY <1>1 DEF RunMoves, SetRun

LEMMA LifeMoves ==
  /\ {<<"none", "open">>, <<"open", "failed">>, <<"open", "waiting">>, <<"open", "committing">>,
      <<"committing", "completed">>, <<"committing", "recovering">>, <<"waiting", "recovering">>,
      <<"recovering", "recovering">>, <<"recovering", "cancelled">>} \subseteq Lifecycle!Moves
  /\ \A a \in Holding : <<a, "recovering">> \in Lifecycle!Moves
  /\ Lifecycle!RecoveryMoves \subseteq Lifecycle!Moves
  BY DEF Lifecycle!Moves, Lifecycle!DriverMoves, Lifecycle!RecoveryMoves, Lifecycle!Holding, Holding

LEMMA ThreadRuns ==
  ASSUME DaemonInv, RunsInv, NEW t \in Tasks, ThreadStep(t)
  PROVE  /\ UNCHANGED run \/ \E r \in Runs : RunMoves(r)
         /\ prepared \subseteq prepared' /\ linked \subseteq linked'
         /\ linked' = linked \/ (Link(t) /\ linked' = linked \cup {Current(t)})
  <1> DEFINE c == Current(t)
  <1>1. TypeOK /\ (t \in Pipelines => DrivesRun(t)) /\ TaskFits(t)
    BY DEF DaemonInv, TypeInv, RunsInv
  <1>2. c[1] = t /\ c = Current(c[1])
    BY RunFacts
  <1>3. ASSUME NEW s, c \in Runs, SetRun(c, s), <<run[c], s>> \in Lifecycle!Moves,
               s = "committing" => Apply(t) /\ c \in prepared' /\ ~CancelWanted(PlanOf[t])
        PROVE  \E r \in Runs : RunMoves(r)
    BY <1>2, <1>3, SetRunMoves
  <1> HIDE DEF c
  <1>4. CASE ReserveAttempt(t) \/ Work(t) \/ Check(t) \/ FinishSuccess(t) \/ FinishWaitingHuman(t)
             \/ FinishCancellationRecovery(t) \/ FinishFailure(t) \/ FinishRefresh(t)
    BY <1>4
    DEF ReserveAttempt, Work, Check, FinishSuccess, FinishWaitingHuman, FinishCancellationRecovery,
        FinishFailure, FinishRefresh, runVars
  <1>5. CASE Begin(t)
    <2>1. c \in Runs /\ run[c] = "none"
      BY <1>1, <1>5, CurrentTyped DEF Begin, DaemonInv, TypeInv, ThreadsTyped, DrivesRun, c
    <2>2. UNCHANGED <<linked, prepared>> /\ (UNCHANGED run \/ SetRun(c, "open"))
      BY <1>5 DEF Begin, c
    <2> QED BY <1>3, <2>1, <2>2, LifeMoves
  <1>6. CASE Link(t)
    <2>1. c \in Runs /\ run[c] = "open"
      BY <1>1, <1>6, CurrentTyped DEF Link, DaemonInv, TypeInv, ThreadsTyped, DrivesRun, c
    <2>2. UNCHANGED prepared /\ (UNCHANGED run \/ SetRun(c, "failed"))
          /\ (UNCHANGED linked \/ linked' = linked \cup {c})
      BY <1>6 DEF Link, c
    <2>3. UNCHANGED run \/ \E r \in Runs : RunMoves(r)
      BY <1>3, <2>1, <2>2, LifeMoves
    <2> QED BY <1>6, <2>2, <2>3 DEF c
  <1>7. CASE Apply(t)
    <2>1. c \in Runs /\ run[c] = "open"
      BY <1>1, <1>7, CurrentTyped DEF Apply, DaemonInv, TypeInv, ThreadsTyped, DrivesRun, c
    <2>2. UNCHANGED linked /\ prepared \subseteq prepared'
          /\ \/ UNCHANGED run
             \/ SetRun(c, "waiting")
             \/ SetRun(c, "committing") /\ c \in prepared' /\ ~CancelWanted(PlanOf[t])
      BY <1>7 DEF Apply, MayRecord, c
    <2> QED BY <1>3, <1>7, <2>1, <2>2, LifeMoves
  <1>8. ASSUME exec[t] \in Driving \ {"link", "work"}
        PROVE  c \in Runs /\ t \in Pipelines
    BY <1>1, <1>8 DEF TaskFits, DrivesRun, Taken, Driving, TypeOK, c
  <1>9. CASE Commit(t)
    <2>1. c \in Runs /\ run[c] = "committing"
      BY <1>1, <1>8, <1>9 DEF Commit, DrivesRun, Driving, c
    <2>2. UNCHANGED <<linked, prepared>>
          /\ \E s \in {"committing", "recovering", "completed"} : SetRun(c, s)
      BY <1>9 DEF Commit, c
    <2>3. SetRun(c, "committing") => UNCHANGED run
      BY <1>1, <2>1 DEF SetRun, TypeOK
    <2> QED BY <1>3, <2>1, <2>2, <2>3, LifeMoves
  <1>10. CASE Rollback(t)
    <2>1. exec[t] \in {"cancel", "gate", "undo"}
      BY <1>10, RollbackNames DEF Rollback
    <2>2. c \in Runs
      BY <1>8, <2>1 DEF Driving
    <2>3. UNCHANGED <<linked, prepared>>
          /\ (UNCHANGED run \/ (SetRun(c, "recovering") /\ run[c] \in Holding))
      BY <1>10, HoldingNames DEF Rollback, MarkRecovery, Over, c
    <2> QED BY <1>3, <2>2, <2>3, LifeMoves
  <1>11. CASE RollbackEnd(t)
    <2>1. exec[t] \in {"cancel.end", "gate.end", "undo.end"}
      BY <1>11, RollbackNames DEF RollbackEnd
    <2>2. c \in Runs /\ run[c] = "recovering"
      BY <1>1, <1>8, <2>1 DEF DrivesRun, Driving, c
    <2>3. UNCHANGED <<linked, prepared>> /\ (SetRun(c, "cancelled") \/ SetRun(c, "recovering"))
      BY <1>11 DEF RollbackEnd, MarkRecovery, c
    <2> QED BY <1>3, <2>2, <2>3, LifeMoves
  <1> QED BY <1>4, <1>5, <1>6, <1>7, <1>9, <1>10, <1>11 DEF ThreadStep

LEMMA StepRuns ==
  ASSUME DaemonInv, RunsInv, [Next]_vars
  PROVE  /\ UNCHANGED run \/ \E r \in Runs : RunMoves(r)
         /\ prepared \subseteq prepared' /\ linked \subseteq linked'
         /\ \A r \in Runs : r \in linked' \ linked => Link(r[1]) /\ r = Current(r[1])
  <1>1. TypeOK /\ linked \subseteq Runs /\ loop.runs \subseteq Runs
    BY DEF DaemonInv, TypeInv, TypeOK
  <1>2. CASE UNCHANGED vars
    BY <1>2 DEF vars, runVars
  <1>3. CASE \E t \in Tasks : ThreadStep(t)
    BY <1>3, ThreadRuns, RunFacts
  <1>4. CASE LoopStep
    <2>1. UNCHANGED <<linked, prepared>>
      BY <1>4
      DEF LoopStep, Start, RefreshNext, ReconcileObjectives, CleanWaiting, CleanWaitingEnd,
          Synchronize, Dispatch, Promote, RefreshPromoted, SubmitRunnable, runVars
    <2>2. ~(CleanWaiting \/ CleanWaitingEnd) => UNCHANGED run
      BY <1>4
      DEF LoopStep, Start, RefreshNext, ReconcileObjectives,
          Synchronize, Dispatch, Promote, RefreshPromoted, SubmitRunnable, runVars
    <2>3. CASE CleanWaiting
      <3>1. CASE \E r \in WaitingCancelled : SetRun(r, "recovering")
        <4>1. PICK r \in Runs : run[r] = "waiting" /\ SetRun(r, "recovering")
          BY <1>1, <3>1 DEF WaitingCancelled
        <4> QED BY <2>1, <4>1, WaitingIsUntaken, SetRunMoves, LifeMoves
      <3> QED BY <2>1, <2>3, <3>1 DEF CleanWaiting
    <2>4. CASE CleanWaitingEnd
      <3>1. PICK r \in loop.runs : SetRun(r, "cancelled") \/ SetRun(r, "recovering")
        BY <2>4 DEF CleanWaitingEnd, MarkRecovery
      <3>2. r \in Runs /\ run[r] = "recovering" /\ Untaken(r)
        BY <1>1, <2>4 DEF CleanWaitingEnd, RunsInv, LoopOwns, Untaken
      <3> QED BY <2>1, <3>1, <3>2, SetRunMoves, LifeMoves
    <2> QED BY <2>1, <2>2, <2>3, <2>4
  <1>5. CASE (\E p \in Plans : \/ FinishPlanning(p) \/ Submit(p) \/ Pause(p) \/ Resume(p)
                               \/ Cancel(p) \/ ActivatePlan(p) \/ CancelPlan(p)) \/ Crash
    BY <1>5
    DEF FinishPlanning, Submit, Pause, Resume, Cancel, ActivatePlan, CancelPlan, Crash, runVars
  <1>6. ASSUME NEW r \in Runs, RollBackWaiting(r)
        PROVE  \E q \in Runs : RunMoves(q)
    BY <1>6, WaitingIsUntaken, SetRunMoves, LifeMoves DEF RollBackWaiting
  <1>7. ASSUME NEW r \in Runs, Recover(r)
        PROVE  \E q \in Runs : RunMoves(q)
    <2>1. PICK s : <<run[r], s>> \in Lifecycle!RecoveryMoves /\ SetRun(r, s)
      BY <1>7 DEF Recover
    <2>2. run[r] \in {"open", "committing", "recovering", "failed"} /\ s # "committing"
      BY <2>1 DEF Lifecycle!RecoveryMoves, Lifecycle!Holding
    <2>3. Untaken(r)
      <3>1. r = Current(r[1]) => exec[r[1]] \notin Driving
        BY <1>7 DEF Recover, Driven, Driving, RollbackSteps, EndOf
      <3> QED
        BY <2>2, <3>1, RunFacts DEF RunsInv, DrivesRun, Untaken, Taken
    <2> QED BY <2>1, <2>2, <2>3, SetRunMoves, LifeMoves
  <1>8. CASE \E r \in Runs : RollBackWaiting(r) \/ Recover(r)
    BY <1>6, <1>7, <1>8 DEF RollBackWaiting, Recover
  <1> QED BY <1>2, <1>3, <1>4, <1>5, <1>8 DEF Next

(* A cancellation that was accepted holds, once there is a plan; it comes   *)
(* from the operator before the point of no return, or from its plan.       *)
LEMMA StepObjectives ==
  ASSUME DaemonInv, RunsInv, [Next]_vars
  PROVE  \A p \in Plans :
           /\ CancelWanted(p) /\ plan[p] # "NONE" => CancelWanted(p)'
           /\ CancelWanted(p)' =>
                CancelWanted(p) \/ plan[p] = "CANCELLED" \/ ~PointOfNoReturn(p)
  <1>1. TypeOK /\ loop.plans \subseteq Plans
    BY DEF DaemonInv, TypeInv, TypeOK
  <1>2. CASE UNCHANGED objective
    BY <1>2 DEF CancelWanted
  <1>3. CASE ReconcileObjectives
    BY <1>1, <1>3 DEF ReconcileObjectives, CancelWanted
  <1>4. CASE Synchronize
    <2>1. \A p \in Plans : objective'[p] = Synchronized(p)
      BY <1>4 DEF Synchronize
    <2>2. \A p \in Plans : Synchronized(p) \in {"CANCEL_REQUESTED", "CANCELLED"}
            => objective[p] \in {"CANCEL_REQUESTED", "CANCELLED"} \/ plan[p] = "CANCELLED"
      BY DEF Synchronized, Terminal
    <2>3. \A p \in Plans : objective[p] \in {"CANCEL_REQUESTED", "CANCELLED"}
            => Synchronized(p) \in {"CANCEL_REQUESTED", "CANCELLED"}
      BY DEF Synchronized, Terminal
    <2> QED BY <2>1, <2>2, <2>3 DEF CancelWanted
  <1>5. CASE Dispatch
    <2>1. UNCHANGED objective \/ \E p \in Plans :
            /\ objective[p] = "QUEUED"
            /\ \E s \in {"FAILED", "PLANNING"} : objective' = [objective EXCEPT ![p] = s]
      BY <1>5 DEF Dispatch, queueVars
    <2> QED BY <1>1, <1>2, <2>1 DEF CancelWanted, TypeOK
  <1>6. CASE Promote
    <2>1. UNCHANGED objective \/ \E p \in Plans :
            /\ objective[p] = "QUEUED"
            /\ objective' = [objective EXCEPT ![p] = IF plan[p] \in Terminal THEN plan[p] ELSE "RUNNING"]
      BY <1>1, <1>6 DEF Promote
    <2> QED BY <1>1, <1>2, <2>1 DEF CancelWanted, TypeOK, Terminal
  <1>7. CASE \/ Start \/ RefreshNext("startup") \/ RefreshNext("refresh") \/ CleanWaiting
             \/ CleanWaitingEnd \/ RefreshPromoted \/ SubmitRunnable \/ Crash
    BY <1>2, <1>7 DEF Start, RefreshNext, CleanWaiting, CleanWaitingEnd, RefreshPromoted,
                      SubmitRunnable, Crash, queueVars
  <1>8. ASSUME NEW t \in Tasks, ThreadStep(t)
        PROVE  UNCHANGED objective
    BY <1>8
    DEF ThreadStep, ReserveAttempt, Begin, Link, Work, Check, Apply, Commit, Rollback, RollbackEnd,
        FinishSuccess, FinishWaitingHuman, FinishCancellationRecovery, FinishFailure, FinishRefresh,
        queueVars
  <1>9. ASSUME NEW p \in Plans,
               \/ FinishPlanning(p) \/ Submit(p) \/ Pause(p) \/ Resume(p)
               \/ Cancel(p) \/ ActivatePlan(p) \/ CancelPlan(p)
        PROVE  \A q \in Plans :
                 /\ CancelWanted(q) /\ plan[q] # "NONE" => CancelWanted(q)'
                 /\ CancelWanted(q)' =>
                      CancelWanted(q) \/ plan[q] = "CANCELLED" \/ ~PointOfNoReturn(q)
    <2>1. CASE FinishPlanning(p)
      <3>1. plan[p] = "NONE"
        BY <2>1, PlannersTyped DEF FinishPlanning
      <3>2. \E s \in ObjectiveStates :
              /\ objective' = [objective EXCEPT ![p] = s]
              /\ s \in {"CANCELLED", "CANCEL_REQUESTED"} => objective[p] = "CANCEL_REQUESTED"
        BY <2>1, StateNames DEF FinishPlanning, PlanningFails
      <3> QED BY <1>1, <3>1, <3>2 DEF CancelWanted, TypeOK
    <2>2. CASE Submit(p) \/ ActivatePlan(p) \/ CancelPlan(p)
      BY <1>1, <2>2 DEF Submit, ActivatePlan, CancelPlan, queueVars, CancelWanted, TypeOK
    <2>3. CASE Pause(p) \/ Resume(p)
      BY <1>1, <2>3 DEF Pause, Resume, CancelWanted, TypeOK, Terminal
    <2>4. CASE Cancel(p)
      BY <1>1, <2>4 DEF Cancel, CancelWanted, TypeOK
    <2> QED BY <1>9, <2>1, <2>2, <2>3, <2>4
  <1>10. CASE \E r \in Runs : RollBackWaiting(r) \/ Recover(r)
    BY <1>2, <1>10 DEF RollBackWaiting, Recover, queueVars
  <1>11. CASE UNCHANGED vars
    BY <1>2, <1>11 DEF vars, queueVars
  <1> QED
    BY <1>2, <1>3, <1>4, <1>5, <1>6, <1>7, <1>8, <1>9, <1>10, <1>11 DEF Next, LoopStep

-----------------------------------------------------------------------------
(* An integration under way is on record, its task is in execution, and its *)
(* objective is not cancelled: the point of no return.                      *)
CommitsSafely(r) ==
  run[r] = "committing" =>
    /\ r \in prepared /\ task[r[1]] = "RUNNING"
    /\ exec[r[1]] \in {"commit", "undo", "idle"}
    /\ ~CancelWanted(PlanOf[r[1]])
CommitInv == \A r \in Runs : CommitsSafely(r)

LEMMA CommitInvStep ==
  ASSUME DaemonInv, RunsInv, CommitInv, [Next]_vars
  PROVE  CommitInv'
  <1> SUFFICES ASSUME NEW r \in Runs, run'[r] = "committing"
               PROVE  /\ r \in prepared' /\ task'[r[1]] = "RUNNING"
                      /\ exec'[r[1]] \in {"commit", "undo", "idle"}
                      /\ ~CancelWanted(PlanOf[r[1]])'
    BY DEF CommitInv, CommitsSafely
  <1> DEFINE t == r[1]  p == PlanOf[r[1]]
  <1>1. TypeOK /\ t \in Pipelines /\ t \in Tasks /\ p \in Plans
    BY RunFacts DEF DaemonInv, TypeInv, TypeOK
  <1>2. CASE run[r] # "committing"
    <2>1. PICK q \in Runs : RunMoves(q)
      BY <1>2, StepRuns
    <2>2. q = r
      BY <1>1, <1>2, <2>1 DEF RunMoves, TypeOK
    <2>6. Apply(t) /\ r \in prepared' /\ ~CancelWanted(p)
      BY <2>1, <2>2 DEF RunMoves
    <2>3. r = Current(t)
      BY <1>1, <1>2, <2>6 DEF Apply, SetRun, TypeOK
    <2>4. task[t] = "RUNNING" /\ UNCHANGED <<task, objective>>
      BY <1>1, <2>6 DEF Apply, RunsInv, TaskFits, Taken, Driving, planVars, queueVars
    <2>5. exec'[t] = "commit"
      <3>1. run[r] = "open"
        BY <1>1, <2>3, <2>6 DEF Apply, RunsInv, DrivesRun
      <3> QED
        BY <1>1, <2>3, <2>6, <3>1 DEF Apply, SetRun, Goto, TypeOK
    <2> QED BY <2>4, <2>5, <2>6 DEF CancelWanted
  <1>3. CASE run[r] = "committing"
    <2>1. /\ r \in prepared /\ task[t] = "RUNNING" /\ exec[t] \in {"commit", "undo", "idle"}
          /\ ~CancelWanted(p) /\ r \in linked /\ r = Current(t)
      BY <1>3, HoldingNames DEF CommitInv, CommitsSafely, RunsInv, RunFits
    <2>2. r \in prepared'
      BY <2>1, StepRuns
    <2>3. ~CancelWanted(p)'
      <3>1. PointOfNoReturn(p)
        BY <1>3, <2>1 DEF PointOfNoReturn, RunsOf
      <3>2. plan[p] # "CANCELLED"
        BY <1>1, <2>1 DEF RunsInv, TaskFits, Live
      <3> QED BY <1>1, <2>1, <3>1, <3>2, StepObjectives
    <2>4. CASE ThreadStep(t)
      <3>1. Commit(t) \/ Rollback(t)
        BY <2>1, <2>4, RollbackNames
        DEF ThreadStep, ReserveAttempt, Begin, Link, Work, Check, Apply, RollbackEnd,
            FinishSuccess, FinishWaitingHuman, FinishCancellationRecovery, FinishFailure, FinishRefresh
      <3>2. CASE Commit(t)
        BY <1>1, <2>1, <2>2, <2>3, <3>2 DEF Commit, Goto, SetRun, planVars, TypeOK
      <3>3. CASE Rollback(t)
        <4>1. run'[r] = "recovering"
          BY <1>1, <1>3, <2>1, <3>3, HoldingNames DEF Rollback, Over, MarkRecovery, SetRun, TypeOK
        <4> QED BY <4>1
      <3> QED BY <3>1, <3>2, <3>3
    <2>5. CASE Start
      <3>1. task'[t] = "RUNNING"
        BY <1>1, <1>3, <2>1, <2>5, HoldingNames DEF Start, Reconciled
      <3>2. exec'[t] = exec[t]
        BY <2>5 DEF Start
      <3> QED BY <2>1, <2>2, <2>3, <3>1, <3>2
    <2>6. ~Cleans(t)
      <3>1. SUFFICES ASSUME NEW q \in loop.runs, q[1] = t, At("clean.end") PROVE FALSE
        BY DEF Cleans
      <3>2. q \in linked /\ q \in Runs /\ run[q] = "recovering"
        BY <1>1, <3>1 DEF RunsInv, LoopOwns, TypeOK
      <3>3. q = Current(t)
        BY <3>1, <3>2, HoldingNames DEF RunsInv, RunFits
      <3> QED BY <1>3, <2>1, <3>2, <3>3
    <2>7. CASE TaskRests(t) /\ ~ThreadStep(t)
      <3>1. task'[t] = "RUNNING"
        BY <2>1, <2>7 DEF TaskRests
      <3>2. exec'[t] \in {exec[t], "idle"}
        BY <1>1, <2>1, <2>7, StepRests
      <3> QED BY <2>1, <2>2, <2>3, <3>1, <3>2
    <2> QED BY <1>1, <2>4, <2>5, <2>6, <2>7, StepRests
  <1> QED BY <1>2, <1>3

CoreInv == DaemonInv /\ RunsInv /\ CommitInv

LEMMA CoreInvariant == Spec => []CoreInv
  <1>1. Init => CoreInv
    <2>1. Init => CommitInv
      BY DEF Init, CommitInv, CommitsSafely
    <2> QED BY <2>1, DaemonInvInit, RunsInvInit DEF CoreInv
  <1>2. CoreInv /\ [Next]_vars => CoreInv'
    BY DaemonInvStep, RunsInvStep, CommitInvStep DEF CoreInv
  <1> QED BY <1>1, <1>2, PTL DEF Spec

(* The point of no return: whatever the operator, the integrator, the       *)
(* recovery and the deaths of the daemon do in between, no run of an        *)
(* objective whose cancellation was accepted is integrated.                 *)
THEOREM CancelledNeverIntegrated == Spec => CancelledIsNotIntegrated
  <1>1. CoreInv /\ [Next]_vars =>
          [\A r \in Runs : run[r] # "completed" /\ run'[r] = "completed"
             => ~CancelWanted(PlanOf[r[1]])]_vars
    <2> SUFFICES ASSUME CoreInv, [Next]_vars, NEW r \in Runs,
                        run[r] # "completed", run'[r] = "completed"
                 PROVE  ~CancelWanted(PlanOf[r[1]])
      OBVIOUS
    <2>1. PICK q \in Runs : RunMoves(q)
      BY StepRuns DEF CoreInv
    <2>2. q = r
      BY <2>1 DEF RunMoves, CoreInv, DaemonInv, TypeInv, TypeOK
    <2>3. run[r] = "committing"
      BY <2>1, <2>2
      DEF RunMoves, Lifecycle!Moves, Lifecycle!DriverMoves, Lifecycle!RecoveryMoves
    <2> QED BY <2>3 DEF CoreInv, CommitInv, CommitsSafely
  <1> QED BY <1>1, CoreInvariant, PTL DEF Spec, CancelledIsNotIntegrated

(* The daemon's threads, its main loop, the operator and the recovery       *)
(* together move a run only as RunLifecycle, which RunTransaction's own     *)
(* programs implement, lets it be moved.                                    *)
THEOREM RunLifecycleKept == Spec => KeepsRunLifecycle
  <1>1. Init => Lifecycle!Init
    BY DEF Init, Lifecycle!Init
  <1>2. CoreInv /\ [Next]_vars => [Lifecycle!Next]_run
    BY StepRuns DEF CoreInv, RunMoves, Lifecycle!Next
  <1> QED BY <1>1, <1>2, CoreInvariant, PTL DEF Spec, KeepsRunLifecycle, Lifecycle!Spec

-----------------------------------------------------------------------------
(* How a task gets into execution, and how it gets complete.                *)
LEMMA StepStarts ==
  ASSUME DaemonInv, RunsInv, [Next]_vars, NEW q \in Tasks
  PROVE  /\ task'[q] = "RUNNING" =>
              task[q] = "RUNNING" \/ (ReserveAttempt(q) /\ MayStart(q) /\ UNCHANGED objective)
         /\ task'[q] = "COMPLETED" =>
              task[q] = "COMPLETED" \/ FinishSuccess(q) \/ (Start /\ Reconciled(q) = "COMPLETED")
         /\ task[q] = "COMPLETED" => task'[q] = "COMPLETED"
  <1>1. TypeOK /\ PlanOf[q] \in Plans
    BY RunFacts DEF DaemonInv, TypeInv, TypeOK
  <1>2. CASE TaskRests(q)
    BY <1>2 DEF TaskRests
  <1>3. CASE Start
    BY <1>3 DEF Start, Reconciled, Retry
  <1>4. CASE Cleans(q)
    BY <1>4 DEF Cleans
  <1>5. CASE ThreadStep(q)
    <2>1. exec[q] \notin Inert => task[q] # "COMPLETED"
      BY DEF DaemonInv, OrderKept
    <2>2. CASE ReserveAttempt(q)
      BY <1>1, <2>2 DEF ReserveAttempt, SetTask, MayStart, queueVars, TypeOK
    <2>3. CASE Begin(q) \/ Link(q) \/ Work(q) \/ Check(q) \/ Apply(q) \/ Commit(q)
      BY <2>3 DEF Begin, Link, Work, Check, Apply, Commit, planVars
    <2>4. CASE Rollback(q) \/ RollbackEnd(q)
      <3>1. exec[q] \in Driving \ {"link"} /\ exec[q] \in Taken \ {"work", "succeed"}
        BY <2>4, RollbackNames DEF Rollback, RollbackEnd, Driving, Taken
      <3>2. Current(q) \in Runs
        BY <1>1, <3>1 DEF RunsInv, TaskFits, DrivesRun, TypeOK
      <3>3. UNCHANGED task \/ MarkRecovery(Current(q))
        BY <2>4 DEF Rollback, RollbackEnd
      <3>4. CASE MarkRecovery(Current(q))
        BY <3>2, <3>4, MarkRests, RunFacts
      <3> QED BY <3>3, <3>4
    <2>5. CASE FinishSuccess(q)
      BY <1>1, <2>1, <2>5 DEF FinishSuccess, MoveTask, TypeOK, Inert
    <2>6. CASE FinishWaitingHuman(q) \/ FinishCancellationRecovery(q)
      <3>1. CASE StopPlanOf(q)
        BY <3>1 DEF StopPlanOf
      <3>2. CASE MoveTask(q, {"RUNNING", "BLOCKED"}, "BLOCKED")
        BY <1>1, <3>2 DEF MoveTask, TypeOK
      <3> QED BY <2>6, <3>1, <3>2 DEF FinishWaitingHuman, FinishCancellationRecovery
    <2>7. CASE FinishFailure(q)
      <3>1. task[q] # "COMPLETED"
        BY <2>1, <2>7 DEF FinishFailure, Inert
      <3>2. CASE MoveTask(q, {"RUNNING"}, "BLOCKED")
        BY <1>1, <3>1, <3>2 DEF MoveTask, TypeOK
      <3>3. CASE SetTask(q, Retry(q))
        BY <1>1, <3>1, <3>3 DEF SetTask, Retry, TypeOK
      <3> QED BY <2>7, <3>2, <3>3 DEF FinishFailure
    <2>8. CASE FinishRefresh(q)
      <3>1. TaskRests(q)
        BY <1>1, <2>8, RefreshRests DEF FinishRefresh, RowsRest
      <3> QED BY <3>1 DEF TaskRests
    <2> QED
      BY <1>5, <2>2, <2>3, <2>4, <2>5, <2>6, <2>7, <2>8 DEF ThreadStep
  <1> QED BY <1>2, <1>3, <1>4, <1>5, StepRests

(* How an objective comes to rest: with none of its tasks in execution.     *)
AtRest == {"PAUSED", "PLANNING"} \cup Terminal

LEMMA StepRestsObjective ==
  ASSUME DaemonInv, RunsInv, [Next]_vars, NEW p \in Plans, objective'[p] \in AtRest
  PROVE  objective[p] \in AtRest \/ RunningOf(p) = {}
  <1>1. TypeOK /\ loop.plans \subseteq Plans
    BY DEF DaemonInv, TypeInv, TypeOK
  <1>2. plan[p] \in Terminal \cup {"NONE"} => RunningOf(p) = {}
    <2>1. ASSUME NEW t \in RunningOf(p) PROVE plan[p] \in Live
      BY <2>1 DEF RunningOf, TasksOf, RunsInv, TaskFits
    <2> QED BY <2>1 DEF Live, Terminal
  <1>3. CASE objective'[p] = objective[p]
    BY <1>3
  <1>4. CASE ReconcileObjectives
    BY <1>4 DEF ReconcileObjectives, AtRest
  <1>5. CASE Synchronize
    <2>1. objective'[p] = Synchronized(p)
      BY <1>5 DEF Synchronize
    <2> QED BY <1>2, <2>1 DEF Synchronized, Quiet, AtRest
  <1>6. CASE Dispatch
    <2>1. UNCHANGED objective \/ \E q \in Plans :
            plan[q] = "NONE" /\ \E s \in {"FAILED", "PLANNING"} : objective' = [objective EXCEPT ![q] = s]
      BY <1>6 DEF Dispatch, queueVars
    <2> QED BY <1>1, <1>2, <2>1 DEF AtRest, TypeOK
  <1>7. CASE Promote
    <2>1. UNCHANGED objective \/ \E q \in Plans :
            objective' = [objective EXCEPT ![q] = IF plan[q] \in Terminal THEN plan[q] ELSE "RUNNING"]
      BY <1>1, <1>7 DEF Promote
    <2> QED BY <1>1, <1>2, <2>1 DEF AtRest, Terminal, TypeOK
  <1>8. CASE \/ Start \/ RefreshNext("startup") \/ RefreshNext("refresh") \/ CleanWaiting
             \/ CleanWaitingEnd \/ RefreshPromoted \/ SubmitRunnable \/ Crash
    BY <1>3, <1>8 DEF Start, RefreshNext, CleanWaiting, CleanWaitingEnd, RefreshPromoted,
                      SubmitRunnable, Crash, queueVars
  <1>9. ASSUME NEW t \in Tasks, ThreadStep(t)
        PROVE  UNCHANGED objective
    BY <1>9
    DEF ThreadStep, ReserveAttempt, Begin, Link, Work, Check, Apply, Commit, Rollback, RollbackEnd,
        FinishSuccess, FinishWaitingHuman, FinishCancellationRecovery, FinishFailure, FinishRefresh,
        queueVars
  <1>10. ASSUME NEW q \in Plans,
               \/ FinishPlanning(q) \/ Submit(q) \/ Pause(q) \/ Resume(q)
               \/ Cancel(q) \/ ActivatePlan(q) \/ CancelPlan(q)
         PROVE  objective'[p] = objective[p] \/ objective[p] \in AtRest \/ RunningOf(p) = {}
    <2>1. CASE FinishPlanning(q)
      <3>1. plan[q] = "NONE"
        BY <2>1, PlannersTyped DEF FinishPlanning
      <3>2. \E s : objective' = [objective EXCEPT ![q] = s]
        BY <2>1 DEF FinishPlanning, PlanningFails
      <3> QED BY <1>1, <1>2, <3>1, <3>2 DEF TypeOK
    <2>2. CASE Submit(q) \/ ActivatePlan(q) \/ CancelPlan(q)
      <3>1. UNCHANGED objective \/ (plan[q] = "NONE" /\ objective' = [objective EXCEPT ![q] = "QUEUED"])
        BY <2>2 DEF Submit, ActivatePlan, CancelPlan, queueVars
      <3> QED BY <1>1, <1>2, <3>1 DEF TypeOK
    <2>3. CASE Pause(q) \/ Resume(q) \/ Cancel(q)
      <3>1. CASE q # p
        BY <1>1, <2>3, <3>1 DEF Pause, Resume, Cancel, TypeOK
      <3>2. CASE q = p /\ Pause(q)
        BY <1>1, <3>2 DEF Pause, AtRest, Terminal, TypeOK
      <3>3. CASE q = p /\ Resume(q)
        BY <3>3 DEF Resume, AtRest
      <3>4. CASE q = p /\ Cancel(q)
        BY <1>1, <3>4 DEF Cancel, AtRest, Terminal, TypeOK
      <3> QED BY <2>3, <3>1, <3>2, <3>3, <3>4
    <2> QED BY <1>10, <2>1, <2>2, <2>3
  <1>11. CASE \E r \in Runs : RollBackWaiting(r) \/ Recover(r)
    BY <1>3, <1>11 DEF RollBackWaiting, Recover, queueVars
  <1>12. CASE UNCHANGED vars
    BY <1>3, <1>12 DEF vars, queueVars
  <1> QED
    BY <1>3, <1>4, <1>5, <1>6, <1>7, <1>8, <1>9, <1>10, <1>11, <1>12 DEF Next, LoopStep

RestInv == \A p \in Plans : objective[p] \in AtRest => RunningOf(p) = {}

LEMMA RestInvStep ==
  ASSUME DaemonInv, RunsInv, RestInv, [Next]_vars
  PROVE  RestInv'
  <1> SUFFICES ASSUME NEW p \in Plans, objective'[p] \in AtRest,
                      NEW t \in Tasks, PlanOf[t] = p, task'[t] = "RUNNING"
               PROVE  FALSE
    BY DEF RestInv, RunningOf, TasksOf
  <1>1. RunningOf(p) = {}
    BY StepRestsObjective DEF RestInv
  <1>2. task[t] # "RUNNING"
    BY <1>1 DEF RunningOf, TasksOf
  <1>3. MayStart(t) /\ UNCHANGED objective
    BY <1>2, StepStarts
  <1> QED BY <1>3 DEF MayStart, AtRest, Terminal

-----------------------------------------------------------------------------
(* How a plan ends: complete with all of its tasks, cancelled with nothing  *)
(* of it active, unless the operator cancels the plan itself.               *)
LEMMA StepEndsPlan ==
  ASSUME DaemonInv, RunsInv, [Next]_vars, NEW p \in Plans
  PROVE  /\ plan'[p] = "COMPLETED" =>
              plan[p] = "COMPLETED" \/ \A t \in TasksOf(p) : task[t] = "COMPLETED"
         /\ plan'[p] = "CANCELLED" =>
              plan[p] = "CANCELLED" \/ ActiveRuns(p) = {} \/ "cancel-plan" \in Commands
  <1>1. TypeOK /\ loop.runs \subseteq Runs /\ loop.plans \subseteq Plans
    BY DEF DaemonInv, TypeInv, TypeOK
  <1>2. CASE plan'[p] = plan[p]
    BY <1>2
  <1>3. plan[p] = "NONE" => ActiveRuns(p) = {}
    <2>1. \A r \in linked : plan[PlanOf[r[1]]] # "NONE"
      BY RecordedRuns
    <2> QED BY <2>1 DEF ActiveRuns, RunsOf
  <1>4. ASSUME NEW q \in Plans, Refresh(q)
        PROVE  /\ plan'[p] = "COMPLETED" =>
                    plan[p] = "COMPLETED" \/ \A t \in TasksOf(p) : task[t] = "COMPLETED"
               /\ plan'[p] = "CANCELLED" => plan[p] = "CANCELLED"
    BY <1>4, RefreshRests
  <1>5. ASSUME NEW t \in Tasks, ThreadStep(t)
        PROVE  /\ plan'[p] = "COMPLETED" =>
                    plan[p] = "COMPLETED" \/ \A u \in TasksOf(p) : task[u] = "COMPLETED"
               /\ plan'[p] = "CANCELLED" => plan[p] = "CANCELLED"
    <2>1. PlanOf[t] \in Plans
      BY RunFacts
    <2>2. CASE FinishRefresh(t)
      BY <1>4, <2>1, <2>2 DEF FinishRefresh
    <2>3. CASE FinishWaitingHuman(t) \/ FinishCancellationRecovery(t)
      <3>1. \E from \in SUBSET Live : \E s, e :
              /\ s = "BLOCKED" \/ s = plan[PlanOf[t]]
              /\ Blame(PlanOf[t], from, s, e)
        BY <2>3 DEF FinishWaitingHuman, FinishCancellationRecovery, Live
      <3> QED BY <2>1, <3>1, BlameRests
    <2>4. CASE Rollback(t) \/ RollbackEnd(t)
      <3>1. exec[t] \in Driving \ {"link"} /\ exec[t] \in Taken \ {"work", "succeed"}
        BY <2>4, RollbackNames DEF Rollback, RollbackEnd, Driving, Taken
      <3>2. Current(t) \in Runs
        BY <1>1, <3>1 DEF RunsInv, TaskFits, DrivesRun, TypeOK
      <3>3. UNCHANGED plan \/ MarkRecovery(Current(t))
        BY <2>4 DEF Rollback, RollbackEnd
      <3> QED BY <1>2, <3>2, <3>3, MarkRests
    <2>5. CASE \/ ReserveAttempt(t) \/ Begin(t) \/ Link(t) \/ Work(t) \/ Check(t) \/ Apply(t)
               \/ Commit(t) \/ FinishSuccess(t) \/ FinishFailure(t)
      BY <1>2, <2>5 DEF ReserveAttempt, Begin, Link, Work, Check, Apply, Commit, FinishSuccess,
                        FinishFailure, planVars
    <2> QED BY <1>5, <2>2, <2>3, <2>4, <2>5 DEF ThreadStep
  <1>6. CASE RefreshNext("startup") \/ RefreshNext("refresh") \/ RefreshPromoted
    BY <1>1, <1>4, <1>6 DEF RefreshNext, RefreshPromoted
  <1>7. CASE \/ Start \/ ReconcileObjectives \/ CleanWaiting \/ Dispatch \/ SubmitRunnable \/ Crash
             \/ (\E r \in Runs : RollBackWaiting(r) \/ Recover(r)) \/ UNCHANGED vars
    BY <1>2, <1>7 DEF Start, ReconcileObjectives, CleanWaiting, Dispatch, SubmitRunnable, Crash,
                      RollBackWaiting, Recover, planVars, vars
  <1>8. CASE CleanWaitingEnd
    <2>1. PICK r \in loop.runs : UNCHANGED plan \/ MarkRecovery(r)
      BY <1>8 DEF CleanWaitingEnd
    <2> QED BY <1>1, <1>2, <2>1, MarkRests
  <1>9. CASE Synchronize
    <2> DEFINE ps == {q \in Plans : objective[q] = "CANCEL_REQUESTED" /\ Quiet(q)}
    <2>1. CancelPlans(ps)
      BY <1>9 DEF Synchronize
    <2>2. \A q \in ps : q \in Plans /\ RunningOf(q) = {} /\ ActiveRuns(q) = {}
      BY DEF Quiet
    <2> HIDE DEF ps
    <2>3. ps \in SUBSET Plans
      BY <2>2
    <2> QED BY <2>1, <2>2, <2>3, CancelRests
  <1>10. CASE Promote
    <2>1. \E q \in Plans : Blame(q, {"DRAFT"}, "READY", "none") \/ UNCHANGED <<plan, planError>>
      BY <1>1, <1>10 DEF Promote
    <2> QED BY <1>2, <2>1, BlameRests
  <1>11. ASSUME NEW q \in Plans,
                \/ FinishPlanning(q) \/ Submit(q) \/ Pause(q) \/ Resume(q)
                \/ Cancel(q) \/ ActivatePlan(q) \/ CancelPlan(q)
         PROVE  /\ plan'[p] = "COMPLETED" =>
                     plan[p] = "COMPLETED" \/ \A t \in TasksOf(p) : task[t] = "COMPLETED"
                /\ plan'[p] = "CANCELLED" =>
                     plan[p] = "CANCELLED" \/ ActiveRuns(p) = {} \/ "cancel-plan" \in Commands
    <2>1. CASE FinishPlanning(q) \/ Submit(q)
      <3>1. plan[q] = "NONE"
        BY <2>1, PlannersTyped DEF FinishPlanning, Submit
      <3>2. \/ plan'[p] = plan[p]
            \/ p = q /\ plan'[p] \in {"READY", "DRAFT", "CANCELLED", "NONE"}
        BY <1>1, <2>1 DEF FinishPlanning, Submit, TypeOK
      <3> QED BY <1>3, <3>1, <3>2
    <2>2. CASE Pause(q) \/ Resume(q)
      BY <1>2, <2>2 DEF Pause, Resume, planVars
    <2>3. CASE Cancel(q)
      <3>1. CASE CancelPlans({q}) /\ RunningOf(q) = {} /\ ActiveRuns(q) = {}
        BY <3>1, CancelRests
      <3> QED BY <1>2, <2>3, <3>1 DEF Cancel
    <2>4. CASE ActivatePlan(q)
      BY <2>4, RefreshAsRests, StateNames DEF ActivatePlan, PlanStates, Live
    <2>5. CASE CancelPlan(q)
      BY <2>5, CancelRests DEF CancelPlan
    <2> QED BY <1>11, <2>1, <2>2, <2>3, <2>4, <2>5
  <1> QED
    BY <1>5, <1>6, <1>7, <1>8, <1>9, <1>10, <1>11 DEF Next, LoopStep

(* How an objective gets cancelled.                                         *)
LEMMA StepCancels ==
  ASSUME DaemonInv, RunsInv, [Next]_vars, NEW p \in Plans, objective'[p] = "CANCELLED"
  PROVE  "CANCELLED" \in {objective[p], plan[p]} \/ ActiveRuns(p) = {}
  <1>1. TypeOK /\ loop.plans \subseteq Plans
    BY DEF DaemonInv, TypeInv, TypeOK
  <1>2. plan[p] = "NONE" => ActiveRuns(p) = {}
    <2>1. \A r \in linked : plan[PlanOf[r[1]]] # "NONE"
      BY RecordedRuns
    <2> QED BY <2>1 DEF ActiveRuns, RunsOf
  <1>3. CASE objective'[p] = objective[p]
    BY <1>3
  <1>4. CASE ReconcileObjectives
    BY <1>4 DEF ReconcileObjectives
  <1>5. CASE Synchronize
    <2>1. objective'[p] = Synchronized(p)
      BY <1>5 DEF Synchronize
    <2> QED BY <2>1 DEF Synchronized, Quiet
  <1>6. CASE Dispatch
    <2>1. UNCHANGED objective \/ \E q \in Plans, s \in {"FAILED", "PLANNING"} :
            objective' = [objective EXCEPT ![q] = s]
      BY <1>6 DEF Dispatch, queueVars
    <2> QED BY <1>1, <2>1 DEF TypeOK
  <1>7. CASE Promote
    <2>1. UNCHANGED objective \/ \E q \in Plans :
            objective' = [objective EXCEPT ![q] = IF plan[q] \in Terminal THEN plan[q] ELSE "RUNNING"]
      BY <1>1, <1>7 DEF Promote
    <2> QED BY <1>1, <2>1 DEF TypeOK
  <1>8. CASE \/ Start \/ RefreshNext("startup") \/ RefreshNext("refresh") \/ CleanWaiting
             \/ CleanWaitingEnd \/ RefreshPromoted \/ SubmitRunnable \/ Crash
             \/ (\E r \in Runs : RollBackWaiting(r) \/ Recover(r)) \/ UNCHANGED vars
    BY <1>3, <1>8 DEF Start, RefreshNext, CleanWaiting, CleanWaitingEnd, RefreshPromoted,
                      SubmitRunnable, Crash, RollBackWaiting, Recover, queueVars, vars
  <1>9. ASSUME NEW t \in Tasks, ThreadStep(t)
        PROVE  UNCHANGED objective
    BY <1>9
    DEF ThreadStep, ReserveAttempt, Begin, Link, Work, Check, Apply, Commit, Rollback, RollbackEnd,
        FinishSuccess, FinishWaitingHuman, FinishCancellationRecovery, FinishFailure, FinishRefresh,
        queueVars
  <1>10. ASSUME NEW q \in Plans,
               \/ FinishPlanning(q) \/ Submit(q) \/ Pause(q) \/ Resume(q)
               \/ Cancel(q) \/ ActivatePlan(q) \/ CancelPlan(q)
         PROVE  "CANCELLED" \in {objective[p], plan[p]} \/ ActiveRuns(p) = {}
    <2>1. CASE FinishPlanning(q)
      <3>1. plan[q] = "NONE"
        BY <2>1, PlannersTyped DEF FinishPlanning
      <3>2. \E s : objective' = [objective EXCEPT ![q] = s]
        BY <2>1 DEF FinishPlanning, PlanningFails
      <3> QED BY <1>1, <1>2, <3>1, <3>2 DEF TypeOK
    <2>2. CASE \/ Submit(q) \/ ActivatePlan(q) \/ CancelPlan(q) \/ Pause(q)
      BY <1>1, <2>2 DEF Submit, ActivatePlan, CancelPlan, Pause, queueVars, TypeOK
    <2>3. CASE Resume(q)
      BY <1>1, <2>3 DEF Resume, TypeOK
    <2>4. CASE Cancel(q)
      BY <1>1, <2>4 DEF Cancel, TypeOK
    <2> QED BY <1>10, <2>1, <2>2, <2>3, <2>4
  <1> QED
    BY <1>3, <1>4, <1>5, <1>6, <1>7, <1>8, <1>9, <1>10 DEF Next, LoopStep

(* A run on record that holds a project did so before, or was just linked   *)
(* by the attempt in execution.                                             *)
LEMMA StepHolds ==
  ASSUME DaemonInv, RunsInv, [Next]_vars, NEW r \in linked', run'[r] \in Holding
  PROVE  /\ r \in Runs
         /\ \/ r \in linked /\ run[r] \in Holding
            \/ Link(r[1]) /\ task[r[1]] = "RUNNING" /\ UNCHANGED <<objective, plan, task>>
  <1>1. TypeOK /\ linked \subseteq Runs
    BY DEF DaemonInv, TypeInv, TypeOK
  <1>2. CASE r \notin linked
    <2>1. \E t \in Tasks : Link(t) /\ linked' = linked \cup {Current(t)} /\ t \in Pipelines
      <3>1. CASE \E t \in Tasks : ThreadStep(t)
        BY <1>2, <3>1, ThreadRuns DEF Link, DaemonInv, TypeInv, ThreadsTyped
      <3>2. CASE ~(\E t \in Tasks : ThreadStep(t))
        <4>1. UNCHANGED linked
          BY <3>2
          DEF Next, LoopStep, Start, RefreshNext, ReconcileObjectives, CleanWaiting, CleanWaitingEnd,
              Synchronize, Dispatch, Promote, RefreshPromoted, SubmitRunnable, FinishPlanning, Submit,
              Pause, Resume, Cancel, ActivatePlan, CancelPlan, RollBackWaiting, Recover, Crash,
              runVars, vars
        <4> QED BY <1>2, <4>1
      <3> QED BY <3>1, <3>2
    <2>2. PICK t \in Tasks : Link(t) /\ linked' = linked \cup {Current(t)} /\ t \in Pipelines
      BY <2>1
    <2>3. r = Current(t) /\ r[1] = t
      BY <1>2, <2>2, RunFacts
    <2>4. attempts[t] >= 1
      BY <2>2 DEF Link, DaemonInv, TypeInv, ThreadsTyped
    <2>5. r \in Runs
      BY <1>1, <2>2, <2>3, <2>4, CurrentTyped
    <2> QED
      BY <2>2, <2>3, <2>5 DEF Link, RunsInv, TaskFits, Taken, Driving, planVars, queueVars
  <1>3. CASE r \in linked
    <2>1. r \in Runs /\ run[r] \notin {"none", "failed"}
      BY <1>1, <1>3 DEF RunsInv, RunFits
    <2>2. CASE run'[r] = run[r]
      BY <1>3, <2>1, <2>2
    <2>3. CASE run'[r] # run[r]
      <3>1. PICK q \in Runs : RunMoves(q)
        BY <2>3, StepRuns
      <3>2. q = r
        BY <1>1, <2>1, <2>3, <3>1 DEF RunMoves, TypeOK
      <3>3. run[r] \in Holding
        BY <2>1, <3>1, <3>2, HoldingNames
        DEF RunMoves, Lifecycle!Moves, Lifecycle!DriverMoves, Lifecycle!RecoveryMoves, Lifecycle!Holding
      <3> QED BY <1>3, <2>1, <3>3
    <2> QED BY <2>2, <2>3
  <1> QED BY <1>2, <1>3

(* A cancelled objective or plan holds no project, unless its plan may be   *)
(* cancelled underneath it.                                                *)
EmptyInv ==
  \A p \in Plans : "CANCELLED" \in {objective[p], plan[p]} =>
    ActiveRuns(p) = {} \/ "cancel-plan" \in Commands

LEMMA EmptyInvStep ==
  ASSUME DaemonInv, RunsInv, RestInv, EmptyInv, [Next]_vars
  PROVE  EmptyInv'
  <1> SUFFICES ASSUME NEW p \in Plans, "CANCELLED" \in {objective'[p], plan'[p]},
                      "cancel-plan" \notin Commands,
                      NEW r \in linked', PlanOf[r[1]] = p, run'[r] \in Holding
               PROVE  FALSE
    BY DEF EmptyInv, ActiveRuns, RunsOf
  <1>1. r \in Runs /\ r[1] \in Tasks
    BY StepHolds, RunFacts
  <1>2. CASE r \in linked /\ run[r] \in Holding
    <2>1. r \in ActiveRuns(p)
      BY <1>2 DEF ActiveRuns, RunsOf
    <2> QED BY <2>1, StepCancels, StepEndsPlan DEF EmptyInv
  <1>3. CASE task[r[1]] = "RUNNING" /\ UNCHANGED <<objective, plan>>
    <2>1. RunningOf(p) # {} /\ plan[p] \in Live
      BY <1>1, <1>3 DEF RunningOf, TasksOf, RunsInv, TaskFits
    <2> QED BY <1>3, <2>1 DEF RestInv, AtRest, Terminal, Live
  <1> QED BY <1>2, <1>3, StepHolds

-----------------------------------------------------------------------------
(* An attempt that ends in success has integrated its run, or is cancelled; *)
(* what is complete has no run of its latest attempt active.                *)
EndsWell(t) ==
  exec[t] \in {"cancel", "cancel.end", "succeed"} =>
    CancelWanted(PlanOf[t]) \/ run[Current(t)] = "completed"
DoneOnce(t) ==
  task[t] = "COMPLETED" => \/ \E n \in 1 .. attempts[t] : run[<<t, n>>] = "completed"
                           \/ CancelWanted(PlanOf[t])
DoneIsFree(t) ==
  task[t] = "COMPLETED" /\ Current(t) \in linked => run[Current(t)] \notin Holding
DoneInv ==
  /\ \A t \in Pipelines : EndsWell(t) /\ DoneOnce(t) /\ DoneIsFree(t)
  /\ \A p \in Plans : plan[p] = "COMPLETED" => ActiveRuns(p) = {}

LEMMA CompletedStays ==
  ASSUME DaemonInv, RunsInv, [Next]_vars, NEW r \in Runs
  PROVE  /\ run[r] = "completed" => run'[r] = "completed"
         /\ run[r] = "cancelled" => run'[r] = "cancelled"
  <1>1. CASE UNCHANGED run
    BY <1>1
  <1>2. CASE \E q \in Runs : RunMoves(q)
    BY <1>2 DEF RunMoves, Lifecycle!Moves, Lifecycle!DriverMoves, Lifecycle!RecoveryMoves,
                Lifecycle!Holding, DaemonInv, TypeInv, TypeOK
  <1> QED BY <1>1, <1>2, StepRuns

LEMMA EndsWellStep ==
  ASSUME DaemonInv, RunsInv, [Next]_vars, NEW t \in Pipelines, EndsWell(t)
  PROVE  EndsWell(t)'
  <1> SUFFICES ASSUME exec'[t] \in {"cancel", "cancel.end", "succeed"}
               PROVE  CancelWanted(PlanOf[t])' \/ run'[Current(t)'] = "completed"
    BY DEF EndsWell
  <1>1. TypeOK /\ t \in Tasks /\ PlanOf[t] \in Plans /\ DrivesRun(t)
    BY RunFacts DEF DaemonInv, TypeInv, TypeOK, RunsInv
  <1>2. CASE exec[t] \in {"cancel", "cancel.end", "succeed"}
    <2>1. plan[PlanOf[t]] # "NONE"
      BY <1>1, <1>2, BusyHasPlan
    <2>2. Current(t) \in Runs
      BY <1>1, <1>2 DEF DrivesRun, Driving, TypeOK
    <2>3. Current(t)' = Current(t)
      BY <1>1, <1>2, StepRests DEF ReserveAttempt, Current
    <2> QED
      BY <1>1, <1>2, <2>1, <2>2, <2>3, CompletedStays, StepObjectives DEF EndsWell
  <1>3. CASE exec[t] \notin {"cancel", "cancel.end", "succeed"}
    <2>1. ThreadStep(t)
      BY <1>1, <1>3, StepRests
    <2>2. Check(t) \/ Apply(t) \/ Commit(t)
      <3>1. exec'[t] \in {"cancel", "cancel.end", "succeed"} /\ exec[t] # exec'[t]
        BY <1>3
      <3>2. Rollback(t) => exec[t] \in {"gate", "undo"}
        BY <1>3, RollbackNames DEF Rollback
      <3>3. ~Rollback(t)
        BY <1>1, <3>1, <3>2 DEF Rollback, Goto, After, EndOf, TypeOK
      <3>4. ~RollbackEnd(t)
        <4>1. SUFFICES ASSUME RollbackEnd(t) PROVE FALSE
          OBVIOUS
        <4>2. PICK step \in {"cancel", "gate", "undo"} :
                exec[t] = EndOf(step) /\ \E clean \in BOOLEAN : Goto(t, After(step, clean))
          BY <4>1 DEF RollbackEnd, RollbackSteps
        <4>3. step \in {"gate", "undo"}
          BY <1>3, <4>2, RollbackNames
        <4> QED BY <1>1, <3>1, <4>2, <4>3 DEF Goto, After, TypeOK
      <3> QED
        BY <1>1, <2>1, <3>1, <3>3, <3>4
        DEF ThreadStep, ReserveAttempt, Begin, Link, Work, FinishSuccess, FinishWaitingHuman,
            FinishCancellationRecovery, FinishFailure, FinishRefresh, Goto, TypeOK
    <2>3. CASE Check(t) \/ Apply(t)
      BY <1>1, <2>3 DEF Check, Apply, Goto, queueVars, CancelWanted, TypeOK
    <2>4. CASE Commit(t)
      <3>1. Current(t) \in Runs /\ Current(t)' = Current(t)
        BY <1>1, <2>4 DEF Commit, DrivesRun, Driving, planVars, Current, TypeOK
      <3> QED
        BY <1>1, <2>4, <3>1 DEF Commit, Goto, SetRun, TypeOK
    <2> QED BY <2>2, <2>3, <2>4
  <1> QED BY <1>2, <1>3

LEMMA DoneTaskStep ==
  ASSUME DaemonInv, RunsInv, [Next]_vars, NEW t \in Pipelines,
         EndsWell(t), DoneOnce(t), DoneIsFree(t)
  PROVE  DoneOnce(t)' /\ DoneIsFree(t)'
  <1> SUFFICES ASSUME task'[t] = "COMPLETED"
               PROVE  /\ \/ \E n \in 1 .. attempts'[t] : run'[<<t, n>>] = "completed"
                         \/ CancelWanted(PlanOf[t])'
                      /\ Current(t)' \in linked' => run'[Current(t)'] \notin Holding
    BY DEF DoneOnce, DoneIsFree
  <1>1. /\ TypeOK /\ t \in Tasks /\ PlanOf[t] \in Plans /\ DrivesRun(t) /\ TaskFits(t)
        /\ linked \subseteq Runs /\ attempts[t] \in 0 .. MaxAttempts /\ MaxAttempts \in Nat
    BY RunFacts, ConstantsAssumption DEF DaemonInv, TypeInv, TypeOK, RunsInv, ConstantsAssumption
  <1>2. attempts'[t] = attempts[t] /\ Current(t)' = Current(t)
    BY <1>1, StepRests DEF ReserveAttempt, SetTask, MayStart, TypeOK, Current
  <1>3. ASSUME Current(t) \in linked, run[Current(t)] \in {"completed", "cancelled"}
        PROVE  run'[Current(t)] \notin Holding
    BY <1>1, <1>3, CompletedStays, HoldingNames
  <1>4. CASE task[t] = "COMPLETED"
    <2>1. plan[PlanOf[t]] # "NONE"
      BY <1>1, <1>4 DEF DaemonInv, NoPlanYet
    <2>2. CancelWanted(PlanOf[t]) => CancelWanted(PlanOf[t])'
      BY <1>1, <2>1, StepObjectives
    <2>3. ASSUME NEW n \in 1 .. attempts[t], run[<<t, n>>] = "completed"
          PROVE  run'[<<t, n>>] = "completed"
      <3>1. <<t, n>> \in Runs
        BY <1>1 DEF Runs
      <3> QED BY <2>3, <3>1, CompletedStays
    <2>4. ASSUME Current(t) \in linked', run'[Current(t)] \in Holding
          PROVE  FALSE
      <3>1. Current(t) \in linked /\ run[Current(t)] \in Holding
        BY <1>4, <2>4, StepHolds, RunFacts
      <3> QED BY <1>4, <3>1 DEF DoneIsFree
    <2> QED BY <1>2, <1>4, <2>2, <2>3, <2>4 DEF DoneOnce
  <1>5. CASE FinishSuccess(t)
    <2>1. exec[t] = "succeed" /\ UNCHANGED <<run, linked, objective>>
      BY <1>5 DEF FinishSuccess, runVars, queueVars
    <2>2. Current(t) \in linked /\ run[Current(t)] \in {"completed", "cancelled"}
      BY <1>1, <2>1 DEF DrivesRun
    <2>3. attempts[t] \in 1 .. attempts[t] /\ Current(t) = <<t, attempts[t]>>
      <3>1. Current(t)[2] \in 1 .. MaxAttempts /\ Current(t)[2] = attempts[t]
        BY <1>1, <2>2, RunFacts
      <3> QED BY <1>1, <3>1 DEF Current
    <2> QED
      BY <1>2, <2>1, <2>2, <2>3, HoldingNames DEF EndsWell, CancelWanted
  <1>6. CASE Start /\ Reconciled(t) = "COMPLETED" /\ task[t] # "COMPLETED"
    <2>1. Current(t) \in linked /\ run[Current(t)] = "completed" /\ UNCHANGED <<run, linked>>
      BY <1>6 DEF Start, Reconciled, Retry, runVars
    <2>2. attempts[t] \in 1 .. attempts[t] /\ Current(t) = <<t, attempts[t]>>
      <3>1. Current(t)[2] \in 1 .. MaxAttempts /\ Current(t)[2] = attempts[t]
        BY <1>1, <2>1, RunFacts
      <3> QED BY <1>1, <3>1 DEF Current
    <2> QED BY <1>2, <2>1, <2>2, HoldingNames
  <1> QED BY <1>1, <1>4, <1>5, <1>6, StepStarts

LEMMA DoneInvStep ==
  ASSUME DaemonInv, RunsInv, DoneInv, [Next]_vars
  PROVE  DoneInv'
  <1>1. \A t \in Pipelines : EndsWell(t)' /\ DoneOnce(t)' /\ DoneIsFree(t)'
    BY EndsWellStep, DoneTaskStep DEF DoneInv
  <1>2. ASSUME NEW p \in Plans, plan'[p] = "COMPLETED"
        PROVE  ActiveRuns(p)' = {}
    <2> SUFFICES ASSUME NEW r \in linked', PlanOf[r[1]] = p, run'[r] \in Holding
                 PROVE  FALSE
      BY DEF ActiveRuns, RunsOf
    <2>1. r \in Runs /\ r[1] \in Pipelines /\ r[1] \in Tasks
      BY StepHolds, RunFacts
    <2>2. r \in linked /\ run[r] \in Holding
      <3>1. ASSUME task[r[1]] = "RUNNING", UNCHANGED plan PROVE FALSE
        BY <1>2, <2>1, <3>1 DEF RunsInv, TaskFits, Live
      <3> QED BY <3>1, StepHolds
    <2>3. CASE plan[p] = "COMPLETED"
      BY <2>2, <2>3 DEF DoneInv, ActiveRuns, RunsOf
    <2>4. CASE \A t \in TasksOf(p) : task[t] = "COMPLETED"
      <3>1. task[r[1]] = "COMPLETED" /\ r = Current(r[1])
        BY <2>1, <2>2, <2>4 DEF TasksOf, RunsInv, RunFits
      <3> QED BY <2>1, <2>2, <3>1 DEF DoneInv, DoneIsFree
    <2> QED BY <1>2, <2>3, <2>4, StepEndsPlan
  <1> QED BY <1>1, <1>2 DEF DoneInv

LEMMA RestAndDone == Spec => [](DaemonInv /\ RunsInv /\ RestInv /\ DoneInv)
  <1>1. Init => RestInv /\ DoneInv
    <2> SUFFICES ASSUME Init PROVE RestInv /\ DoneInv
      OBVIOUS
    <2>1. \A t \in Tasks : exec[t] = "idle" /\ task[t] = "PENDING"
      BY DEF Init
    <2>2. \A p \in Plans : plan[p] = "NONE"
      BY DEF Init
    <2> QED
      BY <2>1, <2>2, RunFacts
      DEF RestInv, DoneInv, EndsWell, DoneOnce, DoneIsFree, RunningOf, TasksOf
  <1>2. DaemonInv /\ RunsInv /\ RestInv /\ DoneInv /\ [Next]_vars
          => (DaemonInv /\ RunsInv /\ RestInv /\ DoneInv)'
    BY DaemonInvStep, RunsInvStep, RestInvStep, DoneInvStep
  <1> QED BY <1>1, <1>2, DaemonInvInit, RunsInvInit, PTL DEF Spec

(* A COMPLETED pipeline was integrated by one of its attempts, or cancelled; *)
(* a COMPLETED plan has no run, of any attempt, that holds a project or     *)
(* waits for a human.                                                       *)
THEOREM CompletedSettled == Spec => []CompletedIsSettled
  <1>1. DaemonInv /\ RunsInv /\ RestInv /\ DoneInv => CompletedIsSettled
    <2> SUFFICES ASSUME DaemonInv, RunsInv, DoneInv PROVE CompletedIsSettled
      OBVIOUS
    <2>1. ASSUME NEW p \in Plans, plan[p] = "COMPLETED", Gated(p)
          PROVE  FALSE
      <3>1. PICK r \in linked : PlanOf[r[1]] = p /\ r \in approvals
        BY <2>1 DEF Gated, RunsOf
      <3>2. run[r] \in Holding
        BY <3>1, HoldingNames DEF RunsInv, RunFits, DaemonInv, TypeInv, TypeOK
      <3> QED BY <2>1, <3>1, <3>2 DEF DoneInv, ActiveRuns, RunsOf
    <2> QED BY <2>1 DEF DoneInv, DoneOnce, CompletedIsSettled
  <1> QED BY <1>1, RestAndDone, PTL

-----------------------------------------------------------------------------
(* A run on record is open, or being integrated, only as long as its task   *)
(* is RUNNING: what ends the attempt has left neither behind.               *)
Attended(t) ==
  Current(t) \in linked /\ run[Current(t)] \in {"open", "committing"} =>
    task[t] = "RUNNING" /\ exec[t] \notin {"wait", "leave", "fail"}
AttendedInv == \A t \in Pipelines : Attended(t)

LEMMA AttendedByThread ==
  ASSUME DaemonInv, RunsInv, NEW t \in Pipelines, Attended(t), ThreadStep(t),
         Current(t) \in linked, Current(t)' = Current(t),
         run[Current(t)] \in {"open", "committing"}, run'[Current(t)] = run[Current(t)]
  PROVE  task'[t] = "RUNNING" /\ exec'[t] \notin {"wait", "leave", "fail"}
  <1> DEFINE r == Current(t)
  <1>1. /\ TypeOK /\ t \in Tasks /\ PlanOf[t] \in Plans /\ DrivesRun(t) /\ r \in Runs
        /\ task[t] = "RUNNING" /\ exec[t] \notin {"wait", "leave", "fail"}
    BY RunFacts DEF DaemonInv, TypeInv, TypeOK, RunsInv, Attended
  <1>2. CASE ReserveAttempt(t)
    BY <1>1, <1>2 DEF ReserveAttempt, MayStart, Goto, TypeOK
  <1>3. CASE Begin(t) \/ Link(t)
    BY <1>1, <1>3 DEF Begin, Link, DrivesRun
  <1>4. CASE Work(t) \/ Check(t)
    BY <1>1, <1>4 DEF Work, Check, Goto, planVars, TypeOK
  <1>5. CASE Apply(t) \/ Commit(t)
    <2>1. UNCHANGED task
      BY <1>5 DEF Apply, Commit, planVars
    <2>2. exec'[t] \in {"cancel", "gate", "commit", "undo"}
      <3>1. CASE Apply(t)
        <4>1. run[r] = "open"
          BY <1>1, <3>1 DEF Apply, DrivesRun
        <4> QED BY <1>1, <3>1, <4>1 DEF Apply, Goto, SetRun, TypeOK
      <3>2. CASE Commit(t)
        <4>1. run[r] = "committing"
          BY <1>1, <3>2 DEF Commit, DrivesRun
        <4> QED BY <1>1, <3>2, <4>1 DEF Commit, Goto, SetRun, TypeOK
      <3> QED BY <1>5, <3>1, <3>2
    <2> QED BY <1>1, <2>1, <2>2
  <1>6. CASE Rollback(t)
    <2>1. ~Over(r)
      BY HoldingNames DEF Over
    <2>2. run'[r] = "recovering"
      BY <1>1, <1>6, <2>1 DEF Rollback, MarkRecovery, SetRun, TypeOK
    <2> QED BY <2>2
  <1>7. CASE RollbackEnd(t) \/ FinishSuccess(t)
    BY <1>1, <1>7, RollbackNames DEF RollbackEnd, FinishSuccess, DrivesRun
  <1>8. CASE FinishWaitingHuman(t) \/ FinishCancellationRecovery(t) \/ FinishFailure(t)
    BY <1>1, <1>8 DEF FinishWaitingHuman, FinishCancellationRecovery, FinishFailure
  <1>9. CASE FinishRefresh(t)
    <2>1. TaskRests(t)
      BY <1>1, <1>9, RefreshRests DEF FinishRefresh, RowsRest
    <2> QED BY <1>1, <1>9, <2>1 DEF FinishRefresh, Goto, TaskRests, TypeOK
  <1> QED
    BY <1>2, <1>3, <1>4, <1>5, <1>6, <1>7, <1>8, <1>9 DEF ThreadStep

LEMMA AttendedStep ==
  ASSUME DaemonInv, RunsInv, [Next]_vars, NEW t \in Pipelines, Attended(t)
  PROVE  Attended(t)'
  <1> DEFINE r == Current(t)
  <1> SUFFICES ASSUME Current(t)' \in linked', run'[Current(t)'] \in {"open", "committing"}
               PROVE  task'[t] = "RUNNING" /\ exec'[t] \notin {"wait", "leave", "fail"}
    BY DEF Attended
  <1>1. /\ TypeOK /\ t \in Tasks /\ DrivesRun(t) /\ TaskFits(t)
        /\ linked \subseteq Runs /\ attempts[t] \in 0 .. MaxAttempts /\ MaxAttempts \in Nat
    BY RunFacts, ConstantsAssumption DEF ConstantsAssumption, DaemonInv, TypeInv, TypeOK, RunsInv
  <1>2. Current(t)' = r
    <2>1. CASE ReserveAttempt(t) /\ MayStart(t)
      <3>1. linked' = linked /\ attempts'[t] > attempts[t]
        BY <1>1, <2>1 DEF ReserveAttempt, runVars, TypeOK
      <3>2. Current(t)' \in Runs /\ Current(t)'[1] = t /\ Current(t)'[2] = attempts'[t]
        BY <1>1, <3>1 DEF Current
      <3> QED BY <3>1, <3>2 DEF RunsInv, RunFits
    <2>2. CASE attempts'[t] = attempts[t]
      BY <2>2 DEF Current
    <2> QED BY <1>1, <2>1, <2>2, StepRests
  <1>3. CASE r \notin linked
    <2>1. r \in Runs
      BY <1>2, StepHolds, HoldingNames
    <2>2. Link(t)
      BY <1>2, <1>3, <2>1, StepRuns, RunFacts
    <2>3. task[t] = "RUNNING" /\ task' = task
      BY <1>1, <2>2 DEF Link, TaskFits, Taken, Driving, planVars
    <2>4. exec'[t] = "work"
      BY <1>1, <1>2, <1>3, <2>2 DEF Link, Goto, TypeOK
    <2> QED BY <2>3, <2>4
  <1>4. CASE r \in linked /\ run'[r] # run[r]
    <2>1. r \in Runs /\ run[r] \notin {"none", "failed"}
      BY <1>1, <1>4 DEF RunsInv, RunFits
    <2>2. PICK q \in Runs : RunMoves(q)
      BY <1>4, StepRuns
    <2>3. q = r
      BY <1>1, <1>4, <2>1, <2>2 DEF RunMoves, TypeOK
    <2>4. run'[r] = "committing"
      BY <1>2, <2>1, <2>2, <2>3
         DEF RunMoves, Lifecycle!Moves, Lifecycle!DriverMoves, Lifecycle!RecoveryMoves
    <2>5. Apply(t)
      BY <2>2, <2>3, <2>4, RunFacts DEF RunMoves
    <2>6. task[t] = "RUNNING" /\ task' = task /\ run[r] = "open"
      BY <1>1, <2>5 DEF Apply, TaskFits, DrivesRun, Taken, Driving, planVars
    <2>7. exec'[t] = "commit"
      BY <1>1, <2>1, <2>4, <2>5, <2>6 DEF Apply, Goto, SetRun, TypeOK
    <2> QED BY <2>6, <2>7
  <1>5. CASE r \in linked /\ run'[r] = run[r]
    <2>1. /\ r \in Runs /\ run[r] \in {"open", "committing"} /\ run[r] \in Holding
          /\ task[t] = "RUNNING" /\ exec[t] \notin {"wait", "leave", "fail"}
      BY <1>1, <1>2, <1>5, HoldingNames DEF Attended
    <2>2. CASE ThreadStep(t)
      BY <1>2, <1>5, <2>1, <2>2, AttendedByThread
    <2>3. CASE ~ThreadStep(t)
      <3>1. exec'[t] \notin {"wait", "leave", "fail"}
        BY <1>1, <2>1, <2>3, StepRests
      <3>2. ~Cleans(t)
        <4> SUFFICES ASSUME At("clean.end"), NEW c \in loop.runs, c[1] = t PROVE FALSE
          BY DEF Cleans
        <4>1. c \in linked /\ run[c] = "recovering"
          BY DEF RunsInv, LoopOwns
        <4>2. c \in Runs /\ run[c] \in Holding
          BY <1>1, <4>1, HoldingNames
        <4>3. c = r
          BY <4>1, <4>2 DEF RunsInv, RunFits
        <4> QED BY <2>1, <4>1, <4>3
      <3>3. CASE Start
        BY <1>1, <1>5, <2>1, <3>3 DEF Start, Reconciled
      <3>4. CASE TaskRests(t)
        BY <2>1, <3>1, <3>4 DEF TaskRests
      <3>5. TaskRests(t) \/ ThreadStep(t) \/ Start \/ Cleans(t)
        BY <1>1, StepRests
      <3> QED BY <2>3, <3>1, <3>2, <3>3, <3>4, <3>5
    <2> QED BY <2>2, <2>3
  <1> QED BY <1>3, <1>4, <1>5

(* What is paused or over has no task in execution, whatever the threads,   *)
(* the main loop and the operator interleave; a cancelled objective has no  *)
(* active run, or, where the operator may cancel the plan underneath it,    *)
(* only runs that wait for a human or are being rolled back.               *)
THEOREM StoppedQuiet == Spec => []StoppedIsQuiet
  <1>1. Init => EmptyInv /\ AttendedInv
    BY DEF Init, EmptyInv, AttendedInv, Attended
  <1>2. DaemonInv /\ RunsInv /\ RestInv /\ EmptyInv /\ AttendedInv /\ [Next]_vars
          => EmptyInv' /\ AttendedInv'
    BY EmptyInvStep, AttendedStep DEF AttendedInv
  <1>3. DaemonInv /\ RunsInv /\ RestInv /\ EmptyInv /\ AttendedInv => StoppedIsQuiet
    <2> SUFFICES ASSUME DaemonInv, RunsInv, RestInv, EmptyInv, AttendedInv, NEW p \in Plans
                 PROVE  /\ objective[p] \in {"PAUSED"} \cup Terminal => RunningOf(p) = {}
                        /\ objective[p] = "CANCELLED" => \A r \in ActiveRuns(p) :
                             run[r] \in {"waiting", "recovering"} /\ "cancel-plan" \in Commands
      BY DEF StoppedIsQuiet
    <2>1. objective[p] \in {"PAUSED"} \cup Terminal => RunningOf(p) = {}
      BY DEF RestInv, AtRest
    <2>2. ASSUME objective[p] = "CANCELLED", NEW r \in ActiveRuns(p)
          PROVE  run[r] \in {"waiting", "recovering"} /\ "cancel-plan" \in Commands
      <3>1. r \in linked /\ r \in Runs /\ PlanOf[r[1]] = p /\ run[r] \in Holding
        BY DEF ActiveRuns, RunsOf, DaemonInv, TypeInv, TypeOK
      <3>2. r = Current(r[1]) /\ r[1] \in Pipelines /\ r[1] \in Tasks
        BY <3>1, RunFacts DEF RunsInv, RunFits
      <3>3. task[r[1]] # "RUNNING"
        BY <2>1, <2>2, <3>1, <3>2 DEF RunningOf, TasksOf, Terminal
      <3>4. run[r] \notin {"open", "committing"}
        BY <3>1, <3>2, <3>3 DEF AttendedInv, Attended
      <3>5. "cancel-plan" \in Commands
        BY <2>2 DEF EmptyInv
      <3> QED BY <3>1, <3>4, <3>5, HoldingNames
    <2> QED BY <2>1, <2>2
  <1> QED BY <1>1, <1>2, <1>3, RestAndDone, PTL DEF Spec

-----------------------------------------------------------------------------
(* While no program fails half way, an integrated run's task is complete,   *)
(* or about to be: by its thread, or by the next start of the daemon.       *)
RecordInv ==
  \A t \in Pipelines : Current(t) \in Runs /\ run[Current(t)] = "completed" =>
    task[t] = "COMPLETED" \/ (task[t] = "RUNNING" /\ exec[t] \in {"succeed", "idle"})

LEMMA RecordInvStep ==
  ASSUME CoreInv, RecordInv, [Next]_vars, MaxFaults = 0
  PROVE  RecordInv'
  <1> SUFFICES ASSUME NEW t \in Pipelines, Current(t)' \in Runs, run'[Current(t)'] = "completed"
               PROVE  \/ task'[t] = "COMPLETED"
                      \/ task'[t] = "RUNNING" /\ exec'[t] \in {"succeed", "idle"}
    BY DEF RecordInv
  <1> DEFINE c == Current(t)
  <1>1. DaemonInv /\ RunsInv /\ CommitInv /\ TypeOK /\ t \in Tasks /\ faults = 0
    BY RunFacts DEF CoreInv, DaemonInv, TypeInv, TypeOK
  <1>2. attempts'[t] = attempts[t] /\ Current(t)' = c
    <2>1. CASE ReserveAttempt(t) /\ MayStart(t)
      <3>1. Current(t)'[1] = t /\ Current(t)'[2] = attempts[t] + 1
            /\ UNCHANGED run /\ attempts[t] \in Nat
        BY <1>1, <2>1 DEF ReserveAttempt, runVars, Current, TypeOK
      <3>2. run[Current(t)'] = "none"
        BY <1>1, <3>1 DEF RunsInv, RunFits
      <3> QED BY <3>1, <3>2
    <2>2. CASE attempts'[t] = attempts[t]
      BY <2>2 DEF Current
    <2> QED BY <1>1, <2>1, <2>2, StepRests
  <1>3. c \in Runs /\ c[1] = t /\ run'[c] = "completed"
    BY <1>2, RunFacts
  <1>4. ASSUME run[c] \in {"committing", "completed"}
        PROVE  ~Cleans(t)
    <2>1. SUFFICES ASSUME NEW q \in loop.runs, q[1] = t, At("clean.end") PROVE FALSE
      BY DEF Cleans
    <2>2. q \in linked /\ q \in Runs /\ run[q] = "recovering"
      BY <1>1, <2>1 DEF RunsInv, LoopOwns, TypeOK
    <2>3. q = Current(t)
      BY <1>1, <2>1, <2>2, HoldingNames DEF RunsInv, RunFits
    <2> QED BY <1>4, <2>2, <2>3
  <1> HIDE DEF c
  <1>5. CASE run[c] # "completed"
    <2>1. PICK q \in Runs : RunMoves(q)
      BY <1>1, <1>3, <1>5, StepRuns
    <2>2. q = c
      BY <1>1, <1>3, <1>5, <2>1 DEF RunMoves, TypeOK
    <2>3. run[c] = "committing"
      BY <1>3, <2>1, <2>2
      DEF RunMoves, Lifecycle!Moves, Lifecycle!DriverMoves, Lifecycle!RecoveryMoves
    <2>4. task[t] = "RUNNING" /\ exec[t] \in {"commit", "undo", "idle"} /\ c = Current(c[1])
          /\ c = Current(t)
      BY <1>1, <1>3, <2>3, RunFacts DEF CommitInv, CommitsSafely, c
    <2>5. CASE ThreadStep(t)
      <3>1. Commit(t) \/ Rollback(t)
        BY <2>4, <2>5, RollbackNames
        DEF ThreadStep, ReserveAttempt, Begin, Link, Work, Check, Apply, RollbackEnd,
            FinishSuccess, FinishWaitingHuman, FinishCancellationRecovery, FinishFailure, FinishRefresh
      <3>2. CASE Commit(t)
        BY <1>1, <2>4, <3>2 DEF Commit, Goto, planVars, TypeOK
      <3>3. CASE Rollback(t)
        <4>1. run'[c] = "recovering"
          BY <1>1, <1>3, <2>3, <2>4, <3>3, HoldingNames DEF Rollback, Over, MarkRecovery, SetRun, TypeOK
        <4> QED BY <1>3, <4>1
      <3> QED BY <3>1, <3>2, <3>3
    <2>6. CASE ~ThreadStep(t)
      <3>1. exec[t] = "idle"
        BY <1>3, <2>1, <2>2, <2>4, <2>6 DEF RunMoves, Untaken, Taken, Driving
      <3>2. ~Start
        BY <1>3, <1>5 DEF Start, runVars
      <3>3. TaskRests(t)
        BY <1>1, <1>4, <2>3, <2>6, <3>2, StepRests
      <3>4. task'[t] = "RUNNING" /\ exec'[t] = "idle"
        BY <1>1, <2>4, <2>6, <3>1, <3>3, StepRests DEF TaskRests
      <3> QED BY <3>4
    <2> QED BY <2>5, <2>6
  <1>6. CASE run[c] = "completed" /\ task[t] = "COMPLETED"
    BY <1>1, <1>6, StepStarts
  <1>7. CASE run[c] = "completed" /\ task[t] # "COMPLETED"
    <2>1. task[t] = "RUNNING" /\ exec[t] \in {"succeed", "idle"} /\ c \in linked
      BY <1>1, <1>3, <1>7 DEF RecordInv, RunsInv, RunFits, c
    <2>2. CASE ThreadStep(t)
      <3>1. FinishSuccess(t)
        BY <2>1, <2>2, RollbackNames
        DEF ThreadStep, ReserveAttempt, Begin, Link, Work, Check, Apply, Commit, Rollback, RollbackEnd,
            FinishWaitingHuman, FinishCancellationRecovery, FinishFailure, FinishRefresh
      <3> QED
        BY <1>1, <1>7, <2>1, <3>1 DEF FinishSuccess, MoveTask, StoppedByGate, c, TypeOK
    <2>3. CASE Start
      <3>1. Reconciled(t) = "COMPLETED"
        BY <1>7, <2>1, <2>3, HoldingNames DEF Reconciled, c
      <3> QED BY <1>1, <2>3, <3>1 DEF Start
    <2>4. CASE TaskRests(t) /\ ~ThreadStep(t)
      BY <1>1, <2>1, <2>4, StepRests DEF TaskRests
    <2> QED BY <1>1, <1>4, <1>7, <2>2, <2>3, <2>4, StepRests
  <1> QED BY <1>5, <1>6, <1>7

(* What is on the default branch is not lost for its plan, whatever gates,  *)
(* cancellations and deaths of the daemon come in between: this is where    *)
(* no program may fail half way.                                            *)
THEOREM IntegratedRecorded ==
  ASSUME MaxFaults = 0
  PROVE  Spec => []IntegratedIsRecorded
  <1>1. Init => RecordInv
    BY DEF Init, RecordInv
  <1>2. CoreInv /\ RecordInv /\ [Next]_vars => RecordInv'
    BY RecordInvStep
  <1>3. RecordInv => IntegratedIsRecorded
    BY DEF RecordInv, IntegratedIsRecorded
  <1> QED BY <1>1, <1>2, <1>3, CoreInvariant, PTL DEF Spec

-----------------------------------------------------------------------------
(* The commands of the Controller.                                         *)

(* The tables tell the same story: every operation is kept under its key,   *)
(* every kept answer names its operation, and a key is kept once.           *)
RowOf(q, n) == [store |-> Store(q), request |-> q, operation |-> n]
Indices == 1 .. Len(operations)
OperationsKept ==
  \A i \in Indices : RowOf(operations[i], i) \in ledger /\ operations[i].command # "csrf"
RowsTrue ==
  \A row \in ledger :
    /\ row.store = Store(row.request)
    /\ row.request.command # "csrf" =>
         row.operation \in Indices /\ operations[row.operation] = row.request
SameKey(q, r) == q.session = r.session /\ q.key = r.key /\ Store(q) = Store(r)
KeyUnique == \A x, y \in ledger : SameKey(x.request, y.request) => x = y

(* What a client is told, or about to be told, of its request. *)
Told(q, a) == a.status = "done" /\ q.command # "csrf" =>
                a.operation \in Indices /\ operations[a.operation] = q
AnswersTrue ==
  /\ \A q \in Requests : \A a \in answers[q] : Told(q, a)
  /\ \A h \in Handlers : handler[h].pc = "reply" => Told(handler[h].request, handler[h].answer)

DecisionsRecorded ==
  \A i \in Indices : operations[i].command \in ReviewCommands =>
    decision[operations[i].target] = operations[i].command

CommandInv == /\ CommandTypeOK /\ OperationsKept /\ RowsTrue /\ KeyUnique
              /\ AnswersTrue /\ DecisionsRecorded

-----------------------------------------------------------------------------
LEMMA RequestFacts ==
  ASSUME NEW q \in Requests
  PROVE  /\ Store(q) \in {"review", "objective"}
         /\ q.command \in ReviewCommands => q.target \in Reviews /\ q.command # "csrf"
         /\ q.command \in ObjectiveCommands => q.command \notin ReviewCommands \cup {"csrf"}
  BY CommandAssumption DEF CommandAssumption, Store, ReviewCommands, ObjectiveCommands

LEMMA AnswerTyped == /\ Reject \in Answers /\ Failure \in Answers
                     /\ \A n \in Nat : Done(n) \in Answers
  BY DEF Reject, Failure, Done, Answers

LEMMA HandlerTyped ==
  /\ Idle \in HandlerStates
  /\ \A q \in Requests : Executing(q) \in HandlerStates
  /\ \A q \in Requests, a \in Answers : Replying(q, a) \in HandlerStates
  BY DEF HandlerStates, Idle, Executing, Replying

(* What the state of a thread tells. *)
LEMMA HandlerFacts ==
  ASSUME CommandTypeOK, NEW h \in Handlers
  PROVE  /\ handler[h].pc \in {"execute", "reply"} => handler[h].request \in Requests
         /\ handler[h].pc = "reply" => handler[h].answer \in Answers
         /\ Idle.pc = "idle"
         /\ \A q \in Requests : Executing(q).pc = "execute"
         /\ \A q, a : Replying(q, a).pc = "reply" /\ Replying(q, a).request = q
                      /\ Replying(q, a).answer = a
  BY DEF CommandTypeOK, HandlerStates, Idle, Executing, Replying

ToldThen(q, a) == a.status = "done" /\ q.command # "csrf" =>
                    a.operation \in Indices' /\ operations'[a.operation] = q

(* A step that leaves the tables alone: it is enough that what it newly     *)
(* tells is true.                                                          *)
LEMMA StoreUnchanged ==
  ASSUME CommandInv, UNCHANGED storeVars, CommandTypeOK', AnswersTrue'
  PROVE  CommandInv'
  <1>1. UNCHANGED Indices
    BY DEF storeVars, Indices
  <1> QED
    BY <1>1 DEF CommandInv, storeVars, OperationsKept, RowsTrue, KeyUnique, DecisionsRecorded

LEMMA TellingOn ==
  ASSUME AnswersTrue, UNCHANGED storeVars,
         NEW h \in Handlers, CommandTypeOK, UNCHANGED answers,
         handler' = [handler EXCEPT ![h] = handler'[h]],
         handler'[h].pc = "reply" => Told(handler'[h].request, handler'[h].answer)
  PROVE  AnswersTrue'
  <1>1. \A q, a : Told(q, a) => Told(q, a)'
    BY DEF Told, storeVars, Indices
  <1>2. ASSUME NEW g \in Handlers, handler'[g].pc = "reply"
        PROVE  Told(handler'[g].request, handler'[g].answer)
    <2>1. CASE g = h
      BY <1>2, <2>1
    <2>2. CASE g # h
      <3>1. handler'[g] = handler[g]
        BY <2>2 DEF CommandTypeOK
      <3> QED
        BY <1>2, <3>1 DEF AnswersTrue
    <2> QED BY <2>1, <2>2
  <1>3. \A q \in Requests : \A a \in answers'[q] : Told(q, a)
    BY DEF AnswersTrue
  <1> QED
    BY <1>1, <1>2, <1>3 DEF AnswersTrue

-----------------------------------------------------------------------------
(* The transaction of a command. *)

LEMMA ReplayTyped ==
  ASSUME CommandTypeOK, NEW h \in Handlers, handler[h].pc = "execute",
         NEW a \in Answers, Answer(h, a)
  PROVE  /\ handler' \in [Handlers -> HandlerStates]
         /\ handler' = [handler EXCEPT ![h] = handler'[h]]
         /\ handler'[h] = Replying(handler[h].request, a)
  <1>1. handler[h].request \in Requests
    BY HandlerFacts
  <1>2. Replying(handler[h].request, a) \in HandlerStates
    BY <1>1, HandlerTyped
  <1> QED
    BY <1>2 DEF Answer, CommandTypeOK

LEMMA ReplayStep ==
  ASSUME CommandInv, NEW h \in Handlers, Replay(h)
  PROVE  CommandInv'
  <1> DEFINE q == handler[h].request
  <1>1. q \in Requests
    BY HandlerFacts DEF Replay, CommandInv
  <1>2. PICK row \in Kept(q) :
          Answer(h, IF row.request = q THEN Done(row.operation) ELSE Reject)
    BY DEF Replay
  <1> DEFINE a == IF row.request = q THEN Done(row.operation) ELSE Reject
  <1>3. row \in ledger /\ row.operation \in Nat
    BY <1>2 DEF Kept, CommandInv, CommandTypeOK, Rows
  <1>4. a \in Answers
    BY <1>3, AnswerTyped
  <1>5. Told(q, a)
    BY <1>3 DEF CommandInv, RowsTrue, Told, Done, Reject
  <1>6. CommandTypeOK'
    BY <1>2, <1>4, ReplayTyped DEF Replay, CommandInv, CommandTypeOK, storeVars, networkVars
  <1>7. handler'[h] = Replying(q, a) /\ handler' = [handler EXCEPT ![h] = handler'[h]]
    BY <1>2, <1>4, ReplayTyped DEF Replay, CommandInv
  <1>8. Told(handler'[h].request, handler'[h].answer)
    BY <1>5, <1>7 DEF Replying
  <1>9. AnswersTrue'
    BY <1>7, <1>8, TellingOn DEF Replay, CommandInv, networkVars
  <1> QED
    BY <1>6, <1>9, StoreUnchanged DEF Replay

(* A new row for a key that has none. *)
LEMMA KeptStays ==
  ASSUME CommandInv, NEW q \in Requests, Kept(q) = {}, NEW n \in Nat, Keep(q, n)
  PROVE  /\ ledger' \subseteq Rows
         /\ ledger \subseteq ledger' /\ RowOf(q, n) \in ledger'
         /\ \A row \in ledger' : row \in ledger \/ row = RowOf(q, n)
         /\ KeyUnique'
  <1>1. RowOf(q, n) \in Rows
    BY RequestFacts DEF RowOf, Rows
  <1>2. ledger' = ledger \cup {RowOf(q, n)}
    BY DEF Keep, RowOf
  <1>3. \A x \in ledger : ~SameKey(x.request, q)
    BY DEF Kept, CommandInv, RowsTrue, SameKey
  <1>4. RowOf(q, n).request = q
    BY DEF RowOf
  <1>5. \A x, y \in ledger' : SameKey(x.request, y.request) => x = y
    BY <1>2, <1>3, <1>4 DEF CommandInv, KeyUnique, SameKey
  <1> QED
    BY <1>1, <1>2, <1>5 DEF CommandInv, CommandTypeOK, KeyUnique, SameKey, Store

LEMMA RecordStep ==
  ASSUME CommandInv, NEW q \in Requests, Record(q)
  PROVE  /\ operations' \in Seq(Requests)
         /\ Len(operations') = Len(operations) + 1 /\ Len(operations) \in Nat
         /\ operations'[Len(operations) + 1] = q
         /\ \A i \in Indices : operations'[i] = operations[i] /\ i \in Indices'
         /\ Indices' = Indices \cup {Len(operations) + 1}
         /\ \A r, a : Told(r, a) => ToldThen(r, a)
  <1>1. operations \in Seq(Requests) /\ operations' = Append(operations, q)
    BY DEF CommandInv, CommandTypeOK, Record
  <1>2. /\ operations' \in Seq(Requests) /\ Len(operations) \in Nat
        /\ Len(operations') = Len(operations) + 1
        /\ operations'[Len(operations) + 1] = q
        /\ \A i \in 1 .. Len(operations) : operations'[i] = operations[i]
    BY <1>1
  <1>3. Indices' = Indices \cup {Len(operations) + 1}
    BY <1>2 DEF Indices
  <1> QED
    BY <1>2, <1>3 DEF Indices, Told, ToldThen

LEMMA PerformStep ==
  ASSUME CommandInv, NEW h \in Handlers, Perform(h)
  PROVE  CommandInv'
  <1> DEFINE q == handler[h].request
  <1> DEFINE n == Len(operations) + 1
  <1>1. q \in Requests
    BY HandlerFacts DEF Perform, CommandInv
  <1>2. n \in Nat /\ Kept(q) = {} /\ Record(q) /\ Keep(q, n) /\ Answer(h, Done(n))
        /\ UNCHANGED networkVars
    BY DEF Perform, CommandInv, CommandTypeOK
  <1> HIDE DEF q
  <1>3. q.command # "csrf"
    BY <1>1, RequestFacts DEF Perform, ReviewCommand, q
  <1>4. n \in Indices' /\ operations'[n] = q
    BY <1>1, <1>2, RecordStep
  <1>5. handler'[h] = Replying(q, Done(n)) /\ handler' = [handler EXCEPT ![h] = handler'[h]]
        /\ handler' \in [Handlers -> HandlerStates]
    BY <1>2, AnswerTyped, ReplayTyped DEF Perform, CommandInv, q
  <1>6. decision' = decision \/ (/\ q.command \in ReviewCommands /\ decision[q.target] = "none"
                                  /\ decision' = [decision EXCEPT ![q.target] = q.command])
    BY DEF Perform, ReviewCommand, ReviewAllowed, q
  <1>7. q.command \in ReviewCommands => q.command \notin ObjectiveCommands
    BY DEF ReviewCommands, ObjectiveCommands
  <1>8. decision' \in [Reviews -> {"none"} \cup ReviewCommands]
    BY <1>1, <1>6, RequestFacts DEF CommandInv, CommandTypeOK
  <1>9. CommandTypeOK'
    BY <1>1, <1>2, <1>5, <1>8, KeptStays, RecordStep DEF CommandInv, CommandTypeOK, networkVars
  <1>10. OperationsKept'
    <2>1. ASSUME NEW i \in Indices'
          PROVE  RowOf(operations'[i], i) \in ledger' /\ operations'[i].command # "csrf"
      <3>1. CASE i = n
        BY <1>1, <1>2, <1>3, <1>4, <3>1, KeptStays
      <3>2. CASE i \in Indices
        BY <1>1, <1>2, <3>2, KeptStays, RecordStep DEF CommandInv, OperationsKept
      <3> QED BY <1>1, <1>2, <3>1, <3>2, RecordStep
    <2> QED BY <2>1 DEF OperationsKept, RowOf, Store
  <1>11. RowsTrue'
    <2>1. ASSUME NEW row \in ledger'
          PROVE  /\ row.store = Store(row.request)
                 /\ row.request.command # "csrf" =>
                      row.operation \in Indices' /\ operations'[row.operation] = row.request
      <3>1. CASE row \in ledger
        BY <1>1, <1>2, <3>1, RecordStep DEF CommandInv, RowsTrue
      <3>2. CASE row = RowOf(q, n)
        BY <1>4, <3>2 DEF RowOf
      <3> QED BY <1>1, <1>2, <3>1, <3>2, KeptStays
    <2> QED BY <2>1 DEF RowsTrue, Store
  <1>12. KeyUnique'
    BY <1>1, <1>2, KeptStays
  <1>13. AnswersTrue'
    <2>1. ToldThen(q, Done(n))
      BY <1>4 DEF ToldThen, Done
    <2>2. \A g \in Handlers : handler'[g].pc = "reply" =>
            \/ handler'[g].request = q /\ handler'[g].answer = Done(n)
            \/ handler[g].pc = "reply" /\ handler'[g] = handler[g]
      BY <1>5 DEF CommandInv, CommandTypeOK, Replying
    <2>3. \A g \in Handlers : handler'[g].pc = "reply" =>
            ToldThen(handler'[g].request, handler'[g].answer)
      BY <1>1, <1>2, <2>1, <2>2, RecordStep DEF CommandInv, AnswersTrue
    <2>4. \A r \in Requests : \A a \in answers'[r] : ToldThen(r, a)
      BY <1>1, <1>2, RecordStep DEF CommandInv, AnswersTrue, networkVars
    <2> QED BY <2>3, <2>4 DEF AnswersTrue, Told, ToldThen
  <1>14. DecisionsRecorded'
    <2>1. ASSUME NEW i \in Indices', operations'[i].command \in ReviewCommands
          PROVE  decision'[operations'[i].target] = operations'[i].command
      <3>1. CASE i = n
        <4>1. decision' = [decision EXCEPT ![q.target] = q.command]
          BY <1>4, <2>1, <3>1, <1>7 DEF Perform, ReviewCommand, q
        <4> QED BY <1>1, <1>4, <2>1, <3>1, <4>1, RequestFacts DEF CommandInv, CommandTypeOK
      <3>2. CASE i \in Indices
        <4>1. operations'[i] = operations[i]
          BY <1>1, <1>2, <3>2, RecordStep
        <4>2. decision[operations[i].target] = operations[i].command
          BY <2>1, <3>2, <4>1 DEF CommandInv, DecisionsRecorded
        <4>3. operations[i].command # "none"
          BY <2>1, <4>1 DEF ReviewCommands
        <4>4. decision'[operations[i].target] = decision[operations[i].target]
          <5>1. operations[i].target \in Reviews
            BY <2>1, <3>2, <4>1, RequestFacts DEF Indices, CommandInv, CommandTypeOK
          <5> QED BY <1>6, <4>2, <4>3, <5>1 DEF CommandInv, CommandTypeOK
        <4> QED BY <4>1, <4>2, <4>4
      <3> QED BY <1>1, <1>2, <3>1, <3>2, RecordStep
    <2> QED BY <2>1 DEF DecisionsRecorded
  <1> QED
    BY <1>9, <1>10, <1>11, <1>12, <1>13, <1>14 DEF CommandInv

LEMMA IssueCsrfStep ==
  ASSUME CommandInv, NEW h \in Handlers, IssueCsrf(h)
  PROVE  CommandInv'
  <1> DEFINE q == handler[h].request
  <1>1. q \in Requests
    BY HandlerFacts DEF IssueCsrf, CommandInv
  <1>2. /\ Kept(q) = {} /\ q.command = "csrf" /\ Keep(q, 0) /\ Answer(h, Done(0))
        /\ UNCHANGED <<operations, decision, networkVars>>
    BY DEF IssueCsrf
  <1>3. handler'[h] = Replying(q, Done(0)) /\ handler' = [handler EXCEPT ![h] = handler'[h]]
        /\ handler' \in [Handlers -> HandlerStates]
    BY <1>2, AnswerTyped, ReplayTyped DEF IssueCsrf, CommandInv
  <1> HIDE DEF q
  <1>4. CommandTypeOK'
    BY <1>1, <1>2, <1>3, KeptStays DEF CommandInv, CommandTypeOK, networkVars
  <1>5. UNCHANGED Indices
    BY <1>2 DEF Indices
  <1>6. OperationsKept' /\ DecisionsRecorded'
    BY <1>1, <1>2, <1>5, KeptStays
    DEF CommandInv, OperationsKept, DecisionsRecorded, RowOf, Store
  <1>7. RowsTrue'
    <2>1. ASSUME NEW row \in ledger'
          PROVE  /\ row.store = Store(row.request)
                 /\ row.request.command # "csrf" =>
                      row.operation \in Indices /\ operations[row.operation] = row.request
      <3>1. CASE row \in ledger
        BY <3>1 DEF CommandInv, RowsTrue
      <3>2. CASE row = RowOf(q, 0)
        BY <1>2, <3>2 DEF RowOf
      <3> QED BY <1>1, <1>2, <3>1, <3>2, KeptStays
    <2> QED BY <1>2, <1>5, <2>1 DEF RowsTrue, Store
  <1>8. KeyUnique'
    BY <1>1, <1>2, KeptStays
  <1>9. AnswersTrue'
    <2>1. \A g \in Handlers : handler'[g].pc = "reply" =>
            \/ handler'[g].request = q
            \/ handler[g].pc = "reply" /\ handler'[g] = handler[g]
      BY <1>3 DEF CommandInv, CommandTypeOK, Replying
    <2> QED BY <1>2, <1>5, <2>1 DEF CommandInv, AnswersTrue, Told, networkVars
  <1> QED
    BY <1>4, <1>6, <1>7, <1>8, <1>9 DEF CommandInv

-----------------------------------------------------------------------------
(* The steps that leave the tables alone. *)

LEMMA ProblemStep ==
  ASSUME CommandInv, NEW h \in Handlers, Refuse(h) \/ FailToExecute(h)
  PROVE  CommandInv'
  <1> DEFINE q == handler[h].request
  <1>1. PICK a \in {Reject, Failure} : Answer(h, a)
    BY DEF Refuse, FailToExecute
  <1>2. handler[h].pc = "execute" /\ UNCHANGED <<storeVars, copies, answers>>
        /\ losses' \in 0 .. MaxLosses
    BY CommandAssumption
    DEF Refuse, FailToExecute, networkVars, CommandInv, CommandTypeOK, CommandAssumption
  <1>3. handler'[h] = Replying(q, a) /\ handler' = [handler EXCEPT ![h] = handler'[h]]
        /\ handler' \in [Handlers -> HandlerStates]
    BY <1>1, <1>2, AnswerTyped, ReplayTyped DEF CommandInv
  <1>4. CommandTypeOK'
    BY <1>2, <1>3 DEF CommandInv, CommandTypeOK, storeVars
  <1>5. Told(handler'[h].request, handler'[h].answer)
    BY <1>3 DEF Told, Replying, Reject, Failure
  <1>6. AnswersTrue'
    BY <1>2, <1>3, <1>5, TellingOn DEF CommandInv
  <1> QED
    BY <1>2, <1>4, <1>6, StoreUnchanged

LEMMA AcceptStep ==
  ASSUME CommandInv, NEW h \in Handlers, NEW q \in Requests, Accept(h, q)
  PROVE  CommandInv'
  <1>1. PICK s \in {Executing(q), Replying(q, Reject)} : handler' = [handler EXCEPT ![h] = s]
    BY DEF Accept, Admitted
  <1>2. s \in HandlerStates
    BY <1>1, HandlerTyped, AnswerTyped
  <1>3. copies' \in [Requests -> Nat]
    BY DEF Accept, CommandInv, CommandTypeOK
  <1>4. CommandTypeOK'
    BY <1>1, <1>2, <1>3 DEF Accept, CommandInv, CommandTypeOK, storeVars
  <1>5. handler'[h] = s /\ handler' = [handler EXCEPT ![h] = handler'[h]]
    BY <1>1 DEF CommandInv, CommandTypeOK
  <1>6. handler'[h].pc = "reply" => Told(handler'[h].request, handler'[h].answer)
    BY <1>1, <1>5 DEF Told, Executing, Replying, Reject
  <1>7. AnswersTrue'
    BY <1>5, <1>6, TellingOn DEF Accept, CommandInv
  <1> QED
    BY <1>4, <1>7, StoreUnchanged DEF Accept

LEMMA ReplyStep ==
  ASSUME CommandInv, NEW h \in Handlers, Reply(h)
  PROVE  CommandInv'
  <1> DEFINE q == handler[h].request
  <1> DEFINE a == handler[h].answer
  <1>1. q \in Requests /\ a \in Answers /\ Told(q, a)
    BY HandlerFacts DEF Reply, CommandInv, AnswersTrue
  <1>2. handler' = [handler EXCEPT ![h] = Idle] /\ answers' = [answers EXCEPT ![q] = @ \cup {a}]
        /\ UNCHANGED <<storeVars, copies, losses>>
    BY DEF Reply
  <1> HIDE DEF q, a
  <1>3. CommandTypeOK'
    BY <1>1, <1>2, HandlerTyped DEF CommandInv, CommandTypeOK, storeVars
  <1>4. UNCHANGED <<operations, Indices>>
    BY <1>2 DEF storeVars, Indices
  <1>5. \A g \in Handlers : handler'[g].pc = "reply" =>
          handler[g].pc = "reply" /\ handler'[g] = handler[g]
    BY <1>2 DEF CommandInv, CommandTypeOK, Idle
  <1>6. \A r \in Requests : \A b \in answers'[r] : b \in answers[r] \/ (r = q /\ b = a)
    BY <1>1, <1>2 DEF CommandInv, CommandTypeOK
  <1>7. AnswersTrue'
    BY <1>1, <1>4, <1>5, <1>6 DEF CommandInv, AnswersTrue, Told
  <1> QED
    BY <1>2, <1>3, <1>7, StoreUnchanged

LEMMA ClientStep ==
  ASSUME CommandInv, NEW q \in Requests, Send(q) \/ Repeat(q) \/ LoseRequest(q)
  PROVE  CommandInv'
  <1>1. UNCHANGED <<storeVars, answers, handler>>
    BY DEF Send, Repeat, LoseRequest
  <1>2. copies' \in [Requests -> Nat]
    BY DEF Send, Repeat, LoseRequest, CommandInv, CommandTypeOK
  <1>3. losses' \in 0 .. MaxLosses
    BY CommandAssumption
    DEF Send, Repeat, LoseRequest, CommandInv, CommandTypeOK, CommandAssumption
  <1>4. CommandTypeOK'
    BY <1>1, <1>2, <1>3 DEF CommandInv, CommandTypeOK, storeVars
  <1>5. AnswersTrue'
    BY <1>1 DEF CommandInv, AnswersTrue, Told, Indices, storeVars
  <1> QED
    BY <1>1, <1>4, <1>5, StoreUnchanged

LEMMA SilenceStep ==
  ASSUME CommandInv, Restart \/ \E h \in Handlers : LoseReply(h)
  PROVE  CommandInv'
  <1>1. UNCHANGED <<storeVars, copies, answers>>
    BY DEF Restart, LoseReply
  <1>2. losses' \in 0 .. MaxLosses
    BY CommandAssumption DEF Restart, LoseReply, CommandInv, CommandTypeOK, CommandAssumption
  <1>3. handler' \in [Handlers -> HandlerStates]
    BY HandlerTyped DEF Restart, LoseReply, CommandInv, CommandTypeOK
  <1>4. \A g \in Handlers : handler'[g] = Idle \/ handler'[g] = handler[g]
    BY DEF Restart, LoseReply, CommandInv, CommandTypeOK
  <1>5. CommandTypeOK'
    BY <1>1, <1>2, <1>3 DEF CommandInv, CommandTypeOK, storeVars
  <1>6. AnswersTrue'
    BY <1>1, <1>4 DEF CommandInv, AnswersTrue, Told, Indices, storeVars, Idle
  <1> QED
    BY <1>1, <1>5, <1>6, StoreUnchanged

LEMMA QuietStep ==
  ASSUME CommandInv, UNCHANGED commandVars
  PROVE  CommandInv'
  <1>1. UNCHANGED <<storeVars, ledger, operations, decision, copies, answers, losses, handler>>
    BY DEF commandVars, storeVars, networkVars
  <1>2. CommandTypeOK'
    BY <1>1 DEF CommandInv, CommandTypeOK
  <1>3. AnswersTrue'
    BY <1>1 DEF CommandInv, AnswersTrue, Told, Indices
  <1> QED
    BY <1>1, <1>2, <1>3, StoreUnchanged

LEMMA CommandInvStep == CommandInv /\ [CommandNext]_allVars => CommandInv'
  <1> SUFFICES ASSUME CommandInv, [CommandNext]_allVars PROVE CommandInv'
    OBVIOUS
  <1>1. CASE UNCHANGED commandVars
    BY <1>1, QuietStep
  <1>2. ASSUME NEW h \in Handlers, ServerStep(h) PROVE CommandInv'
    BY <1>2, ReplayStep, PerformStep, IssueCsrfStep, ProblemStep, ReplyStep DEF ServerStep
  <1>3. ASSUME NEW h \in Handlers, FailToExecute(h) PROVE CommandInv'
    BY <1>3, ProblemStep
  <1>4. CASE Restart \/ \E h \in Handlers : LoseReply(h)
    BY <1>4, SilenceStep
  <1>5. ASSUME NEW h \in Handlers, NEW q \in Requests, Accept(h, q) PROVE CommandInv'
    BY <1>5, AcceptStep
  <1>6. ASSUME NEW q \in Requests, Send(q) \/ Repeat(q) \/ LoseRequest(q) PROVE CommandInv'
    BY <1>6, ClientStep
  <1>7. CASE UNCHANGED allVars
    BY <1>1, <1>7 DEF allVars
  <1> QED
    BY <1>1, <1>2, <1>3, <1>4, <1>5, <1>6, <1>7 DEF CommandNext

LEMMA CommandInvInit == CommandInit => CommandInv
  <1> SUFFICES ASSUME CommandInit PROVE CommandInv
    OBVIOUS
  <1>1. CommandTypeOK
    BY HandlerTyped, CommandAssumption DEF CommandInit, CommandTypeOK, CommandAssumption
  <1>2. OperationsKept /\ RowsTrue /\ KeyUnique /\ DecisionsRecorded
    BY DEF CommandInit, OperationsKept, RowsTrue, KeyUnique, DecisionsRecorded, Indices
  <1>3. AnswersTrue
    BY DEF CommandInit, AnswersTrue, Idle
  <1> QED
    BY <1>1, <1>2, <1>3 DEF CommandInv

-----------------------------------------------------------------------------
(* The tables and the threads of _replay_or_reserve and its callers hold    *)
(* what they are declared to hold.                                         *)
THEOREM CommandTypeCorrect == CommandSpec => []CommandTypeOK
<1>1. CommandInv => CommandTypeOK
  BY DEF CommandInv
<1> QED
  BY <1>1, CommandInvInit, CommandInvStep, PTL DEF CommandSpec

(* A key is worth one operation, for any number of clients, repetitions,    *)
(* lost answers and restarts: the row of the key, written in the           *)
(* transaction of the command, is what a second execution runs into.       *)
THEOREM KeyIsWorthOneOperation == CommandSpec => []CarriedOutOnce
<1>1. CommandInv => CarriedOutOnce
  <2> SUFFICES ASSUME CommandInv PROVE CarriedOutOnce
    OBVIOUS
  <2>1. ASSUME NEW i \in Indices, NEW j \in Indices,
               SameKey(operations[i], operations[j])
        PROVE  i = j
    <3>1. /\ RowOf(operations[i], i) \in ledger /\ RowOf(operations[j], j) \in ledger
          /\ RowOf(operations[i], i).request = operations[i]
          /\ RowOf(operations[j], j).request = operations[j]
      BY DEF CommandInv, OperationsKept, RowOf
    <3>2. RowOf(operations[i], i) = RowOf(operations[j], j)
      BY <2>1, <3>1 DEF CommandInv, KeyUnique
    <3> QED
      BY <3>2 DEF RowOf
  <2>2. \A q \in Requests : \A a \in answers[q] : Told(q, a)
    BY DEF CommandInv, AnswersTrue
  <2> QED
    BY <2>1, <2>2 DEF CarriedOutOnce, Indices, SameKey, Told
<1> QED
  BY <1>1, CommandInvInit, CommandInvStep, PTL DEF CommandSpec

(* A confirmed decision on a review stands, however many sessions decide.   *)
THEOREM DecisionStands == CommandSpec => []ConfirmedDecisionStands
<1>1. CommandInv => ConfirmedDecisionStands
  BY RequestFacts DEF CommandInv, AnswersTrue, Told, DecisionsRecorded, ConfirmedDecisionStands
<1> QED
  BY <1>1, CommandInvInit, CommandInvStep, PTL DEF CommandSpec

-----------------------------------------------------------------------------
(* The Controller beside the daemon: its commands are the operator's.       *)

(* Without a plan there is nothing that its guards could have overlooked.   *)
LEMMA SameReading ==
  ASSUME DaemonInv, NEW p \in Plans
  PROVE  /\ RunningTasks(p) = RunningOf(p)
         /\ Integrating(p) <=> PointOfNoReturn(p)
         /\ OpenRuns(p) = ActiveRuns(p)
  <1>1. CASE HasPlan(p)
    BY <1>1 DEF RunningTasks, Integrating, OpenRuns, PointOfNoReturn, ActiveRuns
  <1>2. CASE ~HasPlan(p)
    <2>1. RunningOf(p) = {}
      BY <1>2 DEF HasPlan, RunningOf, TasksOf, DaemonInv, NoPlanYet
    <2>2. RunsOf(p) = {}
      BY <1>2 DEF HasPlan, RunsOf, DaemonInv, NoPlanYet
    <2> QED
      BY <1>2, <2>1, <2>2 DEF RunningTasks, Integrating, OpenRuns, PointOfNoReturn, ActiveRuns
  <1> QED BY <1>1, <1>2

LEMMA CreateSubmits ==
  ASSUME DaemonInv, NEW p \in Planned, CreateObjective(p)
  PROVE  Submit(p)
  <1>1. p \in Plans /\ p \notin Imported
    BY ConstantsAssumption DEF ConstantsAssumption
  <1>2. objective[p] = "NONE" /\ plan[p] = "NONE"
    BY DEF CreateObjective, HasPlan
  <1>3. plan' = [plan EXCEPT ![p] = "NONE"]
    BY <1>1, <1>2 DEF CreateObjective, DaemonInv, TypeInv, TypeOK
  <1> QED
    BY <1>1, <1>2, <1>3 DEF CreateObjective, SetObjective, QueueRest, Submit

LEMMA PausePauses ==
  ASSUME DaemonInv, NEW p \in Planned, "pause" \in Commands, PauseObjective(p)
  PROVE  Pause(p) \/ UNCHANGED vars
  <1>1. p \in Plans
    BY ConstantsAssumption DEF ConstantsAssumption
  <1>2. UNCHANGED <<planning, planner, planVars, runVars, exec, loop, boundVars>>
    BY DEF PauseObjective, QueueRest, planVars
  <1>3. CASE objective[p] = "PAUSED"
    BY <1>2, <1>3 DEF PauseObjective, vars, queueVars
  <1>4. CASE objective[p] # "PAUSED"
    <2>1. objective[p] \in {"QUEUED", "PLANNING", "RUNNING", "PAUSE_REQUESTED"}
      BY <1>1, <1>4 DEF PauseObjective, DaemonInv, TypeInv, TypeOK, ObjectiveStates
    <2>2. objective' = [objective EXCEPT ![p] =
                          IF objective[p] = "PLANNING" \/ RunningOf(p) # {} THEN "PAUSE_REQUESTED"
                                                                            ELSE "PAUSED"]
      BY <1>1, <1>4, SameReading DEF PauseObjective, SetObjective
    <2> QED
      BY <1>2, <2>1, <2>2 DEF Pause
  <1> QED BY <1>3, <1>4

LEMMA ResumeResumes ==
  ASSUME DaemonInv, NEW p \in Planned, "resume" \in Commands, ResumeObjective(p)
  PROVE  Resume(p)
  <1>1. p \in Plans
    BY ConstantsAssumption DEF ConstantsAssumption
  <1>2. ResumedStatus(p) = IF plan[p] = "BLOCKED" THEN "RUNNING"
                           ELSE IF plan[p] \in Terminal THEN plan[p] ELSE "QUEUED"
    BY <1>1 DEF ResumedStatus, DaemonInv, TypeInv, TypeOK, Live, Terminal
  <1> QED
    BY <1>2 DEF ResumeObjective, SetObjective, QueueRest, Resume, planVars

LEMMA CancelCancels ==
  ASSUME DaemonInv, NEW p \in Planned, "cancel" \in Commands, CancelObjective(p)
  PROVE  Cancel(p)
  <1>1. p \in Plans
    BY ConstantsAssumption DEF ConstantsAssumption
  <1>2. ASSUME CancelLinkedPlan(p)
        PROVE  CancelPlans({p})
    <2>1. CASE HasPlan(p)
      <3>1. {x \in {p} : plan[x] # "NONE"} = {p}
        BY <2>1 DEF HasPlan
      <3>2. task' = [t \in Tasks |-> IF PlanOf[t] \in {p} /\ task[t] \in Unstarted
                                       THEN "CANCELLED" ELSE task[t]]
        BY <1>2, <2>1 DEF CancelLinkedPlan, Unstarted
      <3>3. plan' = [x \in Plans |-> IF x \in {p} /\ plan[x] \notin Terminal
                                       THEN "CANCELLED" ELSE plan[x]]
        BY <1>1, <1>2, <2>1 DEF CancelLinkedPlan, DaemonInv, TypeInv, TypeOK
      <3>4. planError' = [x \in Plans |-> IF plan'[x] # plan[x] THEN "none" ELSE planError[x]]
        BY <1>1, <1>2, <2>1 DEF CancelLinkedPlan, DaemonInv, TypeInv, TypeOK, Terminal
      <3> QED BY <3>1, <3>2, <3>3, <3>4 DEF CancelPlans
    <2>2. CASE ~HasPlan(p)
      <3>1. {x \in {p} : plan[x] # "NONE"} = {}
        BY <2>2 DEF HasPlan
      <3>2. UNCHANGED <<task, plan, planError>>
        BY <1>2, <2>2 DEF CancelLinkedPlan
      <3>3. task = [t \in Tasks |-> task[t]] /\ plan = [x \in Plans |-> plan[x]]
            /\ planError = [x \in Plans |-> planError[x]]
        BY DEF DaemonInv, TypeInv, TypeOK
      <3> QED BY <3>1, <3>2, <3>3 DEF CancelPlans
    <2> QED BY <2>1, <2>2
  <1> QED
    BY <1>1, <1>2, SameReading DEF CancelObjective, SetObjective, QueueRest, Cancel

LEMMA CommandIsOperators ==
  ASSUME DaemonInv, NEW q \in Requests, ObjectiveCommand(q)
  PROVE  [Next]_vars
  <1>1. q.command \in {"pause", "resume", "cancel"} => q.target \in Planned
    BY CommandAssumption DEF CommandAssumption, ObjectiveCommands, ReviewCommands
  <1>2. {"pause", "resume", "cancel"} \subseteq Commands /\ Planned \subseteq Plans
    BY CommandAssumption, ConstantsAssumption DEF CommandAssumption, ConstantsAssumption
  <1>3. CASE \E p \in Planned : CreateObjective(p)
    BY <1>2, <1>3, CreateSubmits DEF Next
  <1>4. CASE q.command = "pause" /\ PauseObjective(q.target)
    BY <1>1, <1>2, <1>4, PausePauses DEF Next
  <1>5. CASE q.command = "resume" /\ ResumeObjective(q.target)
    BY <1>1, <1>2, <1>5, ResumeResumes DEF Next
  <1>6. CASE q.command = "cancel" /\ CancelObjective(q.target)
    BY <1>1, <1>2, <1>6, CancelCancels DEF Next
  <1> QED BY <1>3, <1>4, <1>5, <1>6 DEF ObjectiveCommand

LEMMA StepOperates ==
  ASSUME CommandInv, DaemonInv, [CommandNext]_allVars
  PROVE  [Next]_vars
  <1>1. ASSUME NEW h \in Handlers, Perform(h)
        PROVE  [Next]_vars
    <2>1. handler[h].request \in Requests
      BY <1>1, HandlerFacts DEF Perform, CommandInv
    <2>2. ObjectiveCommand(handler[h].request) \/ UNCHANGED vars
      BY <1>1 DEF Perform
    <2> QED BY <2>1, <2>2, CommandIsOperators
  <1>2. CASE UNCHANGED allVars
    BY <1>2 DEF allVars
  <1>3. ASSUME CommandNext, ~\E h \in Handlers : Perform(h)
        PROVE  [Next]_vars
    BY <1>3 DEF CommandNext, ServerStep, Replay, IssueCsrf, Refuse, Reply, FailToExecute, LoseReply,
                Accept, Send, Repeat, LoseRequest, Restart
  <1> QED BY <1>1, <1>2, <1>3

(* Whatever the Controller's clients ask for, repeat or lose, what happens  *)
(* to the objectives, the plans and the tasks is what the daemon, the       *)
(* recovery and the operator's own commands do: the two implementations of  *)
(* the commands agree in every state the daemon can be in.                  *)
THEOREM ControllerOperatesTheQueue == CommandSpec => OperatesTheQueue
  <1>1. CommandInit => CommandInv /\ DaemonInv /\ Init
    BY CommandInvInit, DaemonInvInit DEF CommandInit
  <1>2. CommandInv /\ DaemonInv /\ [CommandNext]_allVars => CommandInv' /\ DaemonInv' /\ [Next]_vars
    BY CommandInvStep, StepOperates, DaemonInvStep
  <1> QED BY <1>1, <1>2, PTL DEF CommandSpec, OperatesTheQueue, Spec
=============================================================================
