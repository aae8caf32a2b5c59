--------------------------- MODULE WorkspacesProofs ---------------------------
(***************************************************************************)
(* What the sweep of the recovery leaves alone, for any number of runs,    *)
(* executions and faults.                                                  *)
(***************************************************************************)
EXTENDS Workspaces, TLAPS

(* A program that lives has its task RUNNING in a run that is open and not  *)
(* taken over, unless the recovery has overtaken it; one that has not begun *)
(* has no row.                                                             *)
LiveIsOpen ==
  \A e \in Executions :
    /\ program[e].pc = "idle" => row[e] = "none"
    /\ Live(e) => row[e] # "none"
    /\ Live(e) /\ e \notin sweep.overtaken =>
         /\ row[e] = "running"
         /\ e \in InRun => run[RunOf[e]] = "active" /\ RunOf[e] \notin sweep.run

(* A planner makes its container only. *)
PlannersAreBare ==
  /\ clone \cup sandbox \cup profile \subseteq InRun
  /\ \A e \in Planners :
       program[e].pc \in {"idle", "start", "work", "stop", "finish", "done", "dead"}

(* The part of the sweep that recovers a run has read rows of that run, and *)
(* what cleanup_orphans has read is there for good: rows are never deleted. *)
ReadBefore ==
  /\ \A e \in sweep.rows : e \in InRun /\ RunOf[e] \in sweep.run
  /\ \A e \in sweep.known : row[e] # "none"
  /\ \A r \in sweep.runs : run[r] # "none"

(* What did not begin while the sweep was reading, it has seen whole, or it *)
(* began after the reading and is not known at all.                        *)
Removing == sweep.step \in RemovingSteps
Unknown(e) == Removing /\ e \notin sweep.known
RunIsSeen(e) ==
  sweep.step \in AfterActive /\ run[RunOf[e]] = "active" =>
    RunOf[e] \in sweep.active \/ (Removing /\ RunOf[e] \notin sweep.runs)
TaskIsSeen(e) ==
  sweep.step \in {"references", "bindings", "runs", "hosts", "sandboxes"} =>
    e \in sweep.tasks \/ Unknown(e)
ReferenceIsSeen(e) ==
  sweep.step \in {"bindings", "runs"} \cup RemovingSteps =>
    e \in sweep.referenced \/ Unknown(e)
PlannerIsSeen(e) ==
  sweep.step = "hosts" => e \in sweep.planners \/ Unknown(e)
LiveIsSeen ==
  /\ \A e \in InRun \ sweep.during :
       /\ RunIsSeen(e)
       /\ Live(e) /\ e \notin sweep.overtaken => TaskIsSeen(e) /\ ReferenceIsSeen(e)
  /\ \A e \in Planners \ sweep.during : Live(e) => PlannerIsSeen(e)

Inv == TypeOK /\ LiveIsOpen /\ PlannersAreBare /\ ReadBefore /\ LiveIsSeen

USE DEF InRun, Executions
-----------------------------------------------------------------------------
(* Every step keeps the types of tables, programs and the sweep. *)
LEMMA IdleTyped == IdleSweep \in Sweeps /\ At("idle") \in Programs /\ At("dead") \in Programs
                   /\ At("done") \in Programs
  BY DEF IdleSweep, Sweeps, At, Programs, AfterActive, ReadingSteps, RemovingSteps

LEMMA GoTyped ==
  ASSUME TypeOK, NEW e \in Executions, NEW pc,
         pc \in {"clone", "sandbox", "profile", "start", "work", "stop", "clean", "tree",
                 "finish"}, Go(e, pc)
  PROVE  program' \in [Executions -> Programs]
  BY DEF Go, TypeOK, Programs

LEMMA StepTyped ==
  ASSUME TypeOK, NEW s \in {"runs to recover", "resources", "settle"} \cup AfterActive, Step(s)
  PROVE  sweep' \in Sweeps
  BY DEF Step, TypeOK, Sweeps

LEMMA MeetsTyped ==
  ASSUME TypeOK, NEW es \in SUBSET Executions, Meets(es)
  PROVE  sweep' \in Sweeps
<1> DEFINE d == IF Reading THEN sweep.during \cup es ELSE sweep.during
           o == sweep.overtaken \cup {e \in es \cap InRun : RunOf[e] \in sweep.run}
<1>1. d \in SUBSET Executions /\ o \in SUBSET InRun
  BY DEF TypeOK, Sweeps
<1>2. sweep' = [sweep EXCEPT !.during = d, !.overtaken = o]
  BY DEF Meets, TypeOK, Sweeps
<1> HIDE DEF d, o
<1> QED BY <1>1, <1>2 DEF TypeOK, Sweeps

LEMMA EndedTyped == TypeOK => Ended \in Sweeps
  BY IdleTyped DEF Ended, TypeOK, Sweeps

LEMMA LaunchType ==
  ASSUME TypeOK, NEW e \in Executions, Launch(e) \/ Die(e) PROVE TypeOK'
<2>1. CASE MakeClone(e)
  <3>1. program' \in [Executions -> Programs]
    BY <2>1, GoTyped DEF MakeClone
  <3> QED BY <2>1, <3>1 DEF MakeClone, TypeOK, tables
<2>2. CASE MakeSandbox(e)
  <3>1. program' \in [Executions -> Programs]
    BY <2>2 DEF MakeSandbox, Go, TypeOK, Programs
  <3> QED BY <2>2, <3>1 DEF MakeSandbox, TypeOK, tables
<2>3. CASE MakeProfile(e)
  <3>1. program' \in [Executions -> Programs]
    BY <2>3, GoTyped DEF MakeProfile
  <3> QED BY <2>3, <3>1 DEF MakeProfile, TypeOK, tables
<2>4. CASE StartAgent(e)
  <3>1. program' \in [Executions -> Programs]
    BY <2>4 DEF StartAgent, Go, TypeOK, Programs
  <3> QED BY <2>4, <3>1 DEF StartAgent, Fault, TypeOK, tables
<2>5. CASE EndWork(e)
  <3>1. program' \in [Executions -> Programs]
    BY <2>5, GoTyped DEF EndWork
  <3> QED BY <2>5, <3>1 DEF EndWork, TypeOK, tables, resources
<2>6. CASE StopAgent(e)
  <3>1. program' \in [Executions -> Programs]
    BY <2>6 DEF StopAgent, TypeOK, Programs
  <3> QED BY <2>6, <3>1 DEF StopAgent, Removed, Fault, TypeOK, tables
<2>7. CASE CleanSandbox(e)
  <3>1. program' \in [Executions -> Programs]
    BY <2>7, GoTyped DEF CleanSandbox
  <3> QED BY <2>7, <3>1 DEF CleanSandbox, Removed, Fault, TypeOK, tables
<2>8. CASE CleanClone(e)
  <3>1. program' \in [Executions -> Programs]
    BY <2>8, GoTyped DEF CleanClone
  <3> QED BY <2>8, <3>1 DEF CleanClone, TypeOK, tables
<2>9. CASE Finish(e)
  <3>1. program' \in [Executions -> Programs]
    BY <2>9, IdleTyped DEF Finish, TypeOK
  <3> QED BY <2>9, <3>1 DEF Finish, TypeOK, resources
<2>10. CASE Die(e)
  <3>1. program' \in [Executions -> Programs]
    BY <2>10, IdleTyped DEF Die, TypeOK
  <3> QED BY <2>10, <3>1 DEF Die, Fault, TypeOK, tables, resources
<2> QED
  BY <2>1, <2>2, <2>3, <2>4, <2>5, <2>6, <2>7, <2>8, <2>9, <2>10 DEF Launch

(* The sets that the SELECTs return. *)
LEMMA ReadType ==
  ASSUME TypeOK, ReadActive \/ ReadTasks \/ ReadReferences \/ ReadBindings \/ ReadRuns
  PROVE  TypeOK'
<3>1. ReadActive => sweep' \in Sweeps
  <4> DEFINE open == {r \in Runs : run[r] = "active"}
  <4>1. open \in SUBSET Runs
    OBVIOUS
  <4>2. [sweep EXCEPT !.step = "tasks"] \in Sweeps
    BY DEF TypeOK, Sweeps, AfterActive, ReadingSteps
  <4>3. [[sweep EXCEPT !.step = "tasks"] EXCEPT !.active = open]
          \in Sweeps
    BY <4>1, <4>2 DEF Sweeps
  <4> QED BY <4>3 DEF ReadActive
<3>2. ReadTasks => sweep' \in Sweeps
  <4> DEFINE reserved == {e \in InRun : row[e] = "running" /\ RunOf[e] \in sweep.active}
  <4>1. reserved \in SUBSET Executions
    OBVIOUS
  <4>2. [sweep EXCEPT !.step = "references"] \in Sweeps
    BY DEF TypeOK, Sweeps, AfterActive, ReadingSteps
  <4>3. [[sweep EXCEPT !.step = "references"] EXCEPT !.tasks = reserved]
          \in Sweeps
    BY <4>1, <4>2 DEF Sweeps
  <4> QED BY <4>3 DEF ReadTasks
<3>3. ReadReferences => sweep' \in Sweeps
  <4> DEFINE all == {e \in InRun : row[e] # "none" /\ run[RunOf[e]] = "active"}
             stored == all \cap recorded
  <4>1. all \in SUBSET Executions /\ stored \in SUBSET Executions
    OBVIOUS
  <4>2. [sweep EXCEPT !.step = "bindings"] \in Sweeps
    BY DEF TypeOK, Sweeps, AfterActive, ReadingSteps
  <4>3. [[sweep EXCEPT !.step = "bindings"] EXCEPT !.referenced = all]
          \in Sweeps
    BY <4>1, <4>2 DEF Sweeps
  <4>4. [[[sweep EXCEPT !.step = "bindings"] EXCEPT !.referenced = all] EXCEPT !.recorded = stored]
          \in Sweeps
    BY <4>1, <4>3 DEF Sweeps
  <4> QED BY <4>4 DEF ReadReferences
<3>4. ReadBindings => sweep' \in Sweeps
  <4> DEFINE all == {e \in Executions : row[e] # "none"}
  <4>1. all \in SUBSET Executions
    OBVIOUS
  <4>2. [sweep EXCEPT !.step = "runs"] \in Sweeps
    BY DEF TypeOK, Sweeps, AfterActive, ReadingSteps
  <4>3. [[sweep EXCEPT !.step = "runs"] EXCEPT !.known = all]
          \in Sweeps
    BY <4>1, <4>2 DEF Sweeps
  <4> QED BY <4>3 DEF ReadBindings
<3>5. ReadRuns => sweep' \in Sweeps
  <4> DEFINE open == {e \in Planners : row[e] = "running"}
             all == {r \in Runs : run[r] # "none"}
  <4>1. open \in SUBSET Executions /\ all \in SUBSET Runs
    OBVIOUS
  <4>2. [sweep EXCEPT !.step = "hosts"] \in Sweeps
    BY DEF TypeOK, Sweeps, AfterActive, RemovingSteps
  <4>3. [[sweep EXCEPT !.step = "hosts"] EXCEPT !.planners = open]
          \in Sweeps
    BY <4>1, <4>2 DEF Sweeps
  <4>4. [[[sweep EXCEPT !.step = "hosts"] EXCEPT !.planners = open] EXCEPT !.runs = all]
          \in Sweeps
    BY <4>1, <4>3 DEF Sweeps
  <4> QED BY <4>4 DEF ReadRuns
<3> QED
  BY <3>1, <3>2, <3>3, <3>4, <3>5
     DEF ReadActive, ReadTasks, ReadReferences, ReadBindings, ReadRuns, TypeOK, tables, resources

LEMMA SweepType == ASSUME TypeOK, Sweep PROVE TypeOK'
<2>1. CASE StartSweep
  <3>1. sweep' \in Sweeps
    <4>1. PICK old \in SUBSET Runs :
            sweep' = [sweep EXCEPT !.step = "runs to recover", !.todo = old]
      BY <2>1 DEF StartSweep
    <4> QED BY <4>1 DEF TypeOK, Sweeps
  <3> QED BY <2>1, <3>1 DEF StartSweep, TypeOK, tables, resources
<2>2. ASSUME NEW r \in Runs, RecoverRun(r) PROVE TypeOK'
  <3> DEFINE rows == {e \in InRun : RunOf[e] = r /\ row[e] = "running"}
             met == {e \in InRun : RunOf[e] = r /\ Live(e)}
             rest == [sweep EXCEPT !.todo = @ \ {r}]
             taken == [rest EXCEPT !.step = "resources", !.run = {r}, !.rows = rows,
                                   !.overtaken = @ \cup met]
  <3>1. sweep' \in Sweeps
    <4>1. rest \in Sweeps /\ rows \in SUBSET Executions /\ met \in SUBSET InRun
      BY DEF TypeOK, Sweeps
    <4>2. sweep' \in {taken, Ended, rest}
      BY <2>2, Zenon DEF RecoverRun
    <4> HIDE DEF rows, met, rest
    <4>3. taken \in Sweeps
      BY <4>1 DEF Sweeps
    <4> QED BY <4>1, <4>2, <4>3, EndedTyped
  <3> QED BY <2>2, <3>1 DEF RecoverRun, TypeOK, tables, resources
<2>3. CASE RemoveOfRun
  <3>1. sweep' \in Sweeps
    BY <2>3, StepTyped DEF RemoveOfRun
  <3> QED BY <2>3, <3>1 DEF RemoveOfRun, Removed, Fault, TypeOK, tables
<2>4. CASE Settle
  <3>1. sweep' \in Sweeps
    BY <2>4 DEF Settle, TypeOK, Sweeps
  <3> QED BY <2>4, <3>1 DEF Settle, FailRows, TypeOK, resources
<2>9. CASE Raise
  BY <2>9, EndedTyped DEF Raise, FailRows, TypeOK, resources
<2>5. CASE RemoveHosts
  <3>1. sweep' \in Sweeps
    BY <2>5 DEF RemoveHosts, TypeOK, Sweeps, AfterActive, RemovingSteps
  <3> QED BY <2>5, <3>1 DEF RemoveHosts, Removed, Fault, TypeOK, tables
<2>6. CASE RemoveSandboxes
  <3>1. sweep' \in Sweeps
    BY <2>6 DEF RemoveSandboxes, TypeOK, Sweeps, AfterActive, RemovingSteps
  <3> QED BY <2>6, <3>1 DEF RemoveSandboxes, Removed, Fault, TypeOK, tables
<2>7. CASE RemoveProfiles
  <3>1. sweep' \in Sweeps
    BY <2>7, StepTyped DEF RemoveProfiles, AfterActive, RemovingSteps
  <3> QED BY <2>7, <3>1 DEF RemoveProfiles, TypeOK, tables
<2>8. CASE RemoveClones
  BY <2>8, EndedTyped DEF RemoveClones, TypeOK, tables
<2> QED
  BY ReadType, <2>1, <2>2, <2>3, <2>4, <2>5, <2>6, <2>7, <2>8, <2>9 DEF Sweep

LEMMA TypeStep == TypeOK /\ [Next]_vars => TypeOK'
<1> SUFFICES ASSUME TypeOK, [Next]_vars PROVE TypeOK'
  OBVIOUS
<1> USE WorkspaceAssumption
<1>1. ASSUME NEW r \in Runs, Begin(r) \/ Close(r) PROVE TypeOK'
  <2>1. CASE Begin(r)
    <3>1. sweep' \in Sweeps
      BY <2>1, MeetsTyped DEF Begin
    <3> QED
      BY <2>1, <3>1 DEF Begin, TypeOK, resources
  <2>2. CASE Close(r)
    BY <2>2 DEF Close, TypeOK, resources
  <2> QED BY <1>1, <2>1, <2>2
<1>2. ASSUME NEW e \in Executions, Reserve(e) \/ ReservePlanner(e) PROVE TypeOK'
  <2>1. sweep' \in Sweeps
    BY <1>2, MeetsTyped DEF Reserve, ReservePlanner
  <2>2. program' \in [Executions -> Programs]
    BY <1>2, GoTyped DEF Reserve, ReservePlanner
  <2> QED
    BY <1>2, <2>1, <2>2 DEF Reserve, ReservePlanner, TypeOK, resources
<1>3. ASSUME NEW e \in Executions, Launch(e) \/ Die(e) PROVE TypeOK'
  BY <1>3, LaunchType
<1>4. CASE ReconcilePlanners
  BY <1>4 DEF ReconcilePlanners, Removed, Fault, TypeOK
<1>5. CASE Sweep
  BY <1>5, SweepType
<1>6. CASE SweepDies
  BY <1>6, EndedTyped DEF SweepDies, Fault, TypeOK, tables, resources
<1>7. CASE UNCHANGED vars
  BY <1>7 DEF TypeOK, vars, tables, resources
<1> QED
  BY <1>1, <1>2, <1>3, <1>4, <1>5, <1>6, <1>7 DEF Next

-----------------------------------------------------------------------------
(* The invariant behind the property.  The steps of a program and of the   *)
(* tables come first, then those of the sweep.                             *)
LEMMA Split == /\ InRun \cap Planners = {}
               /\ \A e \in Executions : e \in InRun \/ e \in Planners
               /\ \A e \in InRun : RunOf[e] \in Runs
  BY WorkspaceAssumption

LEMMA InitHolds == Init => Inv
<1> SUFFICES ASSUME Init PROVE Inv
  OBVIOUS
<1>1. TypeOK
  BY IdleTyped, WorkspaceAssumption DEF Init, TypeOK
<1>2. LiveIsOpen /\ PlannersAreBare
  BY DEF Init, LiveIsOpen, PlannersAreBare, Live, At
<1>3. ReadBefore /\ LiveIsSeen
  BY DEF Init, IdleSweep, ReadBefore, LiveIsSeen, RunIsSeen, TaskIsSeen, ReferenceIsSeen,
         PlannerIsSeen, AfterActive, ReadingSteps, RemovingSteps, Live, At
<1> QED BY <1>1, <1>2, <1>3 DEF Inv

(* What LiveIsSeen speaks of besides the sweep. *)
Quiet == /\ UNCHANGED sweep
         /\ \A r \in Runs : run'[r] = "active" => run[r] = "active"
         /\ \A e \in Executions : Live(e)' => Live(e)
LEMMA QuietSteps == LiveIsSeen /\ Quiet => LiveIsSeen'
  BY Split DEF Quiet, LiveIsSeen, RunIsSeen, TaskIsSeen, ReferenceIsSeen, PlannerIsSeen,
               Unknown, Removing

LEMMA MeetsOnly ==
  ASSUME sweep \in Sweeps, NEW es, Meets(es)
  PROVE  /\ sweep'.step = sweep.step /\ sweep'.active = sweep.active
         /\ sweep'.runs = sweep.runs /\ sweep'.tasks = sweep.tasks
         /\ sweep'.referenced = sweep.referenced /\ sweep'.known = sweep.known
         /\ sweep'.planners = sweep.planners /\ sweep'.run = sweep.run
         /\ sweep'.rows = sweep.rows
         /\ sweep'.during = IF Reading THEN sweep.during \cup es ELSE sweep.during
         /\ sweep'.overtaken =
              sweep.overtaken \cup {f \in es \cap InRun : RunOf[f] \in sweep.run}
<1> DEFINE d == IF Reading THEN sweep.during \cup es ELSE sweep.during
           o == sweep.overtaken \cup {f \in es \cap InRun : RunOf[f] \in sweep.run}
<1>1. sweep' = [sweep EXCEPT !.during = d, !.overtaken = o]
  BY DEF Meets, Sweeps
<1> HIDE DEF d, o
<1>2. sweep'.during = d /\ sweep'.overtaken = o
  BY <1>1 DEF Sweeps
<1> QED BY <1>1, <1>2 DEF d, o, Sweeps

LEMMA BeginHolds == ASSUME Inv, TypeOK', NEW r \in Runs, Begin(r) PROVE Inv'
<1> USE Split DEF Begin, tables, resources
<1> DEFINE es == {e \in InRun : RunOf[e] = r}
<1>0. /\ sweep'.step = sweep.step /\ sweep'.active = sweep.active /\ sweep'.runs = sweep.runs
      /\ sweep'.tasks = sweep.tasks /\ sweep'.referenced = sweep.referenced
      /\ sweep'.known = sweep.known /\ sweep'.planners = sweep.planners
      /\ sweep'.run = sweep.run /\ sweep'.rows = sweep.rows
      /\ sweep'.during = IF Reading THEN sweep.during \cup es ELSE sweep.during
      /\ sweep.overtaken \subseteq sweep'.overtaken
  BY MeetsOnly DEF Inv, TypeOK
<1>1. LiveIsOpen' /\ PlannersAreBare' /\ ReadBefore'
  BY <1>0 DEF Inv, TypeOK, LiveIsOpen, PlannersAreBare, ReadBefore, Live, Sweeps
<1>2. LiveIsSeen'
  <2>1. /\ sweep'.step = sweep.step /\ sweep'.active = sweep.active /\ sweep'.runs = sweep.runs
        /\ sweep'.tasks = sweep.tasks /\ sweep'.referenced = sweep.referenced
        /\ sweep'.known = sweep.known /\ sweep'.planners = sweep.planners
        /\ sweep'.during = IF Reading THEN sweep.during \cup es ELSE sweep.during
        /\ sweep.overtaken \subseteq sweep'.overtaken
    BY <1>0
  <2>2. \A e \in Executions : Live(e)' => Live(e)
    BY DEF Live
  <2>3. ASSUME NEW e \in InRun \ sweep'.during PROVE RunIsSeen(e)'
    <3>1. CASE RunOf[e] = r
      <4>1. ~Reading /\ r \notin sweep.runs
        BY <2>1, <2>3, <3>1 DEF Inv, ReadBefore
      <4> QED
        BY <2>1, <3>1, <4>1 DEF RunIsSeen, Removing, Reading, AfterActive
    <3>2. CASE RunOf[e] # r
      <4>1. run'[RunOf[e]] = run[RunOf[e]] /\ e \notin sweep.during
        BY <2>1, <2>3, <3>2 DEF Inv, TypeOK
      <4> QED
        BY <2>1, <4>1 DEF Inv, LiveIsSeen, RunIsSeen, Removing
    <3> QED BY <3>1, <3>2
  <2> QED
    BY <2>1, <2>2, <2>3 DEF Inv, LiveIsSeen, TaskIsSeen, ReferenceIsSeen, PlannerIsSeen,
                            Unknown, Removing
<1> QED BY <1>1, <1>2 DEF Inv

LEMMA ReserveHolds ==
  ASSUME Inv, TypeOK', NEW e \in Executions, Reserve(e) \/ ReservePlanner(e) PROVE Inv'
<1> USE Split DEF Reserve, ReservePlanner, tables, resources
<1>0. /\ \A f \in Executions \ {e} : program'[f] = program[f] /\ row'[f] = row[f]
      /\ program[e].pc = "idle" /\ row[e] = "none"
      /\ program'[e].pc \in {"clone", "start"} /\ row'[e] = "running"
      /\ program'[e].pc = "clone" => e \in InRun
  BY DEF Inv, TypeOK, LiveIsOpen, Go, Programs
<1>1. /\ sweep'.step = sweep.step /\ sweep'.active = sweep.active /\ sweep'.runs = sweep.runs
      /\ sweep'.tasks = sweep.tasks /\ sweep'.referenced = sweep.referenced
      /\ sweep'.known = sweep.known /\ sweep'.planners = sweep.planners
      /\ sweep'.run = sweep.run /\ sweep'.rows = sweep.rows
      /\ sweep'.during = IF Reading THEN sweep.during \cup {e} ELSE sweep.during
      /\ sweep'.overtaken =
           sweep.overtaken \cup {f \in {e} \cap InRun : RunOf[f] \in sweep.run}
  BY MeetsOnly DEF Inv, TypeOK
<1>2. LiveIsOpen'
  BY <1>0, <1>1 DEF Inv, LiveIsOpen, Live
<1>3. PlannersAreBare'
  BY <1>0 DEF Inv, PlannersAreBare
<1>4. ReadBefore'
  <2>1. sweep.known \subseteq Executions
    BY DEF Inv, TypeOK, Sweeps
  <2> QED BY <1>0, <1>1, <2>1 DEF Inv, ReadBefore
<1>5. LiveIsSeen'
  <2>1. e \notin sweep.known
    BY <1>0 DEF Inv, ReadBefore
  <2>2. \A f \in InRun \ sweep'.during : RunIsSeen(f)'
    BY <1>1 DEF Inv, LiveIsSeen, RunIsSeen, Removing
  <2>3. ASSUME NEW f \in Executions \ sweep'.during, f # e, Live(f)'
        PROVE  /\ f \in InRun /\ f \notin sweep'.overtaken =>
                    TaskIsSeen(f)' /\ ReferenceIsSeen(f)'
               /\ f \in Planners => PlannerIsSeen(f)'
    BY <1>0, <1>1, <2>3 DEF Inv, LiveIsSeen, Live, TaskIsSeen, ReferenceIsSeen, PlannerIsSeen,
                            Unknown, Removing
  <2>4. e \notin sweep'.during => /\ TaskIsSeen(e)' /\ ReferenceIsSeen(e)'
                                  /\ PlannerIsSeen(e)'
    BY <1>1, <2>1 DEF TaskIsSeen, ReferenceIsSeen, PlannerIsSeen, Unknown, Removing, Reading,
                      ReadingSteps, RemovingSteps
  <2> QED
    BY <2>2, <2>3, <2>4 DEF LiveIsSeen
<1> QED BY <1>2, <1>3, <1>4, <1>5 DEF Inv

(* A step of a program changes neither the tables that count nor the sweep; *)
(* it ends, or goes on, or dies.                                           *)
LEMMA LaunchStep ==
  ASSUME Inv, NEW e \in Executions, Launch(e) \/ Die(e)
  PROVE  /\ UNCHANGED <<run, sweep>>
         /\ \A f \in Executions \ {e} : program'[f] = program[f] /\ row'[f] = row[f]
         /\ program'[e].pc # "idle"
         /\ Live(e) /\ row'[e] # "none"
         /\ Live(e)' => row'[e] = row[e]
         /\ program'[e] # program[e]
<1> USE DEF Go, Live, tables, resources, Programs
<1>1. TypeOK /\ LiveIsOpen
  BY DEF Inv
<1>2. CASE MakeClone(e) \/ MakeSandbox(e) \/ MakeProfile(e)
  BY <1>1, <1>2 DEF MakeClone, MakeSandbox, MakeProfile, TypeOK, LiveIsOpen
<1>3. CASE StartAgent(e) \/ EndWork(e) \/ StopAgent(e)
  BY <1>1, <1>3 DEF StartAgent, EndWork, StopAgent, TypeOK, LiveIsOpen
<1>4. CASE CleanSandbox(e) \/ CleanClone(e)
  BY <1>1, <1>4 DEF CleanSandbox, CleanClone, TypeOK, LiveIsOpen
<1>5. CASE Finish(e) \/ Die(e)
  BY <1>1, <1>5 DEF Finish, Die, At, TypeOK, LiveIsOpen
<1> QED BY <1>2, <1>3, <1>4, <1>5 DEF Launch

LEMMA LaunchKeepsBare ==
  ASSUME Inv, NEW e \in Executions, Launch(e) \/ Die(e) PROVE PlannersAreBare'
<1> USE Split DEF Go, Live, tables, resources, Programs
<1>1. TypeOK /\ PlannersAreBare
  BY DEF Inv
<1>2. CASE MakeClone(e) \/ MakeSandbox(e) \/ MakeProfile(e)
  BY <1>1, <1>2 DEF MakeClone, MakeSandbox, MakeProfile, TypeOK, PlannersAreBare
<1>3. CASE StartAgent(e) \/ EndWork(e) \/ StopAgent(e)
  BY <1>1, <1>3 DEF StartAgent, EndWork, StopAgent, Removed, TypeOK, PlannersAreBare
<1>4. CASE CleanSandbox(e) \/ CleanClone(e)
  BY <1>1, <1>4 DEF CleanSandbox, CleanClone, Removed, TypeOK, PlannersAreBare
<1>5. CASE Finish(e) \/ Die(e)
  BY <1>1, <1>5 DEF Finish, Die, At, TypeOK, PlannersAreBare
<1> QED BY <1>2, <1>3, <1>4, <1>5 DEF Launch

LEMMA LaunchHolds ==
  ASSUME Inv, TypeOK', NEW e \in Executions, Launch(e) \/ Die(e) PROVE Inv'
<1>1. LiveIsOpen'
  BY LaunchStep DEF Inv, LiveIsOpen, Live
<1>2. PlannersAreBare'
  BY LaunchKeepsBare
<1>3. ReadBefore'
  BY LaunchStep DEF Inv, TypeOK, Sweeps, ReadBefore
<1>4. LiveIsSeen'
  BY LaunchStep, QuietSteps DEF Quiet, Live, Inv
<1> QED BY <1>1, <1>2, <1>3, <1>4 DEF Inv

LEMMA TablesHold ==
  ASSUME Inv, TypeOK', ReconcilePlanners \/ \E r \in Runs : Close(r) PROVE Inv'
<1> USE Split
<1>1. LiveIsOpen'
  BY DEF Inv, TypeOK, LiveIsOpen, Live, ReconcilePlanners, Close, Unattended, resources
<1>2. PlannersAreBare'
  BY DEF Inv, PlannersAreBare, ReconcilePlanners, Close, resources
<1>3. ReadBefore'
  <2>1. sweep' = sweep /\ sweep \in Sweeps
    BY DEF Inv, TypeOK, ReconcilePlanners, Close
  <2>2. \A e \in Executions : row[e] # "none" => row'[e] # "none"
    BY DEF ReconcilePlanners, Close
  <2>3. \A r \in Runs : run[r] # "none" => run'[r] # "none"
    BY DEF Inv, TypeOK, ReconcilePlanners, Close
  <2> QED BY <2>1, <2>2, <2>3 DEF Inv, ReadBefore, Sweeps
<1>4. Quiet
  BY DEF Inv, TypeOK, Quiet, Live, ReconcilePlanners, Close
<1> QED BY <1>1, <1>2, <1>3, <1>4, QuietSteps DEF Inv

(* A sweep that ends forgets what it has read. *)
LEMMA EndedIs ==
  /\ Ended.step = "idle" /\ Ended.run = {} /\ Ended.rows = {} /\ Ended.known = {}
  /\ Ended.runs = {} /\ Ended.overtaken = sweep.overtaken
  BY DEF Ended, IdleSweep

(* The sweep changes no program, so that Live is what it was. *)
SameTables == UNCHANGED <<run, row, program>>
SameSight == /\ sweep'.active = sweep.active /\ sweep'.runs = sweep.runs
             /\ sweep'.known = sweep.known /\ sweep'.referenced = sweep.referenced
             /\ sweep'.during = sweep.during /\ sweep'.overtaken = sweep.overtaken

LEMMA RecoveryHolds ==
  ASSUME Inv, TypeOK',
         StartSweep \/ RemoveOfRun \/ Settle \/ Raise \/ \E r \in Runs : RecoverRun(r)
  PROVE  Inv'
<1> USE Split DEF tables, resources
<1>1. TypeOK /\ sweep \in Sweeps
  BY DEF Inv, TypeOK
<1>2. LiveIsSeen'
  <2>1. sweep'.step \in {"idle", "runs to recover", "resources", "settle"}
    <3>1. CASE StartSweep \/ RemoveOfRun \/ Settle
      BY <1>1, <3>1 DEF StartSweep, RemoveOfRun, Settle, Step, Sweeps
    <3>2. CASE Raise
      BY <3>2, EndedIs DEF Raise
    <3>3. ASSUME NEW r \in Runs, RecoverRun(r)
          PROVE  sweep'.step \in {"idle", "runs to recover", "resources", "settle"}
      BY <1>1, <3>3, EndedIs DEF RecoverRun, Sweeps
    <3> QED BY <3>1, <3>2, <3>3
  <2> QED
    BY <2>1 DEF LiveIsSeen, RunIsSeen, TaskIsSeen, ReferenceIsSeen, PlannerIsSeen,
                AfterActive, ReadingSteps, RemovingSteps
<1>3. CASE StartSweep \/ RemoveOfRun
  <2>1. sweep'.run = sweep.run /\ sweep'.rows = sweep.rows /\ SameTables
        /\ sweep'.known = sweep.known /\ sweep'.runs = sweep.runs
        /\ sweep'.overtaken = sweep.overtaken
    BY <1>1, <1>3 DEF StartSweep, RemoveOfRun, Step, Sweeps, SameTables
  <2>2. LiveIsOpen' /\ ReadBefore'
    BY <2>1 DEF Inv, LiveIsOpen, ReadBefore, SameTables, Live
  <2>3. PlannersAreBare'
    BY <1>3, <2>1 DEF Inv, PlannersAreBare, SameTables, StartSweep, RemoveOfRun
  <2> QED BY <1>2, <2>2, <2>3 DEF Inv
<1>4. CASE Settle \/ Raise
  <2>1. /\ sweep'.run = {} /\ sweep'.rows = {} /\ sweep'.overtaken = sweep.overtaken
        /\ sweep'.known \subseteq sweep.known /\ sweep'.runs \subseteq sweep.runs
    BY <1>1, <1>4, EndedIs DEF Settle, Raise, Sweeps
  <2>2. /\ \A e \in Executions : program'[e] = program[e]
        /\ \A e \in Executions : row[e] = "none" <=> row'[e] = "none"
        /\ \A r \in Runs : run[r] # "none" => run'[r] # "none"
    BY <1>1, <1>4 DEF Inv, TypeOK, Settle, Raise, FailRows
  <2>3. ASSUME NEW e \in Executions, Live(e), e \notin sweep.overtaken
        PROVE  row'[e] = row[e] /\ (e \in InRun => run'[RunOf[e]] = run[RunOf[e]])
    BY <1>1, <1>4, <2>3 DEF Inv, TypeOK, LiveIsOpen, Settle, Raise, FailRows
  <2>4. LiveIsOpen'
    BY <2>1, <2>2, <2>3 DEF Inv, LiveIsOpen, Live
  <2>5. ReadBefore'
    <3>1. sweep.known \subseteq Executions /\ sweep.runs \subseteq Runs
      BY <1>1 DEF Sweeps
    <3> QED BY <2>1, <2>2, <3>1 DEF Inv, ReadBefore
  <2>6. PlannersAreBare'
    BY <1>4, <2>2 DEF Inv, PlannersAreBare, Settle, Raise
  <2> QED BY <1>2, <2>4, <2>5, <2>6 DEF Inv
<1>5. ASSUME NEW r \in Runs, RecoverRun(r) PROVE Inv'
  <2> DEFINE rows == {e \in InRun : RunOf[e] = r /\ row[e] = "running"}
             met == {e \in InRun : RunOf[e] = r /\ Live(e)}
             rest == [sweep EXCEPT !.todo = @ \ {r}]
             taken == [rest EXCEPT !.step = "resources", !.run = {r}, !.rows = rows,
                                   !.overtaken = @ \cup met]
  <2>1. rest.run = sweep.run /\ rest.rows = sweep.rows /\ rest \in Sweeps
        /\ rest.known = sweep.known /\ rest.runs = sweep.runs
        /\ rest.overtaken = sweep.overtaken
    BY <1>1 DEF Sweeps
  <2>2. SameTables /\ UNCHANGED resources
    BY <1>5 DEF RecoverRun, SameTables
  <2>3. sweep' \in {taken, Ended, rest}
    BY <1>5, Zenon DEF RecoverRun
  <2> HIDE DEF rest, rows, met
  <2>4. /\ sweep'.known \subseteq sweep.known /\ sweep'.runs \subseteq sweep.runs
        /\ \/ /\ sweep'.run = {r} /\ sweep'.rows = rows
              /\ sweep'.overtaken = sweep.overtaken \cup met
           \/ /\ sweep'.run \subseteq sweep.run
              /\ sweep'.rows # {} => sweep'.rows = sweep.rows /\ sweep'.run = sweep.run
              /\ sweep'.overtaken = sweep.overtaken
    <3>1. CASE sweep' = taken
      BY <2>1, <3>1 DEF Sweeps
    <3>2. CASE sweep' = Ended
      <4>1. /\ sweep'.run = {} /\ sweep'.rows = {} /\ sweep'.known = {} /\ sweep'.runs = {}
            /\ sweep'.overtaken = sweep.overtaken
        BY <3>2, EndedIs, Zenon
      <4> QED BY <4>1
    <3>3. CASE sweep' = rest
      BY <2>1, <3>3
    <3> QED BY <2>3, <3>1, <3>2, <3>3
  <2>5. LiveIsOpen'
    BY <2>2, <2>4 DEF Inv, LiveIsOpen, Live, SameTables, met
  <2>6. ReadBefore'
    BY <2>2, <2>4 DEF Inv, ReadBefore, SameTables, rows
  <2>7. PlannersAreBare'
    BY <2>2 DEF Inv, PlannersAreBare, SameTables
  <2> QED BY <1>2, <2>5, <2>6, <2>7 DEF Inv
<1> QED BY <1>3, <1>4, <1>5

(* Each SELECT completes what the sweep has seen of the live executions. *)
LEMMA ReadHolds ==
  ASSUME Inv, TypeOK', ReadActive \/ ReadTasks \/ ReadReferences \/ ReadBindings \/ ReadRuns
  PROVE  Inv'
<1> USE Split DEF tables, resources
<1>1. TypeOK /\ sweep \in Sweeps
  BY DEF Inv, TypeOK
<1>2. SameTables /\ UNCHANGED resources
  BY DEF ReadActive, ReadTasks, ReadReferences, ReadBindings, ReadRuns, SameTables
<1>3. PlannersAreBare'
  BY <1>2 DEF Inv, PlannersAreBare, SameTables
<1>4. /\ sweep'.run = sweep.run /\ sweep'.rows = sweep.rows /\ sweep'.during = sweep.during
      /\ sweep'.overtaken = sweep.overtaken
      /\ ReadBindings \/ sweep'.known = sweep.known
      /\ ReadRuns \/ sweep'.runs = sweep.runs
      /\ ReadActive \/ sweep'.active = sweep.active
      /\ ReadTasks \/ sweep'.tasks = sweep.tasks
      /\ ReadReferences \/ sweep'.referenced = sweep.referenced
  <2>1. CASE ReadActive
    BY <1>1, <2>1 DEF ReadActive, Sweeps
  <2>2. CASE ReadTasks
    BY <1>1, <2>2 DEF ReadTasks, Sweeps
  <2>3. CASE ReadReferences
    BY <1>1, <2>3 DEF ReadReferences, Sweeps
  <2>4. CASE ReadBindings
    BY <1>1, <2>4 DEF ReadBindings, Sweeps
  <2>5. CASE ReadRuns
    BY <1>1, <2>5 DEF ReadRuns, Sweeps
  <2> QED BY <2>1, <2>2, <2>3, <2>4, <2>5
<1>5. /\ ReadActive => sweep'.step = "tasks" /\ sweep'.active = {r \in Runs : run[r] = "active"}
      /\ ReadTasks => sweep.step = "tasks" /\ sweep'.step = "references" /\ sweep'.tasks =
           {e \in InRun : row[e] = "running" /\ RunOf[e] \in sweep.active}
  BY <1>1 DEF ReadActive, ReadTasks, Sweeps
<1>6. /\ ReadReferences => sweep.step = "references" /\ sweep'.step = "bindings"
           /\ sweep'.referenced = {e \in InRun : row[e] # "none" /\ run[RunOf[e]] = "active"}
      /\ ReadBindings => sweep.step = "bindings" /\ sweep'.step = "runs"
           /\ sweep'.known = {e \in Executions : row[e] # "none"}
      /\ ReadRuns => sweep.step = "runs" /\ sweep'.step = "hosts"
           /\ sweep'.planners = {e \in Planners : row[e] = "running"}
           /\ sweep'.runs = {r \in Runs : run[r] # "none"}
  BY <1>1 DEF ReadReferences, ReadBindings, ReadRuns, Sweeps
<1>7. LiveIsOpen'
  BY <1>2, <1>4 DEF Inv, LiveIsOpen, SameTables, Live
<1>8. ReadBefore'
  BY <1>2, <1>4, <1>6 DEF Inv, ReadBefore, SameTables
<1>9. ASSUME NEW e \in InRun \ sweep'.during PROVE RunIsSeen(e)'
  BY <1>2, <1>4, <1>5, <1>6
     DEF Inv, LiveIsSeen, RunIsSeen, SameTables, Removing, AfterActive, ReadingSteps,
         RemovingSteps
<1>10. ASSUME NEW e \in InRun \ sweep'.during, Live(e)', e \notin sweep'.overtaken
       PROVE  TaskIsSeen(e)'
  <2>1. Live(e) /\ row[e] = "running" /\ run[RunOf[e]] = "active"
        /\ RunIsSeen(e) /\ TaskIsSeen(e)
    BY <1>2, <1>4, <1>10 DEF Inv, LiveIsSeen, LiveIsOpen, SameTables, Live
  <2> QED
    BY <1>4, <1>5, <1>6, <2>1
       DEF RunIsSeen, TaskIsSeen, Unknown, Removing, AfterActive, ReadingSteps, RemovingSteps
<1>11. ASSUME NEW e \in InRun \ sweep'.during, Live(e)', e \notin sweep'.overtaken
       PROVE  ReferenceIsSeen(e)'
  <2>1. row[e] = "running" /\ run[RunOf[e]] = "active" /\ ReferenceIsSeen(e)
    BY <1>2, <1>4, <1>11 DEF Inv, LiveIsSeen, LiveIsOpen, SameTables, Live
  <2> QED
    BY <1>4, <1>5, <1>6, <2>1 DEF ReferenceIsSeen, Unknown, Removing, RemovingSteps
<1>12. ASSUME NEW e \in Planners \ sweep'.during, Live(e)' PROVE PlannerIsSeen(e)'
  <2>1. row[e] = "running"
    BY <1>1, <1>2, <1>12 DEF Inv, LiveIsOpen, SameTables, Live, Sweeps
  <2> QED
    BY <1>5, <1>6, <2>1 DEF PlannerIsSeen
<1> QED BY <1>3, <1>7, <1>8, <1>9, <1>10, <1>11, <1>12 DEF Inv, LiveIsSeen

LEMMA RemoveHolds ==
  ASSUME Inv, TypeOK',
         RemoveHosts \/ RemoveSandboxes \/ RemoveProfiles \/ RemoveClones \/ SweepDies
  PROVE  Inv'
<1> USE Split DEF tables, resources
<1>1. TypeOK /\ sweep \in Sweeps
  BY DEF Inv, TypeOK
<1>2. SameTables /\ clone' \subseteq clone /\ sandbox' \subseteq sandbox
      /\ profile' \subseteq profile
  BY DEF RemoveHosts, RemoveSandboxes, RemoveProfiles, RemoveClones, SweepDies, Removed,
         SameTables
<1>3. PlannersAreBare'
  BY <1>2 DEF Inv, PlannersAreBare, SameTables
<1>4. CASE RemoveClones \/ SweepDies
  <2>1. sweep' = Ended
    BY <1>4 DEF RemoveClones, SweepDies
  <2>2. LiveIsOpen' /\ ReadBefore' /\ LiveIsSeen'
    BY <1>2, <2>1, EndedIs
       DEF Inv, LiveIsOpen, ReadBefore, LiveIsSeen, RunIsSeen, TaskIsSeen,
           ReferenceIsSeen, PlannerIsSeen, SameTables, Live, AfterActive,
           ReadingSteps, RemovingSteps
  <2> QED BY <1>3, <2>2 DEF Inv
<1>5. CASE RemoveHosts \/ RemoveSandboxes \/ RemoveProfiles
  <2>1. /\ sweep'.run = sweep.run /\ sweep'.rows = sweep.rows /\ SameSight
        /\ sweep.step \in {"hosts", "sandboxes", "profiles"}
        /\ sweep'.step \in {"sandboxes", "profiles", "clones"}
        /\ sweep'.step = "sandboxes" => sweep'.tasks = sweep.tasks /\ sweep.step = "hosts"
    BY <1>1, <1>5 DEF RemoveHosts, RemoveSandboxes, RemoveProfiles, Step, Sweeps, SameSight
  <2>2. LiveIsOpen' /\ ReadBefore'
    BY <1>2, <2>1 DEF Inv, LiveIsOpen, ReadBefore, SameTables, SameSight, Live
  <2>3. LiveIsSeen'
    BY <1>2, <2>1 DEF Inv, LiveIsSeen, RunIsSeen, TaskIsSeen, ReferenceIsSeen, PlannerIsSeen,
         Unknown, Removing, SameTables, SameSight, Live, AfterActive, ReadingSteps,
         RemovingSteps
  <2> QED BY <1>3, <2>2, <2>3 DEF Inv
<1> QED BY <1>4, <1>5

LEMMA InvStep == Inv /\ [Next]_vars => Inv'
<1> SUFFICES ASSUME Inv, [Next]_vars PROVE Inv'
  OBVIOUS
<1>1. TypeOK'
  BY TypeStep DEF Inv
<1>2. CASE UNCHANGED vars
  BY <1>2 DEF Inv, TypeOK, LiveIsOpen, PlannersAreBare, ReadBefore, LiveIsSeen, RunIsSeen,
       TaskIsSeen, ReferenceIsSeen, PlannerIsSeen, Unknown, Removing, Live, vars, tables,
       resources
<1>3. CASE Sweep \/ SweepDies
  BY <1>1, <1>3, RecoveryHolds, ReadHolds, RemoveHolds DEF Sweep
<1>4. CASE ~(Sweep \/ SweepDies \/ UNCHANGED vars)
  BY <1>1, <1>4, BeginHolds, ReserveHolds, LaunchHolds, TablesHold DEF Next
<1> QED BY <1>2, <1>3, <1>4

(* The types of the tables, the programs and what the sweep has read.       *)
THEOREM TypeCorrect == Spec => []TypeOK
<1>1. Init => TypeOK
  BY InitHolds DEF Inv
<1> QED BY <1>1, TypeStep, PTL DEF Spec

-----------------------------------------------------------------------------
Kept(e) == /\ (e \in clone => e \in clone') /\ (e \in sandbox => e \in sandbox')
           /\ (e \in host => e \in host') /\ (e \in profile => e \in profile')

(* Another program removes what is its own. *)
LEMMA LaunchSpares ==
  ASSUME NEW e \in Executions, NEW f \in Executions, e # f, Launch(f) \/ Die(f)
  PROVE  Kept(e)
<1> USE DEF Kept, tables, resources
<1>1. CASE MakeClone(f) \/ MakeSandbox(f) \/ MakeProfile(f) \/ StartAgent(f) \/ EndWork(f)
  BY <1>1 DEF MakeClone, MakeSandbox, MakeProfile, StartAgent, EndWork
<1>2. CASE StopAgent(f) \/ CleanSandbox(f) \/ CleanClone(f)
  BY <1>2 DEF StopAgent, CleanSandbox, CleanClone, Removed, OwnSandbox, NewSandbox
<1>3. CASE Finish(f) \/ Die(f)
  BY <1>3 DEF Finish, Die
<1> QED BY <1>1, <1>2, <1>3 DEF Launch

(* The sweep removes what it knows and has seen nobody use. *)
LEMMA SweepSpares ==
  ASSUME Inv, NEW e \in Executions, Live(e), e \notin sweep.during \cup sweep.overtaken,
         Sweep \/ SweepDies
  PROVE  Kept(e)
<1> USE Split DEF Kept, tables, resources
<1>0. /\ clone \cup sandbox \cup profile \subseteq InRun
      /\ e \in InRun => /\ run[RunOf[e]] = "active" /\ RunOf[e] \notin sweep.run
                        /\ RunIsSeen(e) /\ TaskIsSeen(e) /\ ReferenceIsSeen(e)
      /\ e \in Planners => PlannerIsSeen(e)
      /\ e \notin sweep.rows
  BY DEF Inv, PlannersAreBare, LiveIsOpen, LiveIsSeen, ReadBefore
<1>1. CASE RemoveOfRun
  BY <1>0, <1>1 DEF RemoveOfRun, Removed, TreesOf
<1>2. CASE RemoveHosts
  BY <1>0, <1>2 DEF RemoveHosts, Removed, Owned, ReferenceIsSeen, PlannerIsSeen, Unknown,
                    RemovingSteps
<1>3. CASE RemoveSandboxes
  BY <1>0, <1>3 DEF RemoveSandboxes, Removed, Owned, TaskIsSeen, Unknown
<1>4. CASE RemoveProfiles
  BY <1>0, <1>4 DEF RemoveProfiles, ReferenceIsSeen, Unknown, RemovingSteps
<1>5. CASE RemoveClones
  BY <1>0, <1>5 DEF RemoveClones, TreesOf, RunIsSeen, AfterActive, RemovingSteps
<1>6. CASE \/ StartSweep \/ Settle \/ Raise \/ \E r \in Runs : RecoverRun(r)
           \/ ReadActive \/ ReadTasks \/ ReadReferences \/ ReadBindings \/ ReadRuns
           \/ SweepDies
  BY <1>6 DEF StartSweep, Settle, Raise, RecoverRun, ReadActive, ReadTasks, ReadReferences,
              ReadBindings, ReadRuns, SweepDies
<1> QED BY <1>1, <1>2, <1>3, <1>4, <1>5, <1>6 DEF Sweep

LEMMA StepSpares ==
  ASSUME Inv, Next, NEW e \in Executions, Live(e), program'[e] = program[e],
         e \notin sweep.during \cup sweep.overtaken
  PROVE  Kept(e)
<1>1. CASE Sweep \/ SweepDies
  BY <1>1, SweepSpares
<1>2. ASSUME NEW f \in Executions, Launch(f) \/ Die(f) PROVE Kept(e)
  <2>1. e # f
    BY <1>2, LaunchStep
  <2> QED BY <1>2, <2>1, LaunchSpares
<1>3. CASE ReconcilePlanners
  BY <1>3 DEF ReconcilePlanners, Removed, Kept
<1>4. ASSUME NEW r \in Runs, Begin(r) \/ Close(r) PROVE Kept(e)
  BY <1>4 DEF Begin, Close, Kept, resources
<1>5. ASSUME NEW f \in Executions, Reserve(f) \/ ReservePlanner(f) PROVE Kept(e)
  BY <1>5 DEF Reserve, ReservePlanner, Kept, resources
<1> QED BY <1>1, <1>2, <1>3, <1>4, <1>5 DEF Next

(* Wherever the sweep and the programs are, nothing that a live program has *)
(* made is removed by another one, unless it began while the sweep was     *)
(* reading, or the recovery took its run over while it was being launched  *)
(* (cleanup_orphans, cleanup_run_resources).                               *)
THEOREM LiveIsSpared == Spec => SparedUnlessOvertaken
<1>1. Inv /\ Next =>
        \A e \in Executions :
          Live(e) /\ program'[e] = program[e] /\ e \notin sweep.during \cup sweep.overtaken
            => Kept(e)
  BY StepSpares
<1>2. Inv /\ UNCHANGED vars => \A e \in Executions : Kept(e)
  BY DEF Kept, vars, resources
<1>3. Inv /\ [Next]_vars =>
        [\A e \in Executions :
           Live(e) /\ program'[e] = program[e] /\ e \notin sweep.during \cup sweep.overtaken
            => Kept(e)]_vars
  BY <1>1, <1>2
<1> QED
  BY InitHolds, InvStep, <1>3, PTL DEF Spec, SparedUnlessOvertaken, Kept
=============================================================================
