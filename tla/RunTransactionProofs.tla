------------------------ MODULE RunTransactionProofs ------------------------
(***************************************************************************)
(* Proofs about RunTransaction, for every number of projects, runs, plans, *)
(* outside commits and process deaths.  Types come first; every later      *)
(* invariant is proved relative to them.                                   *)
(***************************************************************************)
EXTENDS RunTransaction, TLAPS

-----------------------------------------------------------------------------
(* Types. *)

RecoveryRecords ==
  [run : Runs \cup {NoRun}, step : RecoverySteps, decision : Decisions,
   seen : Statuses, bare : BOOLEAN, sweep : BOOLEAN]

(* An assessment builds a well-typed recovery record.                      *)
LEMMA AssessType ==
  ASSUME TypeOK, NEW r \in Runs, NEW b \in BOOLEAN, Assess(r, b)
  PROVE  rec' \in RecoveryRecords
<1>1. Assessment(r) \in Decisions
  BY DEF Assessment, Decisions
<1>2. status[r] \in Statuses
  BY DEF TypeOK
<1> QED
  BY <1>1, <1>2 DEF Assess, RecoveryRecords, RecoverySteps, Decisions

(* The ways a recovery goes on or ends keep its record and the sweep typed. *)
LEMMA RecoveryMoves ==
  ASSUME TypeOK, rec.run \in Runs,
         \/ RecDone \/ RecAbort
         \/ \E step \in RecoverySteps : RecGoto(step) /\ UNCHANGED swept
  PROVE  rec' \in RecoveryRecords /\ swept' \subseteq Runs
<1> USE DEF TypeOK
<1>1. NoRecovery \in RecoveryRecords
  BY DEF NoRecovery, RecoveryRecords, RecoverySteps, Decisions, Statuses
<1>2. CASE RecDone
  BY <1>1, <1>2 DEF RecDone
<1>3. CASE RecAbort
  BY <1>1, <1>3 DEF RecAbort
<1>4. CASE \E step \in RecoverySteps : RecGoto(step) /\ UNCHANGED swept
  BY <1>4 DEF RecGoto, RecoveryRecords
<1> QED
  BY <1>2, <1>3, <1>4

(* A fast-forward keeps the branches sets of commits.                       *)
LEMMA FastForwardType ==
  ASSUME TypeOK, NEW r \in Runs, FastForward(r)
  PROVE  main' \in [Projects -> SUBSET Commits]
<1>1. main[ProjectOf[r]] \cup {r} \in SUBSET Commits
  BY ConstantsAssumption DEF TypeOK, Commits
<1>2. main \in [Projects -> SUBSET Commits]
  BY DEF TypeOK
<1> QED
  BY <1>1, <1>2 DEF FastForward

(* What the statements on single columns do to their types.                 *)
LEMMA ColumnTypes ==
  ASSUME TypeOK, NEW r \in Runs
  PROVE  /\ \A s \in Statuses : SetStatus(r, s) => status' \in [Runs -> Statuses]
         /\ \A d \in Decisions :
              SetDecision(r, d) => decision' \in [Runs -> Decisions]
         /\ \A step \in DriverSteps : Goto(r, step) => pc' \in [Runs -> DriverSteps]
BY DEF TypeOK, SetStatus, SetDecision, Goto

LEMMA UnlockType ==
  ASSUME TypeOK, NEW r \in Runs, Unlock(r)
  PROVE  lock' \in [Projects -> Runs \cup {NoRun}]
BY ConstantsAssumption DEF TypeOK, Unlock

Integrations == {"none", "PREPARED", "COMPLETED", "FAILED", "REJECTED", "BLOCKED"}
Approvals    == {"none", "PENDING", "CANCELLED"}

LEMMA ClosingTypes ==
  ASSUME TypeOK, NEW r \in Runs
  PROVE  /\ FailPrepared(r) => integration' \in [Runs -> Integrations]
         /\ CancelApproval(r) => approval' \in [Runs -> Approvals]
<1>1. integration \in [Runs -> Integrations] /\ approval \in [Runs -> Approvals]
  BY DEF TypeOK, Integrations, Approvals
<1>2. FailPrepared(r) => integration' \in [Runs -> Integrations]
  BY <1>1 DEF FailPrepared, Integrations
<1>3. CancelApproval(r) => approval' \in [Runs -> Approvals]
  BY <1>1 DEF CancelApproval, Approvals
<1> QED
  BY <1>2, <1>3

(* A program that is started on a run keeps the types.                      *)
LEMMA StartType ==
  ASSUME TypeOK, NEW r \in Runs, DriverStart(r)
  PROVE  TypeOK'
<1> USE DEF TypeOK, Goto, recVars, gitVars, gateVars
<1>1. CASE BeginReserve(r)
  <2>1. status' \in [Runs -> Statuses]
    BY <1>1, ColumnTypes DEF BeginReserve, Statuses
  <2>2. pc' \in [Runs -> DriverSteps]
    BY <1>1 DEF BeginReserve, DriverSteps
  <2>3. lock' \in [Projects -> Runs \cup {NoRun}]
    BY <1>1 DEF BeginReserve
  <2>4. base' \in [Runs -> SUBSET Commits] /\ older' \in [Runs -> SUBSET Runs]
    BY <1>1, ConstantsAssumption DEF BeginReserve
  <2> QED
    BY <1>1, <2>1, <2>2, <2>3, <2>4 DEF BeginReserve
<1>2. CASE WorkReserve(r)
  BY <1>2 DEF WorkReserve, runVars, beginVars, DriverSteps
<1>3. CASE SubmitCheck(r)
  BY <1>3 DEF SubmitCheck, runVars, beginVars, DriverSteps
<1>4. CASE ReviewReserve(r)
  BY <1>4 DEF ReviewReserve, runVars, beginVars, DriverSteps
<1>5. CASE ApplyCheck(r)
  BY <1>5 DEF ApplyCheck, runVars, beginVars, DriverSteps
<1>6. CASE RollbackStart(r)
  BY <1>6 DEF RollbackStart, StartRollback, SetStatus, SetDecision, beginVars,
              Statuses, Decisions, DriverSteps
<1>7. CASE RollbackRefused(r)
  BY <1>7 DEF RollbackRefused, runVars, beginVars, DriverSteps
<1> QED
  BY <1>1, <1>2, <1>3, <1>4, <1>5, <1>6, <1>7 DEF DriverStart

(* So does every further step of such a program.                            *)
LEMMA DriverType ==
  ASSUME TypeOK, NEW r \in Runs, DriverStep(r)
  PROVE  TypeOK'
<1> USE DEF TypeOK, Goto, recVars, gateVars, beginVars
<1>1. CASE BeginWorktree(r)
  BY <1>1 DEF BeginWorktree, runVars, DriverSteps
<1>2. CASE BeginRecord(r)
  <2>1. status' \in [Runs -> Statuses]
    BY <1>2, ColumnTypes DEF BeginRecord, Statuses
  <2> QED
    BY <1>2, <2>1 DEF BeginRecord, gitVars, DriverSteps
<1>3. CASE BeginFails(r)
  BY <1>3 DEF BeginFails, RemoveWorktree, runVars, DriverSteps
<1>4. CASE BeginUndo(r)
  <2>1. status' \in [Runs -> Statuses]
    BY <1>4, ColumnTypes DEF BeginUndo, Statuses
  <2>2. lock' \in [Projects -> Runs \cup {NoRun}]
    BY <1>4, UnlockType DEF BeginUndo
  <2> QED
    BY <1>4, <2>1, <2>2 DEF BeginUndo, gitVars, DriverSteps
<1>5. CASE WorkImport(r)
  BY <1>5 DEF WorkImport, runVars, DriverSteps
<1>6. CASE WorkFinish(r)
  BY <1>6 DEF WorkFinish, runVars, gitVars, DriverSteps
<1>7. CASE SubmitRecord(r)
  <2>1. status' \in [Runs -> Statuses]
    BY <1>7, ColumnTypes DEF SubmitRecord, Statuses
  <2>2. result' \in [Runs -> BOOLEAN]
    BY <1>7 DEF SubmitRecord
  <2> QED
    BY <1>7, <2>1, <2>2 DEF SubmitRecord, gitVars, DriverSteps
<1>8. CASE ReviewFinish(r)
  BY <1>8 DEF ReviewFinish, runVars, gitVars, Verdicts, DriverSteps
<1>9. CASE ApplyRefused(r)
  BY <1>9 DEF ApplyRefused, runVars, gitVars, DriverSteps
<1>10. CASE ApplyReject(r)
  BY <1>10 DEF ApplyReject, runVars, gitVars, DriverSteps
<1>11. CASE ApplyBlock(r)
  BY <1>11 DEF ApplyBlock, SetStatus, SetDecision, gitVars, Statuses,
               Decisions, DriverSteps
<1>12. CASE ApplyPrepare(r)
  BY <1>12 DEF ApplyPrepare, SetStatus, gitVars, Statuses, DriverSteps
<1>13. CASE ApplyMerge(r)
  BY <1>13, FastForwardType DEF ApplyMerge, runVars, DriverSteps
<1>14. CASE ApplyTidy(r)
  BY <1>14 DEF ApplyTidy, RemoveWorktree, runVars, DriverSteps
<1>15. CASE ApplyFinalize(r)
  <2>1. status' \in [Runs -> Statuses] /\ decision' \in [Runs -> Decisions]
    BY <1>15, ColumnTypes DEF ApplyFinalize, Statuses, Decisions
  <2>2. lock' \in [Projects -> Runs \cup {NoRun}]
    BY <1>15, UnlockType DEF ApplyFinalize
  <2> QED
    BY <1>15, <2>1, <2>2 DEF ApplyFinalize, gitVars, DriverSteps
<1>16. CASE ApplyError(r)
  BY <1>16 DEF ApplyError, runVars, gitVars, DriverSteps
<1>17. CASE MarkAmbiguous(r)
  <2>1. status' \in [Runs -> Statuses] /\ decision' \in [Runs -> Decisions]
    BY <1>17, ColumnTypes DEF MarkAmbiguous, runVars, Statuses, Decisions
  <2> QED
    BY <1>17, <2>1 DEF MarkAmbiguous, gitVars, DriverSteps
<1>18. CASE RollbackClean(r)
  BY <1>18 DEF RollbackClean, RemoveWorktree, runVars, DriverSteps
<1>19. CASE RollbackFinish(r)
  <2>1. status' \in [Runs -> Statuses] /\ decision' \in [Runs -> Decisions]
    BY <1>19, ColumnTypes DEF RollbackFinish, FinishRollback, Statuses, Decisions
  <2>2. lock' \in [Projects -> Runs \cup {NoRun}]
    BY <1>19, UnlockType DEF RollbackFinish, FinishRollback
  <2>3. approval' \in [Runs -> Approvals]
    BY <1>19, ClosingTypes DEF RollbackFinish, FinishRollback
  <2> QED
    BY <1>19, <2>1, <2>2, <2>3 DEF RollbackFinish, gitVars, Approvals, DriverSteps
<1>20. CASE RollbackFails(r)
  BY <1>20 DEF RollbackFails, runVars, gitVars, DriverSteps
<1>21. CASE MarkCleanup(r)
  <2>1. status' \in [Runs -> Statuses] /\ decision' \in [Runs -> Decisions]
    BY <1>21, ColumnTypes DEF MarkCleanup, runVars, Statuses, Decisions
  <2>2. integration' \in [Runs -> Integrations] /\ approval' \in [Runs -> Approvals]
    <3>1. integration \in [Runs -> Integrations] /\ approval \in [Runs -> Approvals]
      BY DEF Integrations, Approvals
    <3> QED
      BY <1>21, <3>1, ClosingTypes DEF MarkCleanup
  <2> QED
    BY <1>21, <2>1, <2>2
    DEF MarkCleanup, gitVars, Integrations, Approvals, DriverSteps
<1> QED
  BY <1>1, <1>2, <1>3, <1>4, <1>5, <1>6, <1>7, <1>8, <1>9, <1>10, <1>11,
     <1>12, <1>13, <1>14, <1>15, <1>16, <1>17, <1>18, <1>19, <1>20,
     <1>21 DEF DriverStep

(* So does every step of a recovery.                                        *)
LEMMA RecoveryType ==
  ASSUME TypeOK, RecoveryStep
  PROVE  TypeOK'
<1> USE DEF TypeOK, At, gateVars, beginVars, runVars
<1>1. rec.run \in Runs
  BY DEF RecoveryStep, RecCleanup, RecResume, RecMerge, RecTidy, RecFinalize,
         RecClean, RecFinishRollback, RecDemote, RecRollback, RecBlock
<1>2. \/ RecDone \/ RecAbort
      \/ \E step \in RecoverySteps : RecGoto(step) /\ UNCHANGED swept
  <2> USE DEF RecoverySteps
  <2>1. CASE RecCleanup \/ RecTidy \/ RecClean \/ RecDemote
    BY <2>1 DEF RecCleanup, RecTidy, RecClean, RecDemote
  <2>2. CASE RecResume \/ RecFinalize \/ RecFinishRollback \/ RecBlock
    BY <2>2 DEF RecResume, RecFinalize, RecFinishRollback, RecBlock
  <2>3. CASE RecMerge \/ RecRollback
    BY <2>3 DEF RecMerge, RecRollback
  <2> QED
    BY <2>1, <2>2, <2>3 DEF RecoveryStep
<1>3. rec' \in RecoveryRecords /\ swept' \subseteq Runs
  BY <1>1, <1>2, RecoveryMoves
<1> USE <1>1, <1>3 DEF RecoveryRecords
<1>4. CASE RecCleanup
  BY <1>4 DEF RecCleanup, AbandonTask, gitVars
<1>5. CASE RecResume
  BY <1>5 DEF RecResume, SetDecision, gitVars, Decisions
<1>6. CASE RecMerge
  BY <1>6, FastForwardType DEF RecMerge
<1>7. CASE RecTidy \/ RecClean
  BY <1>7 DEF RecTidy, RecClean, RemoveWorktree
<1>8. CASE RecFinalize
  <2>1. CASE UNCHANGED <<integration, lock, runVars>>
    BY <1>8, <2>1 DEF RecFinalize, gitVars
  <2>2. CASE /\ integration' = [integration EXCEPT ![rec.run] = "COMPLETED"]
             /\ Unlock(rec.run)
             /\ SetStatus(rec.run, "COMPLETED")
             /\ SetDecision(rec.run, "RESUME_SAFE")
    <3> UNCHANGED <<result, beginVars, task, review, gateVars, gitVars, pc,
                    crashes>>
      BY <1>8 DEF RecFinalize
    <3> QED
      BY <2>2, ConstantsAssumption
      DEF Unlock, SetStatus, SetDecision, gitVars, Statuses, Decisions
  <2> QED
    BY <1>8, <2>1, <2>2 DEF RecFinalize
<1>9. CASE RecFinishRollback
  BY <1>9, ConstantsAssumption
  DEF RecFinishRollback, FinishRollback, CancelApproval, Unlock, SetStatus,
      SetDecision, gitVars, Statuses, Decisions
<1>10. CASE RecDemote
  <2>1. status' \in [Runs -> Statuses] /\ decision' \in [Runs -> Decisions]
    BY <1>10, ColumnTypes DEF RecDemote, Statuses, Decisions
  <2>2. integration' \in [Runs -> Integrations]
    BY <1>10, ClosingTypes DEF RecDemote, Integrations
  <2> QED
    BY <1>10, <2>1, <2>2 DEF RecDemote, gitVars, Integrations
<1>11. CASE RecRollback
  BY <1>11 DEF RecRollback, StartRollback, SetStatus, SetDecision, gitVars,
               Statuses, Decisions
<1>12. CASE RecBlock
  <2>1. CASE UNCHANGED <<lock, approval, integration, runVars>>
    BY <1>12, <2>1 DEF RecBlock, gitVars
  <2>2. CASE /\ lock' = [lock EXCEPT ![ProjectOf[rec.run]] = rec.run]
             /\ approval' = [approval EXCEPT ![rec.run] = "PENDING"]
             /\ FailPrepared(rec.run)
             /\ SetStatus(rec.run, "WAITING_HUMAN")
             /\ SetDecision(rec.run, "BLOCK_HUMAN")
    <3> UNCHANGED <<result, beginVars, task, review, cancelled, gitVars, pc,
                    crashes>>
      BY <1>12 DEF RecBlock
    <3> QED
      BY <2>2, ConstantsAssumption
      DEF FailPrepared, SetStatus, SetDecision, gitVars, Statuses, Decisions
  <2> QED
    BY <1>12, <2>1, <2>2 DEF RecBlock
<1> QED
  BY <1>4, <1>5, <1>6, <1>7, <1>8, <1>9, <1>10, <1>11, <1>12
  DEF RecoveryStep

(* The rest: deaths, the start of a recovery, and the environment.         *)
LEMMA OutsideType ==
  ASSUME TypeOK,
         \/ \E r \in Runs : DriverCrash(r) \/ SweepRecover(r)
                             \/ ForcedRecover(r) \/ Resolve(r)
         \/ RecoveryCrash \/ SweepEnd
         \/ \E p \in Projects : Drift(p)
         \/ \E pl \in Plans : RequestCancel(pl)
  PROVE  TypeOK'
<1> USE DEF TypeOK, gitVars, gateVars, beginVars, runVars
<1>1. ASSUME NEW r \in Runs, DriverCrash(r) PROVE TypeOK'
  BY <1>1, ConstantsAssumption DEF DriverCrash, Goto, recVars, DriverSteps
<1>2. ASSUME NEW r \in Runs, SweepRecover(r) \/ ForcedRecover(r) \/ Resolve(r)
      PROVE  TypeOK'
  <2>1. Assess(r, TRUE) \/ Assess(r, FALSE)
    BY <1>2 DEF SweepRecover, ForcedRecover, Resolve
  <2>2. rec' \in RecoveryRecords
    BY <2>1, AssessType
  <2> QED
    BY <1>2, <2>2 DEF SweepRecover, ForcedRecover, Resolve, RecoveryRecords
<1>3. CASE RecoveryCrash
  BY <1>3, ConstantsAssumption
  DEF RecoveryCrash, NoRecovery, RecoverySteps, Decisions, Statuses
<1>4. CASE SweepEnd
  BY <1>4 DEF SweepEnd
<1>5. ASSUME NEW p \in Projects, Drift(p) PROVE TypeOK'
  <2>1. PICK x \in External : main' = [main EXCEPT ![p] = @ \cup {x}]
    BY <1>5 DEF Drift
  <2>2. main[p] \cup {x} \in SUBSET Commits
    BY DEF Commits
  <2>3. main' \in [Projects -> SUBSET Commits]
    BY <2>1, <2>2
  <2> QED
    BY <1>5, <2>3 DEF Drift, procVars
<1>6. ASSUME NEW pl \in Plans, RequestCancel(pl) PROVE TypeOK'
  BY <1>6 DEF RequestCancel, procVars
<1> QED
  BY <1>1, <1>2, <1>3, <1>4, <1>5, <1>6

(* Every table, branch and process of HermesOps stays in the states the     *)
(* schema and the programs give it.                                        *)
THEOREM TypeCorrect == Spec => []TypeOK
<1>1. Init => TypeOK
  BY ConstantsAssumption
  DEF Init, TypeOK, NoRecovery, Statuses, Decisions, DriverSteps,
      RecoverySteps
<1>2. TypeOK /\ [Next]_vars => TypeOK'
  <2> SUFFICES ASSUME TypeOK, [Next]_vars PROVE TypeOK'
    OBVIOUS
  <2>1. CASE UNCHANGED vars
    BY <2>1 DEF vars, TypeOK
  <2>2. CASE Next
    BY <2>2, StartType, DriverType, RecoveryType, OutsideType DEF Next
  <2> QED
    BY <2>1, <2>2
<1> QED
  BY <1>1, <1>2, PTL DEF Spec
-----------------------------------------------------------------------------
(* What reaches a default branch, even if the recovery meets live processes. *)

OnRecord == {"PREPARED", "COMPLETED", "FAILED"}
Integrating == {"merge", "tidy", "finalize", "retry", "refinalize", "ambiguous"}

(* A run whose integration is on record was approved, and approval is final *)
(* because nobody reviews such a run again; whoever is about to move a      *)
(* branch, integrator or recovery, works on a run of that kind.            *)
ApprovedInv ==
  /\ \A r \in Runs : integration[r] \in OnRecord => result[r] /\ review[r] = "APPROVE"
  /\ \A r \in Runs : pc[r] = "review" => review[r] = "none"
  /\ \A r \in Runs : pc[r] \in Integrating => integration[r] \in OnRecord
  /\ \A r \in Runs : status[r] = "REVIEWING" => result[r]
  /\ \A r \in Runs : r \in main[ProjectOf[r]] => integration[r] \in OnRecord

RecoveryInv ==
  /\ RecoveringIsDecided
  /\ rec.step = "resume" => rec.seen \in {"RUNNING", "REVIEWING"}
  /\ rec.step = "merge" => integration[rec.run] \in OnRecord
  /\ /\ rec.step = "cleanup" /\ rec.decision = "RESUME_SAFE"
     /\ rec.seen \notin {"RUNNING", "REVIEWING"}
     => integration[rec.run] \in OnRecord

(* The preparation and the end of an integration, and the recovery's hand-  *)
(* over, respect both.                                                      *)
LEMMA StartApproved ==
  ASSUME TypeOK, ApprovedInv, RecoveryInv, NEW r \in Runs, DriverStart(r)
  PROVE  ApprovedInv' /\ RecoveryInv'
<1> USE DEF TypeOK, ApprovedInv, RecoveryInv, RecoveringIsDecided, Goto,
            recVars, gitVars, gateVars, Integrating, OnRecord
<1>1. CASE BeginReserve(r)
  BY <1>1 DEF BeginReserve, SetStatus
<1>2. CASE WorkReserve(r)
  BY <1>2 DEF WorkReserve, runVars, beginVars
<1>3. CASE SubmitCheck(r)
  BY <1>3 DEF SubmitCheck, runVars, beginVars
<1>4. CASE ReviewReserve(r)
  BY <1>4 DEF ReviewReserve, runVars, beginVars
<1>5. CASE ApplyCheck(r)
  BY <1>5 DEF ApplyCheck, runVars, beginVars
<1>6. CASE RollbackStart(r)
  BY <1>6 DEF RollbackStart, StartRollback, SetStatus, SetDecision, beginVars
<1>7. CASE RollbackRefused(r)
  BY <1>7 DEF RollbackRefused, runVars, beginVars
<1> QED
  BY <1>1, <1>2, <1>3, <1>4, <1>5, <1>6, <1>7 DEF DriverStart

(* A program that goes on keeps both: the merge finds its integration on    *)
(* record, and a review ends only where no integration is.                 *)
LEMMA DriverApproved ==
  ASSUME TypeOK, ApprovedInv, RecoveryInv, NEW r \in Runs, DriverStep(r)
  PROVE  ApprovedInv' /\ RecoveryInv'
<1> USE DEF TypeOK, ApprovedInv, RecoveryInv, RecoveringIsDecided, Goto,
            recVars, gateVars, beginVars, Integrating, OnRecord
<1>1. CASE BeginWorktree(r)
  BY <1>1 DEF BeginWorktree, runVars
<1>2. CASE BeginRecord(r)
  BY <1>2 DEF BeginRecord, SetStatus, gitVars
<1>3. CASE BeginFails(r)
  BY <1>3 DEF BeginFails, runVars
<1>4. CASE BeginUndo(r)
  BY <1>4 DEF BeginUndo, SetStatus, gitVars
<1>5. CASE WorkImport(r)
  BY <1>5 DEF WorkImport, runVars
<1>6. CASE WorkFinish(r)
  BY <1>6 DEF WorkFinish, runVars, gitVars
<1>7. CASE SubmitRecord(r)
  BY <1>7 DEF SubmitRecord, SetStatus, gitVars
<1>8. CASE ReviewFinish(r)
  BY <1>8 DEF ReviewFinish, runVars, gitVars
<1>9. CASE ApplyRefused(r)
  BY <1>9 DEF ApplyRefused, runVars, gitVars
<1>10. CASE ApplyReject(r)
  BY <1>10 DEF ApplyReject, runVars, gitVars
<1>11. CASE ApplyBlock(r)
  BY <1>11 DEF ApplyBlock, SetStatus, SetDecision, gitVars
<1>12. CASE ApplyPrepare(r)
  BY <1>12 DEF ApplyPrepare, MayIntegrate, Authorized, StillOpen, SetStatus, gitVars
<1>13. CASE ApplyMerge(r)
  BY <1>13, ConstantsAssumption DEF ApplyMerge, FastForward, runVars
<1>14. CASE ApplyTidy(r)
  BY <1>14 DEF ApplyTidy, runVars
<1>15. CASE ApplyFinalize(r)
  BY <1>15 DEF ApplyFinalize, SetStatus, SetDecision, gitVars
<1>16. CASE ApplyError(r)
  BY <1>16 DEF ApplyError, runVars, gitVars
<1>17. CASE MarkAmbiguous(r)
  <2>1. /\ integration' = [integration EXCEPT ![r] = "FAILED"]
        /\ pc[r] = "ambiguous" /\ pc' = [pc EXCEPT ![r] = "idle"]
        /\ UNCHANGED <<result, review, main, rec>>
    BY <1>17 DEF MarkAmbiguous, gitVars
  <2>2. CASE /\ status' = [status EXCEPT ![r] = "RECOVERING"]
             /\ decision' = [decision EXCEPT ![r] = "BLOCK_HUMAN"]
    BY <2>1, <2>2
  <2>3. CASE UNCHANGED <<status, decision>>
    BY <2>1, <2>3
  <2> QED
    BY <1>17, <2>2, <2>3 DEF MarkAmbiguous, SetStatus, SetDecision, runVars
<1>18. CASE RollbackClean(r)
  BY <1>18 DEF RollbackClean, runVars
<1>19. CASE RollbackFinish(r)
  BY <1>19 DEF RollbackFinish, FinishRollback, SetStatus, SetDecision, gitVars
<1>20. CASE RollbackFails(r)
  BY <1>20 DEF RollbackFails, runVars, gitVars
<1>21. CASE MarkCleanup(r)
  <2>1. CASE UNCHANGED <<runVars, integration, approval>>
    BY <1>21, <2>1 DEF MarkCleanup, runVars, gitVars
  <2>2. CASE /\ FailPrepared(r)
             /\ SetStatus(r, "RECOVERING") /\ SetDecision(r, "ROLLBACK_SAFE")
    BY <1>21, <2>2 DEF MarkCleanup, FailPrepared, SetStatus, SetDecision, gitVars
  <2> QED
    BY <1>21, <2>1, <2>2 DEF MarkCleanup
<1> QED
  BY <1>1, <1>2, <1>3, <1>4, <1>5, <1>6, <1>7, <1>8, <1>9, <1>10, <1>11,
     <1>12, <1>13, <1>14, <1>15, <1>16, <1>17, <1>18, <1>19, <1>20,
     <1>21 DEF DriverStep

(* The recovery keeps both: it merges what the policy found on record.      *)
LEMMA RecoveryApproved ==
  ASSUME TypeOK, ApprovedInv, RecoveryInv, RecoveryStep
  PROVE  ApprovedInv' /\ RecoveryInv'
<1> USE DEF TypeOK, ApprovedInv, RecoveryInv, RecoveringIsDecided, At, RecGoto,
            RecDone, RecAbort, NoRecovery, gateVars, beginVars, runVars,
            Integrating, OnRecord
<1>1. CASE RecCleanup
  BY <1>1 DEF RecCleanup, gitVars
<1>2. CASE RecResume
  BY <1>2 DEF RecResume, SetDecision, gitVars
<1>3. CASE RecMerge
  BY <1>3, ConstantsAssumption DEF RecMerge, FastForward
<1>4. CASE RecTidy \/ RecClean
  BY <1>4 DEF RecTidy, RecClean
<1>5. CASE RecFinalize
  <2>1. /\ rec' = NoRecovery /\ rec.run \in Runs
        /\ UNCHANGED <<result, review, main, pc>>
    BY <1>5 DEF RecFinalize, gitVars
  <2>2. CASE /\ integration[rec.run] \in {"PREPARED", "FAILED"}
             /\ integration' = [integration EXCEPT ![rec.run] = "COMPLETED"]
             /\ status' = [status EXCEPT ![rec.run] = "COMPLETED"]
             /\ decision' = [decision EXCEPT ![rec.run] = "RESUME_SAFE"]
    BY <2>1, <2>2
  <2>3. CASE UNCHANGED <<integration, status, decision>>
    BY <2>1, <2>3
  <2> QED
    BY <1>5, <2>2, <2>3 DEF RecFinalize, SetStatus, SetDecision
<1>6. CASE RecFinishRollback
  BY <1>6 DEF RecFinishRollback, FinishRollback, SetStatus, SetDecision, gitVars
<1>7. CASE RecDemote
  <2>1. /\ rec' = [rec EXCEPT !.step = "rollback"] /\ rec.run \in Runs
        /\ UNCHANGED <<result, review, main, pc>>
    BY <1>7 DEF RecDemote, gitVars
  <2>2. rec'.step = "rollback" /\ rec'.seen = rec.seen /\ rec'.run = rec.run
    BY <2>1
  <2>3. CASE UNCHANGED <<integration, status, decision>>
    BY <2>1, <2>2, <2>3
  <2>4. CASE /\ FailPrepared(rec.run)
             /\ status' = [status EXCEPT ![rec.run] = "RECOVERING"]
             /\ decision' = [decision EXCEPT ![rec.run] = "ROLLBACK_SAFE"]
    <3>1. \A q \in Runs : integration[q] \in OnRecord <=> integration'[q] \in OnRecord
      BY <2>4 DEF FailPrepared
    <3>2. ApprovedInv'
      BY <2>1, <2>4, <3>1
    <3>3. RecoveryInv'
      BY <2>2, <2>4
    <3> QED
      BY <3>2, <3>3
  <2> QED
    BY <1>7, <2>3, <2>4 DEF RecDemote, SetStatus, SetDecision
<1>8. CASE RecRollback
  BY <1>8 DEF RecRollback, StartRollback, SetStatus, SetDecision, gitVars
<1>9. CASE RecBlock
  <2>1. /\ rec' = NoRecovery
        /\ UNCHANGED <<result, review, main, pc>>
    BY <1>9 DEF RecBlock, gitVars
  <2>2. CASE UNCHANGED <<lock, approval, integration, runVars>>
    BY <2>1, <2>2
  <2>3. CASE /\ FailPrepared(rec.run)
             /\ SetStatus(rec.run, "WAITING_HUMAN")
             /\ SetDecision(rec.run, "BLOCK_HUMAN")
    BY <1>9, <2>1, <2>3 DEF FailPrepared, SetStatus, SetDecision, RecBlock
  <2> QED
    BY <1>9, <2>2, <2>3 DEF RecBlock
<1> QED
  BY <1>1, <1>2, <1>3, <1>4, <1>5, <1>6, <1>7, <1>8, <1>9 DEF RecoveryStep

(* A recovery is handed to the merge only for an integration on record: the *)
(* other branch of the policy needs a RECOVERING run marked RESUME_SAFE.   *)
LEMMA AssessApproved ==
  ASSUME TypeOK, RecoveringIsDecided, NEW r \in Runs, NEW b \in BOOLEAN,
         Assess(r, b)
  PROVE  /\ rec'.step = "cleanup" /\ rec'.run = r
         /\ /\ rec'.decision = "RESUME_SAFE"
            /\ rec'.seen \notin {"RUNNING", "REVIEWING"}
            => integration[r] \in OnRecord
<1> PICK usable \in BOOLEAN :
      rec' = [run |-> r, step |-> "cleanup",
              decision |-> IF usable THEN Assessment(r) ELSE "BLOCK_HUMAN",
              seen |-> status[r],
              bare |-> status[r] = "SNAPSHOTTING" /\ ~snapshot[r],
              sweep |-> b]
  BY DEF Assess
<1>1. ResumeSafe(r) /\ status[r] \notin {"RUNNING", "REVIEWING"}
        => integration[r] \in OnRecord
  BY DEF ResumeSafe, RecoveringIsDecided, OnRecord
<1> QED
  BY <1>1 DEF Assessment

(* Deaths, new recoveries and the environment keep both: outside commits    *)
(* are not results of runs.                                                *)
LEMMA OutsideApproved ==
  ASSUME TypeOK, ApprovedInv, RecoveryInv,
         \/ \E r \in Runs : DriverCrash(r) \/ SweepRecover(r)
                             \/ ForcedRecover(r) \/ Resolve(r)
         \/ RecoveryCrash \/ SweepEnd
         \/ \E p \in Projects : Drift(p)
         \/ \E pl \in Plans : RequestCancel(pl)
  PROVE  ApprovedInv' /\ RecoveryInv'
<1> USE DEF TypeOK, ApprovedInv, RecoveryInv, gitVars, gateVars, beginVars,
            runVars
<1>1. ASSUME NEW r \in Runs, DriverCrash(r)
      PROVE  ApprovedInv' /\ RecoveryInv'
  BY <1>1 DEF DriverCrash, Goto, recVars, Integrating, RecoveringIsDecided
<1>2. ASSUME NEW r \in Runs, SweepRecover(r) \/ ForcedRecover(r) \/ Resolve(r)
      PROVE  ApprovedInv' /\ RecoveryInv'
  <2>1. Assess(r, TRUE) \/ Assess(r, FALSE)
    BY <1>2 DEF SweepRecover, ForcedRecover, Resolve
  <2>2. /\ rec'.step = "cleanup" /\ rec'.run = r
        /\ /\ rec'.decision = "RESUME_SAFE"
           /\ rec'.seen \notin {"RUNNING", "REVIEWING"}
           => integration[r] \in OnRecord
    BY <2>1, AssessApproved
  <2>3. UNCHANGED <<status, decision, result, review, integration, main, pc>>
    BY <1>2 DEF SweepRecover, ForcedRecover, Resolve
  <2> QED
    BY <2>2, <2>3 DEF RecoveringIsDecided
<1>3. CASE RecoveryCrash \/ SweepEnd
  BY <1>3 DEF RecoveryCrash, SweepEnd, NoRecovery, RecoveringIsDecided
<1>4. ASSUME NEW p \in Projects, Drift(p)
      PROVE  ApprovedInv' /\ RecoveryInv'
  <2>1. PICK x \in External : main' = [main EXCEPT ![p] = @ \cup {x}]
    BY <1>4 DEF Drift
  <2>2. \A r \in Runs : r \in main'[ProjectOf[r]] => r \in main[ProjectOf[r]]
    BY <2>1, ConstantsAssumption
  <2> QED
    BY <1>4, <2>2 DEF Drift, procVars, RecoveringIsDecided
<1>5. ASSUME NEW pl \in Plans, RequestCancel(pl)
      PROVE  ApprovedInv' /\ RecoveryInv'
  BY <1>5 DEF RequestCancel, procVars, RecoveringIsDecided
<1> QED
  BY <1>1, <1>2, <1>3, <1>4, <1>5

(* Both hold in every reachable state.                                     *)
LEMMA ApprovedInductive ==
  Spec => [](ApprovedInv /\ RecoveryInv)
<1>1. Init => ApprovedInv /\ RecoveryInv
  BY ConstantsAssumption
  DEF Init, ApprovedInv, RecoveryInv, RecoveringIsDecided, NoRecovery,
      Integrating, OnRecord
<1>2. TypeOK /\ ApprovedInv /\ RecoveryInv /\ [Next]_vars
        => (ApprovedInv /\ RecoveryInv)'
  <2> SUFFICES ASSUME TypeOK, ApprovedInv, RecoveryInv, [Next]_vars
               PROVE  ApprovedInv' /\ RecoveryInv'
    OBVIOUS
  <2>1. CASE UNCHANGED vars
    BY <2>1 DEF vars, ApprovedInv, RecoveryInv, RecoveringIsDecided
  <2>2. CASE Next
    BY <2>2, StartApproved, DriverApproved, RecoveryApproved, OutsideApproved
    DEF Next
  <2> QED
    BY <2>1, <2>2
<1> QED
  BY <1>1, <1>2, TypeCorrect, PTL DEF Spec

(* Nothing reaches a default branch through HermesOps but the result of a   *)
(* run whose one review approved it and whose integration was on record    *)
(* first: in the integrator, in its retry after an error and in a resumed   *)
(* integration, with any number of deaths and even if the recovery works    *)
(* on a run whose programs are alive.                                      *)
THEOREM OnlyApprovedMerged == Spec => []MergedWasApproved
<1>1. ApprovedInv => MergedWasApproved
  BY DEF ApprovedInv, MergedWasApproved, OnRecord
<1> QED
  BY <1>1, ApprovedInductive, PTL

(* The policy's "continue-interrupted-resume" branch is for states that no  *)
(* program produces.                                                       *)
THEOREM RecoveringDecided == Spec => []RecoveringIsDecided
<1>1. RecoveryInv => RecoveringIsDecided
  BY DEF RecoveryInv
<1> QED
  BY <1>1, ApprovedInductive, PTL
-----------------------------------------------------------------------------
(* Results are stacked, even if the recovery meets live processes.         *)

(* A run that has not begun is known to nobody; a base is part of the       *)
(* branch for ever and never contains its own run's result.                *)
LinearInv ==
  /\ \A r \in Runs : status[r] = "NONE" =>
       pc[r] = "idle" /\ rec.run # r /\ r \notin main[ProjectOf[r]]
  /\ \A r \in Runs : base[r] \subseteq main[ProjectOf[r]] /\ r \notin base[r]
  /\ LinearHistory

(* A merge puts one more result on top of those its run was begun from.     *)
LEMMA MergeLinear ==
  ASSUME TypeOK, LinearInv, NEW r \in Runs, status[r] # "NONE",
         FastForward(r), AtBase(r) \/ AtResult(r), UNCHANGED <<base, status>>,
         \A q \in Runs : status[q] = "NONE" => pc'[q] = "idle" /\ rec'.run # q
  PROVE  LinearInv'
<1> USE DEF TypeOK, LinearInv
<1>1. main' = [main EXCEPT ![ProjectOf[r]] = base[r] \cup {r}]
  <2>1. main[ProjectOf[r]] \cup {r} = base[r] \cup {r}
    BY DEF AtBase, AtResult
  <2> QED
    BY <2>1 DEF FastForward
<1>2. main'[ProjectOf[r]] = base[r] \cup {r}
  BY <1>1, ConstantsAssumption
<1>3. \A q \in Runs : ProjectOf[q] # ProjectOf[r]
        => main'[ProjectOf[q]] = main[ProjectOf[q]]
  BY <1>1, ConstantsAssumption
<1>4. base[r] \subseteq main[ProjectOf[r]]
      /\ main[ProjectOf[r]] \subseteq main'[ProjectOf[r]]
  BY <1>2 DEF FastForward, AtBase, AtResult
<1>5. \A q \in Runs : base[q] \subseteq main'[ProjectOf[q]]
  BY <1>3, <1>4
<1>6. \A q \in Runs : status[q] = "NONE" => q \notin main'[ProjectOf[q]]
  BY <1>2, <1>3, <1>4
<1>7. CASE AtResult(r)
  <2>1. main' = main
    BY <1>1, <1>7 DEF AtResult
  <2> QED
    BY <1>5, <1>6, <2>1 DEF LinearHistory
<1>8. CASE AtBase(r)
  <2>1. main[ProjectOf[r]] = base[r]
    BY <1>8 DEF AtBase
  <2>2. ASSUME NEW q \in Runs, q # r, ProjectOf[q] = ProjectOf[r], q \in base[r]
        PROVE  r \notin base[q]
    BY <2>1, <2>2
  <2>3. ASSUME NEW q \in Runs, NEW s \in Runs, q # s,
               ProjectOf[q] = ProjectOf[s], {q, s} \subseteq main'[ProjectOf[s]]
        PROVE  (q \in base[s]) # (s \in base[q])
    <3>1. CASE ProjectOf[s] # ProjectOf[r]
      BY <1>3, <2>3, <3>1 DEF LinearHistory
    <3>2. CASE ProjectOf[s] = ProjectOf[r] /\ r \notin {q, s}
      <4>1. {q, s} \subseteq main[ProjectOf[s]]
        BY <1>2, <2>1, <2>3, <3>2
      <4> QED
        BY <2>3, <4>1 DEF LinearHistory
    <3>3. CASE ProjectOf[s] = ProjectOf[r] /\ r = q
      BY <1>2, <2>2, <2>3, <3>3
    <3>4. CASE ProjectOf[s] = ProjectOf[r] /\ r = s
      BY <1>2, <2>2, <2>3, <3>4
    <3> QED
      BY <3>1, <3>2, <3>3, <3>4
  <2> QED
    BY <1>5, <1>6, <2>3 DEF LinearHistory
<1> QED
  BY <1>7, <1>8

(* Every other step of a run that has begun leaves bases and branches as    *)
(* they are.                                                               *)
LEMMA QuietLinear ==
  ASSUME TypeOK, LinearInv, UNCHANGED <<main, base>>,
         \A q \in Runs : status'[q] = "NONE" =>
           status[q] = "NONE" /\ pc'[q] = "idle" /\ rec'.run # q
  PROVE  LinearInv'
BY DEF LinearInv, LinearHistory

(* "begin" takes the branch as it is for the base of a run nobody knows.    *)
LEMMA BeginLinear ==
  ASSUME TypeOK, LinearInv, NEW r \in Runs, BeginReserve(r)
  PROVE  LinearInv'
<1> USE DEF TypeOK, LinearInv
<1>1. /\ base' = [base EXCEPT ![r] = main[ProjectOf[r]]]
      /\ \A q \in Runs : status'[q] = "NONE" =>
           status[q] = "NONE" /\ pc'[q] = pc[q] /\ rec'.run = rec.run
      /\ r \notin main[ProjectOf[r]] /\ UNCHANGED main
  BY DEF BeginReserve, SetStatus, Goto, gitVars, recVars
<1>2. \A q \in Runs : base'[q] \subseteq main[ProjectOf[q]] /\ q \notin base'[q]
  BY <1>1
<1>3. LinearHistory'
  BY <1>1 DEF LinearHistory
<1> QED
  BY <1>1, <1>2, <1>3

(* The programs keep it: of their steps only the merge moves a branch.      *)
LEMMA DriverLinear ==
  ASSUME TypeOK, LinearInv, NEW r \in Runs, DriverStart(r) \/ DriverStep(r)
  PROVE  LinearInv'
<1> USE DEF TypeOK, LinearInv, SetStatus, Goto, recVars, runVars, beginVars,
            gitVars
<1>1. CASE BeginReserve(r)
  BY <1>1, BeginLinear
<1>2. CASE ApplyMerge(r)
  BY <1>2, MergeLinear DEF ApplyMerge, CanFastForward
<1>3. CASE \/ WorkReserve(r) \/ SubmitCheck(r) \/ ReviewReserve(r)
           \/ ApplyCheck(r) \/ RollbackRefused(r) \/ RollbackStart(r)
  <2>1. status[r] # "NONE" /\ UNCHANGED <<main, base, rec>>
    BY <1>3 DEF WorkReserve, Loadable, SubmitCheck, ReviewReserve, ApplyCheck,
       RollbackRefused, RollbackStart, StartRollback, CanRollBack,
       RollbackStatuses, Active
  <2>2. \A q \in Runs \ {r} : status'[q] = status[q] /\ pc'[q] = pc[q]
    BY <1>3 DEF WorkReserve, SubmitCheck, ReviewReserve, ApplyCheck,
       RollbackRefused, RollbackStart, StartRollback
  <2>3. status'[r] # "NONE"
    BY <1>3, <2>1 DEF WorkReserve, SubmitCheck, ReviewReserve, ApplyCheck,
       RollbackRefused, RollbackStart, StartRollback
  <2> QED
    BY <2>1, <2>2, <2>3, QuietLinear
<1>4. CASE DriverStep(r) /\ ~ApplyMerge(r)
  <2> USE DEF BeginWorktree, BeginRecord, BeginFails, BeginUndo, WorkImport,
         WorkFinish, SubmitRecord, ReviewFinish, ApplyRefused, ApplyReject,
         ApplyBlock, ApplyPrepare, ApplyTidy, ApplyFinalize, ApplyError,
         MarkAmbiguous, RollbackClean, RollbackFinish, FinishRollback,
         RollbackFails, MarkCleanup
  <2>1. pc[r] # "idle" /\ UNCHANGED <<main, base, rec>>
    BY <1>4 DEF DriverStep
  <2>2. \A q \in Runs \ {r} : status'[q] = status[q] /\ pc'[q] = pc[q]
    BY <1>4 DEF DriverStep
  <2>3. status'[r] # "NONE"
    BY <1>4, <2>1 DEF DriverStep
  <2> QED
    BY <2>1, <2>2, <2>3, QuietLinear
<1> QED
  BY <1>1, <1>2, <1>3, <1>4 DEF DriverStart

(* So does the recovery, whose merge finds the base or the result.          *)
LEMMA RecoveryLinear ==
  ASSUME TypeOK, LinearInv, RecoveryStep
  PROVE  LinearInv'
<1> USE DEF TypeOK, LinearInv, At, SetStatus, RecGoto, RecDone, RecAbort,
            NoRecovery, runVars, beginVars, gitVars
<1>1. rec.run \in Runs /\ status[rec.run] # "NONE"
  BY DEF RecoveryStep, RecCleanup, RecResume, RecMerge, RecTidy, RecFinalize,
         RecClean, RecFinishRollback, RecDemote, RecRollback, RecBlock
<1>2. rec'.run \in {rec.run, NoRun} /\ UNCHANGED <<base, pc>>
  BY DEF RecoveryStep, RecCleanup, RecResume, RecMerge, RecTidy, RecFinalize,
         RecClean, RecFinishRollback, RecDemote, RecRollback, RecBlock
<1>3. CASE UNCHANGED main
  <2>1. /\ \A q \in Runs \ {rec.run} : status'[q] = status[q]
        /\ status'[rec.run] # "NONE"
    BY <1>1 DEF RecoveryStep, RecCleanup, RecResume, RecMerge, RecTidy,
       RecFinalize, RecClean, RecFinishRollback, FinishRollback, RecDemote,
       RecRollback, StartRollback, RecBlock
  <2> QED
    BY <1>1, <1>2, <1>3, <2>1, QuietLinear, ConstantsAssumption
<1>4. CASE RecMerge
  <2>1. CASE UNCHANGED main
    BY <1>3, <2>1
  <2>2. CASE FastForward(rec.run) /\ (AtBase(rec.run) \/ AtResult(rec.run))
    <3>1. UNCHANGED status
      BY <1>4 DEF RecMerge
    <3> QED
      BY <1>1, <1>2, <2>2, <3>1, MergeLinear, ConstantsAssumption
  <2> QED
    BY <1>4, <2>1, <2>2 DEF RecMerge
<1>5. UNCHANGED main \/ RecMerge
  BY DEF RecoveryStep, RecCleanup, RecResume, RecTidy, RecFinalize, RecClean,
         RecFinishRollback, RecDemote, RecRollback, RecBlock
<1> QED
  BY <1>3, <1>4, <1>5

(* So does the rest: a commit from outside is the result of no run.         *)
LEMMA OutsideLinear ==
  ASSUME TypeOK, LinearInv,
         \/ \E r \in Runs : DriverCrash(r) \/ SweepRecover(r)
                             \/ ForcedRecover(r) \/ Resolve(r)
         \/ RecoveryCrash \/ SweepEnd
         \/ \E p \in Projects : Drift(p)
         \/ \E pl \in Plans : RequestCancel(pl)
  PROVE  LinearInv'
<1> USE ConstantsAssumption
    DEF TypeOK, LinearInv, runVars, beginVars, gitVars, recVars, procVars
<1>1. ASSUME NEW r \in Runs, DriverCrash(r)
      PROVE  LinearInv'
  BY <1>1, QuietLinear DEF DriverCrash, Goto
<1>2. ASSUME NEW r \in Runs, SweepRecover(r) \/ ForcedRecover(r) \/ Resolve(r)
      PROVE  LinearInv'
  <2>1. status[r] # "NONE" /\ UNCHANGED <<status, base, main, pc>>
    BY <1>2 DEF SweepRecover, ForcedRecover, Resolve, NextInSweep,
                Recoverable, Active
  <2>2. rec'.run = r
    BY <1>2 DEF SweepRecover, ForcedRecover, Resolve, Assess
  <2> QED
    BY <2>1, <2>2, QuietLinear
<1>3. CASE RecoveryCrash \/ SweepEnd
  BY <1>3, QuietLinear DEF RecoveryCrash, SweepEnd, NoRecovery
<1>4. ASSUME NEW p \in Projects, Drift(p)
      PROVE  LinearInv'
  <2>1. PICK x \in External : main' = [main EXCEPT ![p] = @ \cup {x}]
    BY <1>4 DEF Drift
  <2>2. \A q \in Runs : \A r \in Runs :
          q \in main'[ProjectOf[r]] <=> q \in main[ProjectOf[r]]
    BY <2>1
  <2>3. \A q \in Runs : main[ProjectOf[q]] \subseteq main'[ProjectOf[q]]
    BY <2>1
  <2>4. UNCHANGED <<status, base, pc, rec>>
    BY <1>4 DEF Drift
  <2>5. LinearHistory'
    BY <2>2, <2>4 DEF LinearHistory
  <2> QED
    BY <2>2, <2>3, <2>4, <2>5
<1>5. ASSUME NEW pl \in Plans, RequestCancel(pl)
      PROVE  LinearInv'
  BY <1>5, QuietLinear DEF RequestCancel
<1> QED
  BY <1>1, <1>2, <1>3, <1>4, <1>5

(* Results are stacked, never combined: of two results on one branch, the   *)
(* run of one was begun from a commit that contained the other; so the      *)
(* review of each was of what it was put on top of.                        *)
THEOREM HistoryIsLinear == Spec => []LinearHistory
<1>1. Init => LinearInv
  BY ConstantsAssumption DEF Init, LinearInv, LinearHistory, NoRecovery
<1>2. TypeOK /\ LinearInv /\ [Next]_vars => LinearInv'
  <2> SUFFICES ASSUME TypeOK, LinearInv, [Next]_vars PROVE LinearInv'
    OBVIOUS
  <2>1. CASE UNCHANGED vars
    BY <2>1, QuietLinear DEF vars, LinearInv
  <2>2. CASE Next
    BY <2>2, DriverLinear, RecoveryLinear, OutsideLinear DEF Next
  <2> QED
    BY <2>1, <2>2
<1>3. LinearInv => LinearHistory
  BY DEF LinearInv
<1> QED
  BY <1>1, <1>2, <1>3, TypeCorrect, PTL DEF Spec
-----------------------------------------------------------------------------
(* One writer per project, when the recovery meets no live process.        *)

Beginning   == {"begin.git", "begin.record", "begin.undo"}
RollingBack == {"rollback.clean", "rollback.finish", "cleanup"}

(* A run is driven by a program or by the recovery, not by both; so the     *)
(* status that begin overwrites unseen is the one it wrote itself, and a    *)
(* FAILED run, which holds no lock, has no snapshot that would let a        *)
(* rollback, or the cleanup of a failed one, reopen it.                    *)
ExclusiveInv ==
  /\ \A r \in Runs : pc[r] # "idle" => rec.run # r
  /\ \A r \in Runs : rec.run = r => status[r] # "NONE"
  /\ \A r \in Runs : pc[r] \in Beginning => status[r] = "SNAPSHOTTING"
  /\ \A r \in Runs :
       snapshot[r] => status[r] \notin {"NONE", "FAILED", "SNAPSHOTTING"}
  /\ \A r \in Runs : pc[r] \in RollingBack => snapshot[r]
  /\ OpenHoldsProject

(* A program is started only on a run the recovery does not work on.        *)
LEMMA StartExclusive ==
  ASSUME ~Overlap, TypeOK, ExclusiveInv, NEW r \in Runs, DriverStart(r)
  PROVE  ExclusiveInv'
<1> USE ConstantsAssumption
    DEF TypeOK, ExclusiveInv, OpenHoldsProject, Open, Terminal, Holds, Lock,
        Goto, DriverFree, recVars, gitVars, gateVars, Beginning, RollingBack
<1>1. CASE BeginReserve(r)
  BY <1>1 DEF BeginReserve, ProjectFree, SetStatus
<1>2. CASE WorkReserve(r)
  BY <1>2 DEF WorkReserve, runVars, beginVars
<1>3. CASE SubmitCheck(r)
  BY <1>3 DEF SubmitCheck, runVars, beginVars
<1>4. CASE ReviewReserve(r)
  BY <1>4 DEF ReviewReserve, runVars, beginVars
<1>5. CASE ApplyCheck(r)
  BY <1>5 DEF ApplyCheck, runVars, beginVars
<1>6. CASE RollbackStart(r)
  BY <1>6 DEF RollbackStart, StartRollback, CanRollBack, RollbackStatuses,
             Active, SetStatus, SetDecision, beginVars
<1>7. CASE RollbackRefused(r)
  BY <1>7 DEF RollbackRefused, runVars, beginVars
<1> QED
  BY <1>1, <1>2, <1>3, <1>4, <1>5, <1>6, <1>7 DEF DriverStart

(* A program that goes on keeps the lock of its run until it closes the run. *)
LEMMA DriverExclusive ==
  ASSUME ~Overlap, TypeOK, ExclusiveInv, NEW r \in Runs, DriverStep(r)
  PROVE  ExclusiveInv'
<1> USE ConstantsAssumption
    DEF TypeOK, ExclusiveInv, OpenHoldsProject, Open, Terminal, Holds, Lock,
        Goto, recVars, gateVars, Beginning, RollingBack
<1>1. CASE BeginWorktree(r)
  BY <1>1 DEF BeginWorktree, beginVars, runVars
<1>2. CASE BeginRecord(r)
  BY <1>2 DEF BeginRecord, SetStatus, gitVars
<1>3. CASE BeginFails(r)
  BY <1>3 DEF BeginFails, beginVars, runVars
<1>4. CASE BeginUndo(r)
  BY <1>4 DEF BeginUndo, Unlock, SetStatus, beginVars, gitVars
<1>5. CASE WorkImport(r)
  BY <1>5 DEF WorkImport, beginVars, runVars
<1>6. CASE WorkFinish(r)
  BY <1>6 DEF WorkFinish, beginVars, runVars, gitVars
<1>7. CASE SubmitRecord(r)
  BY <1>7 DEF SubmitRecord, SetStatus, beginVars, gitVars
<1>8. CASE ReviewFinish(r)
  BY <1>8 DEF ReviewFinish, beginVars, runVars, gitVars
<1>9. CASE ApplyRefused(r)
  BY <1>9 DEF ApplyRefused, beginVars, runVars, gitVars
<1>10. CASE ApplyReject(r)
  BY <1>10 DEF ApplyReject, beginVars, runVars, gitVars
<1>11. CASE ApplyBlock(r)
  BY <1>11 DEF ApplyBlock, Authorized, StillOpen, SetStatus,
               SetDecision, beginVars, gitVars
<1>12. CASE ApplyPrepare(r)
  BY <1>12 DEF ApplyPrepare, Authorized, StillOpen, SetStatus,
               beginVars, gitVars
<1>13. CASE ApplyMerge(r)
  BY <1>13 DEF ApplyMerge, beginVars, runVars
<1>14. CASE ApplyTidy(r)
  BY <1>14 DEF ApplyTidy, beginVars, runVars
<1>15. CASE ApplyFinalize(r)
  BY <1>15 DEF ApplyFinalize, Unlock, SetStatus, SetDecision,
               beginVars, gitVars
<1>16. CASE ApplyError(r)
  BY <1>16 DEF ApplyError, beginVars, runVars, gitVars
<1>17. CASE MarkAmbiguous(r)
  BY <1>17 DEF MarkAmbiguous, SetStatus, SetDecision, runVars,
               beginVars, gitVars
<1>18. CASE RollbackClean(r)
  BY <1>18 DEF RollbackClean, beginVars, runVars
<1>19. CASE RollbackFinish(r)
  BY <1>19 DEF RollbackFinish, FinishRollback, Unlock, SetStatus,
               SetDecision, beginVars, gitVars
<1>20. CASE RollbackFails(r)
  BY <1>20 DEF RollbackFails, beginVars, runVars, gitVars
<1>21. CASE MarkCleanup(r)
  BY <1>21 DEF MarkCleanup, SetStatus, SetDecision, beginVars, runVars,
               gitVars
<1> QED
  BY <1>1, <1>2, <1>3, <1>4, <1>5, <1>6, <1>7, <1>8, <1>9, <1>10, <1>11,
     <1>12, <1>13, <1>14, <1>15, <1>16, <1>17, <1>18, <1>19, <1>20,
     <1>21 DEF DriverStep

(* So does the recovery, which takes the lock when it reopens a failed run. *)
LEMMA RecoveryExclusive ==
  ASSUME ~Overlap, TypeOK, ExclusiveInv, RecoveryStep
  PROVE  ExclusiveInv'
<1> USE ConstantsAssumption
    DEF TypeOK, ExclusiveInv, OpenHoldsProject, Open, Terminal, Holds, Lock,
        At, RecGoto, RecDone, RecAbort, NoRecovery, gateVars, beginVars,
        runVars, Beginning, RollingBack
<1>1. CASE RecCleanup
  BY <1>1 DEF RecCleanup, gitVars
<1>2. CASE RecResume
  BY <1>2 DEF RecResume, SetDecision, gitVars
<1>3. CASE RecMerge
  BY <1>3 DEF RecMerge
<1>4. CASE RecTidy
  BY <1>4 DEF RecTidy
<1>5. CASE RecFinalize
  <2>1. CASE UNCHANGED <<integration, lock, runVars>>
    BY <1>5, <2>1 DEF RecFinalize
  <2>2. CASE /\ Unlock(rec.run)
             /\ SetStatus(rec.run, "COMPLETED")
    BY <1>5, <2>2 DEF RecFinalize, Unlock, SetStatus
  <2> QED
    BY <1>5, <2>1, <2>2 DEF RecFinalize
<1>6. CASE RecClean
  BY <1>6 DEF RecClean
<1>7. CASE RecFinishRollback
  BY <1>7 DEF RecFinishRollback, FinishRollback, Unlock, SetStatus,
              SetDecision, gitVars
<1>8. CASE RecDemote
  BY <1>8 DEF RecDemote, SetStatus, SetDecision, gitVars
<1>9. CASE RecRollback
  BY <1>9 DEF RecRollback, StartRollback, CanRollBack, RollbackStatuses,
              Active, SetStatus, SetDecision, gitVars
<1>10. CASE RecBlock
  BY <1>10 DEF RecBlock, SetStatus, SetDecision, gitVars
<1> QED
  BY <1>1, <1>2, <1>3, <1>4, <1>5, <1>6, <1>7, <1>8, <1>9, <1>10
  DEF RecoveryStep

(* A recovery starts only on a run that has begun and whose program is dead. *)
LEMMA OutsideExclusive ==
  ASSUME ~Overlap, TypeOK, ExclusiveInv,
         \/ \E r \in Runs : DriverCrash(r) \/ SweepRecover(r)
                             \/ ForcedRecover(r) \/ Resolve(r)
         \/ RecoveryCrash \/ SweepEnd
         \/ \E p \in Projects : Drift(p)
         \/ \E pl \in Plans : RequestCancel(pl)
  PROVE  ExclusiveInv'
<1> USE ConstantsAssumption
    DEF TypeOK, ExclusiveInv, OpenHoldsProject, Open, Holds, Lock, beginVars,
        runVars, Beginning, RollingBack
<1>1. ASSUME NEW r \in Runs, DriverCrash(r) PROVE ExclusiveInv'
  BY <1>1 DEF DriverCrash, Goto, recVars
<1>2. ASSUME NEW r \in Runs, SweepRecover(r) \/ ForcedRecover(r) \/ Resolve(r)
      PROVE  ExclusiveInv'
  <2>1. pc[r] = "idle" /\ status[r] # "NONE"
    BY <1>2 DEF SweepRecover, ForcedRecover, Resolve, NextInSweep,
                Recoverable, RecoveryFree, Active
  <2>2. rec'.run = r
    BY <1>2 DEF SweepRecover, ForcedRecover, Resolve, Assess
  <2>3. UNCHANGED <<status, lock, snapshot, pc>>
    BY <1>2 DEF SweepRecover, ForcedRecover, Resolve
  <2> QED
    BY <2>1, <2>2, <2>3
<1>3. CASE RecoveryCrash \/ SweepEnd
  BY <1>3 DEF RecoveryCrash, SweepEnd, NoRecovery
<1>4. ASSUME NEW p \in Projects, Drift(p) PROVE ExclusiveInv'
  BY <1>4 DEF Drift, procVars
<1>5. ASSUME NEW pl \in Plans, RequestCancel(pl) PROVE ExclusiveInv'
  BY <1>5 DEF RequestCancel, procVars
<1> QED
  BY <1>1, <1>2, <1>3, <1>4, <1>5

(* All of it holds in every reachable state.                               *)
LEMMA ExclusiveInductive ==
  ASSUME ~Overlap
  PROVE  Spec => []ExclusiveInv
<1>1. Init => ExclusiveInv
  BY ConstantsAssumption
  DEF Init, ExclusiveInv, OpenHoldsProject, Open, NoRecovery, Beginning, RollingBack
<1>2. TypeOK /\ ExclusiveInv /\ [Next]_vars => ExclusiveInv'
  <2> SUFFICES ASSUME TypeOK, ExclusiveInv, [Next]_vars PROVE ExclusiveInv'
    OBVIOUS
  <2>1. CASE UNCHANGED vars
    BY <2>1 DEF vars, ExclusiveInv, OpenHoldsProject, Open, Holds, Lock
  <2>2. CASE Next
    BY <2>2, StartExclusive, DriverExclusive, RecoveryExclusive,
       OutsideExclusive DEF Next
  <2> QED
    BY <2>1, <2>2
<1> QED
  BY <1>1, <1>2, TypeCorrect, PTL DEF Spec

(* Every run between begin and its terminal status holds its project, with  *)
(* any number of runs, failed begins and deaths, provided that the recovery *)
(* only takes runs whose programs are dead.                                *)
THEOREM ProjectIsHeld ==
  ASSUME ~Overlap
  PROVE  Spec => []OpenHoldsProject
<1>1. ExclusiveInv => OpenHoldsProject
  BY DEF ExclusiveInv
<1> QED
  BY <1>1, ExclusiveInductive, PTL

(* One active write transaction per project (docs/ARCHITECTURE.md:30): the  *)
(* one lock of a project cannot be held by two open runs.                   *)
THEOREM OneWriterPerProject ==
  ASSUME ~Overlap
  PROVE  Spec => []OneWriter
<1>1. OpenHoldsProject => OneWriter
  BY DEF OpenHoldsProject, OneWriter, Holds, Lock
<1> QED
  BY <1>1, ProjectIsHeld, PTL
-----------------------------------------------------------------------------
(* What each program knows of the row it works on, when the recovery meets  *)
(* no live process.                                                        *)

Published == {"tidy", "finalize", "retry", "refinalize"}
Tidied    == {"finalize", "refinalize"}

(* A program that was started on a run still finds the status it was        *)
(* started on, or the one it wrote; past the merge, the result is on the    *)
(* branch, and past the cleanup the worktree is gone.                      *)
DriverMatchesRun ==
  \A r \in Runs :
    /\ pc[r] \in {"work", "work.finish", "submit"} => status[r] = "RUNNING"
    /\ pc[r] \in {"review", "apply"} => status[r] = "REVIEWING"
    /\ pc[r] \in Integrating => status[r] = "COMMITTING"
    /\ pc[r] \in Published => r \in main[ProjectOf[r]]
    /\ pc[r] \in Tidied => worktree[r] = "absent"
    /\ pc[r] \in {"rollback.clean", "rollback.finish"}
         => status[r] = "RECOVERING"
    /\ pc[r] = "cleanup" => Open(r)

(* So does the recovery: what its assessment saw is still true when it      *)
(* acts, so only a COMMITTING run is merged and finalized, and only one     *)
(* that never got its snapshot is rolled back without one.                 *)
RecoveryMatchesRun ==
  /\ rec.run = NoRun <=> rec.step = "idle"
  /\ rec.step # "idle" => rec.seen \in Active /\ status[rec.run] \in Active
  /\ rec.step \notin {"idle", "rollback", "rollback.clean", "rollback.finish"}
       => status[rec.run] = rec.seen
  /\ rec.step = "cleanup" /\ rec.bare => rec.seen = "SNAPSHOTTING"
  /\ rec.step \in {"bare.clean", "bare.finish"} => rec.seen = "SNAPSHOTTING"
  /\ rec.step = "cleanup" /\ rec.decision = "RESUME_SAFE"
       => rec.seen \in {"RUNNING", "REVIEWING", "COMMITTING"}
  /\ rec.step \in {"merge", "tidy", "finalize"} => rec.seen = "COMMITTING"
  /\ rec.step \in {"tidy", "finalize"} => rec.run \in main[ProjectOf[rec.run]]
  /\ rec.step = "finalize" => worktree[rec.run] = "absent"
  /\ rec.step \in {"rollback.clean", "rollback.finish"}
       => status[rec.run] = "RECOVERING"

StageInv == DriverMatchesRun /\ RecoveryMatchesRun

(* The rows of a run agree: its integration and its gate with its status,   *)
(* and a run whose begin failed is without its lock, so that only the gate  *)
(* of a recovery can take the project for it again.                        *)
RowsInv ==
  /\ IntegrationMatchesRun
  /\ GateIsLive
  /\ \A r \in Runs : status[r] = "FAILED" => ~Holds(r)

(* A program is started on the status it needs, and only where the recovery *)
(* is not at work.                                                         *)
LEMMA StartStage ==
  ASSUME ~Overlap, TypeOK, ExclusiveInv, StageInv,
         NEW r \in Runs, DriverStart(r)
  PROVE  StageInv'
<1> USE ConstantsAssumption
    DEF TypeOK, ExclusiveInv, StageInv, DriverMatchesRun, RecoveryMatchesRun,
        Published, Tidied, OpenHoldsProject, Open, Terminal, Active, Holds,
        Lock, Goto, SetStatus, SetDecision, runVars, beginVars, gitVars,
        gateVars, recVars, Beginning, RollingBack, Integrating, DriverFree
<1>1. CASE BeginReserve(r)
  BY <1>1 DEF BeginReserve, ProjectFree
<1>2. CASE WorkReserve(r)
  BY <1>2 DEF WorkReserve, Loadable
<1>3. CASE SubmitCheck(r)
  BY <1>3 DEF SubmitCheck
<1>4. CASE ReviewReserve(r)
  BY <1>4 DEF ReviewReserve, Loadable
<1>5. CASE ApplyCheck(r)
  BY <1>5 DEF ApplyCheck
<1>6. CASE RollbackStart(r)
  BY <1>6 DEF RollbackStart, StartRollback, CanRollBack, RollbackStatuses
<1>7. CASE RollbackRefused(r)
  BY <1>7 DEF RollbackRefused
<1> QED
  BY <1>1, <1>2, <1>3, <1>4, <1>5, <1>6, <1>7 DEF DriverStart

(* A program that goes on meets what it left behind.                        *)
LEMMA DriverStage ==
  ASSUME ~Overlap, TypeOK, ExclusiveInv, StageInv,
         NEW r \in Runs, DriverStep(r)
  PROVE  StageInv'
<1> USE ConstantsAssumption
    DEF TypeOK, ExclusiveInv, StageInv, DriverMatchesRun, RecoveryMatchesRun,
        Published, Tidied, OpenHoldsProject, Open, Terminal, Active, Holds,
        Lock, Goto, SetStatus, SetDecision, runVars, beginVars, gitVars,
        gateVars, recVars, Beginning, RollingBack, Integrating
<1>1. CASE BeginWorktree(r)
  BY <1>1 DEF BeginWorktree
<1>2. CASE BeginRecord(r)
  BY <1>2 DEF BeginRecord
<1>3. CASE BeginFails(r)
  BY <1>3 DEF BeginFails, RemoveWorktree
<1>4. CASE BeginUndo(r)
  BY <1>4 DEF BeginUndo, Unlock
<1>5. CASE WorkImport(r)
  BY <1>5 DEF WorkImport
<1>6. CASE WorkFinish(r)
  BY <1>6 DEF WorkFinish
<1>7. CASE SubmitRecord(r)
  BY <1>7 DEF SubmitRecord
<1>8. CASE ReviewFinish(r)
  BY <1>8 DEF ReviewFinish
<1>9. CASE ApplyRefused(r)
  BY <1>9 DEF ApplyRefused
<1>10. CASE ApplyReject(r)
  BY <1>10 DEF ApplyReject
<1>11. CASE ApplyBlock(r)
  BY <1>11 DEF ApplyBlock, Authorized, StillOpen
<1>12. CASE ApplyPrepare(r)
  BY <1>12 DEF ApplyPrepare, Authorized, StillOpen, MayIntegrate
<1>13. CASE ApplyMerge(r)
  BY <1>13 DEF ApplyMerge, FastForward
<1>14. CASE ApplyTidy(r)
  BY <1>14 DEF ApplyTidy, RemoveWorktree
<1>15. CASE ApplyFinalize(r)
  BY <1>15 DEF ApplyFinalize, Unlock
<1>16. CASE ApplyError(r)
  BY <1>16 DEF ApplyError, AtResult
<1>17. CASE MarkAmbiguous(r)
  BY <1>17 DEF MarkAmbiguous
<1>18. CASE RollbackClean(r)
  BY <1>18 DEF RollbackClean, RemoveWorktree
<1>19. CASE RollbackFinish(r)
  BY <1>19 DEF RollbackFinish, FinishRollback, Unlock, CancelApproval
<1>20. CASE RollbackFails(r)
  BY <1>20 DEF RollbackFails
<1>21. CASE MarkCleanup(r)
  BY <1>21 DEF MarkCleanup, FailPrepared, CancelApproval
<1> QED
  BY <1>1, <1>2, <1>3, <1>4, <1>5, <1>6, <1>7, <1>8, <1>9, <1>10, <1>11,
     <1>12, <1>13, <1>14, <1>15, <1>16, <1>17, <1>18, <1>19, <1>20,
     <1>21 DEF DriverStep

(* So does the recovery: nobody touches its run between two of its steps.   *)
LEMMA RecoveryStage ==
  ASSUME ~Overlap, TypeOK, ExclusiveInv, StageInv,
         RecoveryInv, RecoveryStep
  PROVE  StageInv'
<1> USE ConstantsAssumption
    DEF TypeOK, ExclusiveInv, StageInv, DriverMatchesRun, RecoveryMatchesRun,
        Published, Tidied, OpenHoldsProject, Open, Terminal, Active, Holds,
        Lock, Goto, SetStatus, SetDecision, runVars, beginVars, gitVars,
        gateVars, recVars, Beginning, RollingBack, Integrating, At, RecGoto,
        RecDone, RecAbort, NoRecovery, AbandonTask
<1>1. CASE RecCleanup
  BY <1>1 DEF RecCleanup
<1>2. CASE RecResume
  BY <1>2 DEF RecResume
<1>3. CASE RecMerge
  <2>1. CASE rec' = NoRecovery /\ UNCHANGED main
    BY <1>3, <2>1 DEF RecMerge
  <2>2. CASE FastForward(rec.run) /\ RecGoto("tidy")
    <3>1. rec.run \in main'[ProjectOf[rec.run]]
      BY <1>3, <2>2 DEF RecMerge, FastForward
    <3>2. \A q \in Runs : q \in main[ProjectOf[q]] => q \in main'[ProjectOf[q]]
      BY <1>3, <2>2 DEF RecMerge, FastForward
    <3> QED
      BY <1>3, <2>2, <3>1, <3>2 DEF RecMerge
  <2> QED
    BY <1>3, <2>1, <2>2 DEF RecMerge
<1>4. CASE RecTidy
  BY <1>4 DEF RecTidy, RemoveWorktree
<1>5. CASE RecFinalize
  BY <1>5 DEF RecFinalize, Unlock
<1>6. CASE RecClean
  BY <1>6 DEF RecClean, RemoveWorktree
<1>7. CASE RecFinishRollback
  BY <1>7 DEF RecFinishRollback, FinishRollback, Unlock, CancelApproval
<1>8. CASE RecDemote
  BY <1>8 DEF RecDemote, FailPrepared
<1>9. CASE RecRollback
  BY <1>9 DEF RecRollback, StartRollback, CanRollBack, RollbackStatuses
<1>10. CASE RecBlock
  BY <1>10 DEF RecBlock, FailPrepared
<1> QED
  BY <1>1, <1>2, <1>3, <1>4, <1>5, <1>6, <1>7, <1>8, <1>9,
     <1>10 DEF RecoveryStep

(* Starting a program leaves the rows in agreement: a rollback keeps the    *)
(* lock and the gate of a waiting run until it has finished.               *)
LEMMA StartRows ==
  ASSUME ~Overlap, TypeOK, ExclusiveInv, StageInv, RowsInv,
         NEW r \in Runs, DriverStart(r)
  PROVE  RowsInv'
<1> USE ConstantsAssumption
    DEF TypeOK, ExclusiveInv, IntegrationMatchesRun, GateIsLive, RowsInv,
        StageInv, DriverMatchesRun, RecoveryMatchesRun, Published, Tidied,
        OpenHoldsProject, Open, Terminal, Active, Holds, Lock, Goto,
        SetStatus, SetDecision, runVars, beginVars, gitVars, gateVars,
        recVars, Beginning, RollingBack, Integrating, DriverFree
<1>1. CASE BeginReserve(r)
  BY <1>1 DEF BeginReserve, ProjectFree
<1>2. CASE WorkReserve(r)
  BY <1>2 DEF WorkReserve, Loadable
<1>3. CASE SubmitCheck(r)
  BY <1>3 DEF SubmitCheck
<1>4. CASE ReviewReserve(r)
  BY <1>4 DEF ReviewReserve, Loadable
<1>5. CASE ApplyCheck(r)
  BY <1>5 DEF ApplyCheck
<1>6. CASE RollbackStart(r)
  BY <1>6 DEF RollbackStart, StartRollback, CanRollBack, RollbackStatuses
<1>7. CASE RollbackRefused(r)
  BY <1>7 DEF RollbackRefused
<1> QED
  BY <1>1, <1>2, <1>3, <1>4, <1>5, <1>6, <1>7 DEF DriverStart

(* So does every transaction that ends an integration, opens or closes a    *)
(* gate, or gives the lock back.                                           *)
LEMMA DriverRows ==
  ASSUME ~Overlap, TypeOK, ExclusiveInv, StageInv, RowsInv,
         NEW r \in Runs, DriverStep(r)
  PROVE  RowsInv'
<1> USE ConstantsAssumption
    DEF TypeOK, ExclusiveInv, IntegrationMatchesRun, GateIsLive, RowsInv,
        StageInv, DriverMatchesRun, RecoveryMatchesRun, Published, Tidied,
        OpenHoldsProject, Open, Terminal, Active, Holds, Lock, Goto,
        SetStatus, SetDecision, runVars, beginVars, gitVars, gateVars,
        recVars, Beginning, RollingBack, Integrating
<1>1. CASE BeginWorktree(r)
  BY <1>1 DEF BeginWorktree
<1>2. CASE BeginRecord(r)
  BY <1>2 DEF BeginRecord
<1>3. CASE BeginFails(r)
  BY <1>3 DEF BeginFails, RemoveWorktree
<1>4. CASE BeginUndo(r)
  BY <1>4 DEF BeginUndo, Unlock
<1>5. CASE WorkImport(r)
  BY <1>5 DEF WorkImport
<1>6. CASE WorkFinish(r)
  BY <1>6 DEF WorkFinish
<1>7. CASE SubmitRecord(r)
  BY <1>7 DEF SubmitRecord
<1>8. CASE ReviewFinish(r)
  BY <1>8 DEF ReviewFinish
<1>9. CASE ApplyRefused(r)
  BY <1>9 DEF ApplyRefused
<1>10. CASE ApplyReject(r)
  BY <1>10 DEF ApplyReject
<1>11. CASE ApplyBlock(r)
  BY <1>11 DEF ApplyBlock, Authorized, StillOpen
<1>12. CASE ApplyPrepare(r)
  BY <1>12 DEF ApplyPrepare, Authorized, StillOpen, MayIntegrate
<1>13. CASE ApplyMerge(r)
  BY <1>13 DEF ApplyMerge, FastForward
<1>14. CASE ApplyTidy(r)
  BY <1>14 DEF ApplyTidy, RemoveWorktree
<1>15. CASE ApplyFinalize(r)
  BY <1>15 DEF ApplyFinalize, Unlock
<1>16. CASE ApplyError(r)
  BY <1>16 DEF ApplyError, AtResult
<1>17. CASE MarkAmbiguous(r)
  BY <1>17 DEF MarkAmbiguous
<1>18. CASE RollbackClean(r)
  BY <1>18 DEF RollbackClean, RemoveWorktree
<1>19. CASE RollbackFinish(r)
  BY <1>19 DEF RollbackFinish, FinishRollback, Unlock, CancelApproval
<1>20. CASE RollbackFails(r)
  BY <1>20 DEF RollbackFails
<1>21. CASE MarkCleanup(r)
  BY <1>21 DEF MarkCleanup, FailPrepared, CancelApproval
<1> QED
  BY <1>1, <1>2, <1>3, <1>4, <1>5, <1>6, <1>7, <1>8, <1>9, <1>10, <1>11,
     <1>12, <1>13, <1>14, <1>15, <1>16, <1>17, <1>18, <1>19, <1>20,
     <1>21 DEF DriverStep

(* And every one of the recovery, which fails the PREPARED row of a run it  *)
(* takes out of COMMITTING and gives a gate to no run but a lock holder.   *)
LEMMA RecoveryRows ==
  ASSUME ~Overlap, TypeOK, ExclusiveInv, StageInv, RowsInv,
         RecoveryInv, RecoveryStep
  PROVE  RowsInv'
<1> USE ConstantsAssumption
    DEF TypeOK, ExclusiveInv, IntegrationMatchesRun, GateIsLive, RowsInv,
        StageInv, DriverMatchesRun, RecoveryMatchesRun, Published, Tidied,
        OpenHoldsProject, Open, Terminal, Active, Holds, Lock, Goto,
        SetStatus, SetDecision, runVars, beginVars, gitVars, gateVars,
        recVars, Beginning, RollingBack, Integrating, At, RecGoto, RecDone, RecAbort, NoRecovery,
        AbandonTask
<1>1. CASE RecCleanup
  BY <1>1 DEF RecCleanup
<1>2. CASE RecResume
  BY <1>2 DEF RecResume
<1>3. CASE RecMerge
  BY <1>3 DEF RecMerge, FastForward
<1>4. CASE RecTidy
  BY <1>4 DEF RecTidy, RemoveWorktree
<1>5. CASE RecFinalize
  <2>1. CASE UNCHANGED <<integration, lock, runVars>>
    BY <1>5, <2>1 DEF RecFinalize
  <2>2. CASE /\ integration' = [integration EXCEPT ![rec.run] = "COMPLETED"]
             /\ Unlock(rec.run)
             /\ SetStatus(rec.run, "COMPLETED")
    BY <1>5, <2>2 DEF RecFinalize, Unlock
  <2> QED
    BY <1>5, <2>1, <2>2 DEF RecFinalize
<1>6. CASE RecClean
  BY <1>6 DEF RecClean, RemoveWorktree
<1>7. CASE RecFinishRollback
  BY <1>7 DEF RecFinishRollback, FinishRollback, Unlock, CancelApproval
<1>8. CASE RecDemote
  BY <1>8 DEF RecDemote, FailPrepared
<1>9. CASE RecRollback
  BY <1>9 DEF RecRollback, StartRollback, CanRollBack, RollbackStatuses
<1>10. CASE RecBlock
  <2>1. CASE UNCHANGED <<lock, approval, integration, runVars>>
    BY <1>10, <2>1 DEF RecBlock
  <2>2. CASE /\ lock' = [lock EXCEPT ![ProjectOf[rec.run]] = rec.run]
             /\ Lock(rec.run) \in {NoRun, rec.run}
             /\ approval' = [approval EXCEPT ![rec.run] = "PENDING"]
             /\ FailPrepared(rec.run)
             /\ SetStatus(rec.run, "WAITING_HUMAN")
    <3>1. UNCHANGED <<main, worktree>> /\ rec.run \in Runs
      BY <1>10 DEF RecBlock
    <3>2. status[rec.run] # "COMPLETED"
      BY <1>10 DEF RecBlock
    <3>3. IntegrationMatchesRun'
      BY <2>2, <3>1, <3>2 DEF FailPrepared
    <3>4. GateIsLive'
      BY <2>2
    <3>5. \A q \in Runs : status'[q] = "FAILED" => lock'[ProjectOf[q]] # q
      BY <2>2
    <3> QED
      BY <3>3, <3>4, <3>5
  <2> QED
    BY <1>10, <2>1, <2>2 DEF RecBlock
<1> QED
  BY <1>1, <1>2, <1>3, <1>4, <1>5, <1>6, <1>7, <1>8, <1>9,
     <1>10 DEF RecoveryStep

(* The recovery starts from what it sees: RESUME_SAFE is said of a run that *)
(* is working, under review or being integrated, never of an ambiguous one. *)
LEMMA AssessStage ==
  ASSUME TypeOK, StageInv, RecoveringIsDecided, NEW r \in Runs,
         NEW b \in BOOLEAN, status[r] \in Active, Assess(r, b), UNCHANGED status
  PROVE  RecoveryMatchesRun'
<1> PICK usable \in BOOLEAN :
      rec' = [run |-> r, step |-> "cleanup",
              decision |-> IF usable THEN Assessment(r) ELSE "BLOCK_HUMAN",
              seen |-> status[r],
              bare |-> status[r] = "SNAPSHOTTING" /\ ~snapshot[r],
              sweep |-> b]
  BY DEF Assess
<1>1. ResumeSafe(r) => status[r] \in {"RUNNING", "REVIEWING", "COMMITTING"}
  BY DEF ResumeSafe, RecoveringIsDecided
<1>2. rec'.decision = "RESUME_SAFE" => ResumeSafe(r)
  BY DEF Assessment
<1> QED
  BY <1>1, <1>2, ConstantsAssumption DEF RecoveryMatchesRun

(* Deaths, new recoveries and the environment keep both: an outside commit  *)
(* removes no result from a branch.                                        *)
LEMMA OutsideStage ==
  ASSUME ~Overlap, TypeOK, ExclusiveInv, RecoveryInv, StageInv, RowsInv,
         \/ \E r \in Runs : DriverCrash(r) \/ SweepRecover(r)
                             \/ ForcedRecover(r) \/ Resolve(r)
         \/ RecoveryCrash \/ SweepEnd
         \/ \E p \in Projects : Drift(p)
         \/ \E pl \in Plans : RequestCancel(pl)
  PROVE  StageInv' /\ RowsInv'
<1> USE ConstantsAssumption
    DEF TypeOK, StageInv, DriverMatchesRun, RowsInv,
        IntegrationMatchesRun, GateIsLive, Open, Terminal, Holds, Lock,
        beginVars, runVars, Integrating, Published, Tidied
<1>1. ASSUME NEW r \in Runs, DriverCrash(r)
      PROVE  StageInv' /\ RowsInv'
  BY <1>1 DEF DriverCrash, Goto, recVars, gitVars, gateVars, RecoveryMatchesRun
<1>2. ASSUME NEW r \in Runs, SweepRecover(r) \/ ForcedRecover(r) \/ Resolve(r)
      PROVE  StageInv' /\ RowsInv'
  <2>1. /\ Assess(r, TRUE) \/ Assess(r, FALSE)
        /\ status[r] \in Active
        /\ UNCHANGED <<status, integration, approval, lock, main, worktree,
                       pc>>
    BY <1>2 DEF SweepRecover, ForcedRecover, Resolve, NextInSweep,
                Recoverable, gitVars, gateVars
  <2>2. RecoveryMatchesRun'
    BY <2>1, AssessStage DEF RecoveryInv
  <2> QED
    BY <2>1, <2>2
<1>3. CASE RecoveryCrash \/ SweepEnd
  BY <1>3 DEF RecoveryCrash, SweepEnd, NoRecovery, gitVars, gateVars,
       RecoveryMatchesRun
<1>4. ASSUME NEW p \in Projects, Drift(p)
      PROVE  StageInv' /\ RowsInv'
  <2>1. \A q \in Runs : q \in main[ProjectOf[q]] => q \in main'[ProjectOf[q]]
    BY <1>4 DEF Drift
  <2> QED
    BY <1>4, <2>1 DEF Drift, procVars, gateVars, RecoveryMatchesRun
<1>5. ASSUME NEW pl \in Plans, RequestCancel(pl)
      PROVE  StageInv' /\ RowsInv'
  BY <1>5 DEF RequestCancel, procVars, gitVars, RecoveryMatchesRun
<1> QED
  BY <1>1, <1>2, <1>3, <1>4, <1>5

(* Both hold in every reachable state.                                     *)
LEMMA StageInductive ==
  ASSUME ~Overlap
  PROVE  Spec => [](StageInv /\ RowsInv)
<1>1. Init => StageInv /\ RowsInv
  BY ConstantsAssumption
  DEF Init, StageInv, DriverMatchesRun, RecoveryMatchesRun, RowsInv,
      IntegrationMatchesRun, GateIsLive, Holds, Lock, NoRecovery, Integrating,
      Published, Tidied
<1>2. TypeOK /\ RecoveryInv /\ ExclusiveInv /\ StageInv /\ RowsInv /\ [Next]_vars
        => (StageInv /\ RowsInv)'
  <2> SUFFICES ASSUME TypeOK, RecoveryInv, ExclusiveInv, StageInv, RowsInv,
                      [Next]_vars
               PROVE  StageInv' /\ RowsInv'
    OBVIOUS
  <2>1. CASE UNCHANGED vars
    BY <2>1
    DEF vars, StageInv, DriverMatchesRun, RecoveryMatchesRun, RowsInv,
        IntegrationMatchesRun, GateIsLive, Open, Holds, Lock
  <2>2. CASE Next
    BY <2>2, StartStage, DriverStage, RecoveryStage, StartRows, DriverRows,
       RecoveryRows, OutsideStage DEF Next
  <2> QED
    BY <2>1, <2>2
<1> QED
  BY <1>1, <1>2, TypeCorrect, ApprovedInductive, ExclusiveInductive,
     PTL DEF Spec

(* The integration row and the run row tell one story through the           *)
(* integrator, its retry, an ambiguous failure and a resumed integration:   *)
(* PREPARED is COMMITTING, COMPLETED is COMPLETED, and then the result is   *)
(* on the branch and the worktree and the lock are gone.                   *)
THEOREM IntegrationMatches ==
  ASSUME ~Overlap
  PROVE  Spec => []IntegrationMatchesRun
<1>1. RowsInv => IntegrationMatchesRun
  BY DEF RowsInv
<1> QED
  BY <1>1, StageInductive, PTL

(* A pending approval always belongs to a run that holds its project and    *)
(* waits or is being rolled back, and every waiting run has one: no rollback *)
(* and no cancellation leaves a gate behind that blocks its plan for ever.  *)
THEOREM GatesAreLive ==
  ASSUME ~Overlap
  PROVE  Spec => []GateIsLive
<1>1. RowsInv => GateIsLive
  BY DEF RowsInv
<1> QED
  BY <1>1, StageInductive, PTL

-----------------------------------------------------------------------------
(* The life of a run as the orchestrator sees it. *)

Begun == {"SNAPSHOTTING", "RUNNING", "REVIEWING"}

(* A statement that changes runs.status, with the values that it meets.     *)
StatusMove(r) ==
  \/ UNCHANGED status
  \/ status[r] = "NONE" /\ SetStatus(r, "SNAPSHOTTING")
  \/ /\ status[r] \in Begun
     /\ \E s \in Begun \cup {"FAILED", "WAITING_HUMAN", "COMMITTING",
                             "RECOVERING", "CANCELLED"} : SetStatus(r, s)
  \/ /\ status[r] = "COMMITTING"
     /\ \E s \in {"COMPLETED", "RECOVERING", "WAITING_HUMAN"} : SetStatus(r, s)
  \/ /\ status[r] = "WAITING_HUMAN"
     /\ \E s \in {"WAITING_HUMAN", "RECOVERING"} : SetStatus(r, s)
  \/ /\ status[r] = "RECOVERING"
     /\ \E s \in {"RECOVERING", "CANCELLED", "WAITING_HUMAN"} : SetStatus(r, s)
  \/ status[r] = "FAILED" /\ SetStatus(r, "WAITING_HUMAN")

LifecycleStep == [Lifecycle!Next]_([r \in Runs |-> Coarse(r)])

(* Every such statement is a move of RunLifecycle, or one within "open",    *)
(* "waiting" or "recovering".                                              *)
LEMMA MoveOfLife ==
  ASSUME TypeOK, NEW r \in Runs, StatusMove(r)
  PROVE  LifecycleStep
<1> DEFINE phase == [q \in Runs |-> Coarse(q)]
<1>1. CASE UNCHANGED status
  BY <1>1 DEF LifecycleStep, Coarse
<1>2. ASSUME NEW s \in Statuses, SetStatus(r, s)
      PROVE  /\ \A q \in Runs \ {r} : Coarse(q)' = Coarse(q)
             /\ status'[r] = s
  BY <1>2 DEF TypeOK, SetStatus, Coarse
<1>3. ASSUME NEW s \in Statuses, SetStatus(r, s),
             \/ Coarse(r)' = Coarse(r)
             \/ <<Coarse(r), Coarse(r)'>> \in Lifecycle!Moves
      PROVE  LifecycleStep
  <2>1. phase' = [phase EXCEPT ![r] = phase'[r]]
    BY <1>2, <1>3
  <2>2. phase[r] = Coarse(r) /\ phase'[r] = Coarse(r)'
    OBVIOUS
  <2>3. CASE Coarse(r)' = Coarse(r)
    <3>1. phase' = phase
      BY <2>1, <2>2, <2>3
    <3> QED
      BY <3>1 DEF LifecycleStep
  <2>4. CASE <<Coarse(r), Coarse(r)'>> \in Lifecycle!Moves
    <3>1. Lifecycle!Next
      BY <2>1, <2>2, <2>4 DEF Lifecycle!Next
    <3> QED
      BY <3>1 DEF LifecycleStep
  <2> QED
    BY <1>3, <2>3, <2>4
<1> USE DEF Statuses, Begun, Lifecycle!Moves, Lifecycle!DriverMoves,
            Lifecycle!RecoveryMoves, Lifecycle!Holding
<1>4. CASE status[r] = "NONE" /\ SetStatus(r, "SNAPSHOTTING")
  <2>1. Coarse(r) = "none" /\ Coarse(r)' = "open"
    BY <1>2, <1>4 DEF Coarse
  <2> QED
    BY <1>3, <1>4, <2>1
<1>5. ASSUME status[r] \in Begun,
             NEW s \in Begun \cup {"FAILED", "WAITING_HUMAN", "COMMITTING",
                                    "RECOVERING", "CANCELLED"}, SetStatus(r, s)
      PROVE  LifecycleStep
  <2>1. /\ Coarse(r) = "open"
        /\ Coarse(r)' \in {"open", "failed", "waiting", "committing",
                            "recovering", "cancelled"}
    BY <1>2, <1>5 DEF Coarse
  <2> QED
    BY <1>3, <1>5, <2>1
<1>6. ASSUME status[r] = "COMMITTING",
             NEW s \in {"COMPLETED", "RECOVERING", "WAITING_HUMAN"},
             SetStatus(r, s)
      PROVE  LifecycleStep
  <2>1. /\ Coarse(r) = "committing"
        /\ Coarse(r)' \in {"completed", "recovering", "waiting"}
    BY <1>2, <1>6 DEF Coarse
  <2> QED
    BY <1>3, <1>6, <2>1
<1>7. ASSUME status[r] = "WAITING_HUMAN",
             NEW s \in {"WAITING_HUMAN", "RECOVERING"}, SetStatus(r, s)
      PROVE  LifecycleStep
  <2>1. Coarse(r) = "waiting" /\ Coarse(r)' \in {"waiting", "recovering"}
    BY <1>2, <1>7 DEF Coarse
  <2> QED
    BY <1>3, <1>7, <2>1
<1>8. ASSUME status[r] = "RECOVERING",
             NEW s \in {"RECOVERING", "CANCELLED", "WAITING_HUMAN"},
             SetStatus(r, s)
      PROVE  LifecycleStep
  <2>1. /\ Coarse(r) = "recovering"
        /\ Coarse(r)' \in {"recovering", "cancelled", "waiting"}
    BY <1>2, <1>8 DEF Coarse
  <2> QED
    BY <1>3, <1>8, <2>1
<1>9. CASE status[r] = "FAILED" /\ SetStatus(r, "WAITING_HUMAN")
  <2>1. Coarse(r) = "failed" /\ Coarse(r)' = "waiting"
    BY <1>2, <1>9 DEF Coarse
  <2> QED
    BY <1>3, <1>9, <2>1
<1> QED
  BY <1>1, <1>4, <1>5, <1>6, <1>7, <1>8, <1>9 DEF StatusMove

(* The programs change runs.status in no other way.                         *)
LEMMA DriverMove ==
  ASSUME TypeOK, ExclusiveInv, StageInv, NEW r \in Runs,
         DriverStart(r) \/ DriverStep(r)
  PROVE  StatusMove(r)
<1> USE DEF StatusMove, Begun, SetStatus, runVars, ExclusiveInv, StageInv,
            DriverMatchesRun, RecoveryMatchesRun, Open, Terminal, Active,
            Beginning, RollingBack, Integrating, TypeOK, Statuses
<1>1. CASE \/ WorkReserve(r) \/ SubmitCheck(r) \/ ReviewReserve(r)
           \/ ApplyCheck(r) \/ RollbackRefused(r) \/ BeginWorktree(r)
           \/ BeginFails(r) \/ WorkImport(r) \/ WorkFinish(r)
           \/ ReviewFinish(r) \/ ApplyRefused(r) \/ ApplyReject(r)
           \/ ApplyMerge(r) \/ ApplyTidy(r) \/ ApplyError(r)
           \/ RollbackClean(r) \/ RollbackFails(r)
  BY <1>1 DEF WorkReserve, SubmitCheck, ReviewReserve, ApplyCheck,
       RollbackRefused, BeginWorktree, BeginFails, WorkImport, WorkFinish,
       ReviewFinish, ApplyRefused, ApplyReject, ApplyMerge, ApplyTidy,
       ApplyError, RollbackClean, RollbackFails
<1>2. CASE BeginReserve(r)
  BY <1>2 DEF BeginReserve
<1>3. CASE RollbackStart(r)
  BY <1>3 DEF RollbackStart, StartRollback, CanRollBack, RollbackStatuses
<1>4. CASE BeginRecord(r)
  BY <1>4 DEF BeginRecord
<1>5. CASE BeginUndo(r)
  BY <1>5 DEF BeginUndo
<1>6. CASE SubmitRecord(r)
  BY <1>6 DEF SubmitRecord
<1>7. CASE ApplyBlock(r)
  BY <1>7 DEF ApplyBlock, Authorized, StillOpen
<1>8. CASE ApplyPrepare(r)
  BY <1>8 DEF ApplyPrepare, Authorized, StillOpen
<1>9. CASE ApplyFinalize(r)
  BY <1>9 DEF ApplyFinalize
<1>10. CASE MarkAmbiguous(r)
  BY <1>10 DEF MarkAmbiguous
<1>11. CASE RollbackFinish(r)
  BY <1>11 DEF RollbackFinish, FinishRollback
<1>12. CASE MarkCleanup(r)
  BY <1>12 DEF MarkCleanup
<1> QED
  BY <1>1, <1>2, <1>3, <1>4, <1>5, <1>6, <1>7, <1>8, <1>9, <1>10, <1>11,
     <1>12 DEF DriverStart, DriverStep

(* Nor does the recovery.                                                   *)
LEMMA RecoveryMove ==
  ASSUME TypeOK, ExclusiveInv, StageInv, RecoveryStep
  PROVE  rec.run \in Runs /\ StatusMove(rec.run)
<1> USE DEF StatusMove, Begun, SetStatus, runVars, ExclusiveInv, StageInv,
            DriverMatchesRun, RecoveryMatchesRun, Open, Terminal, Active,
            Beginning, RollingBack, Integrating, TypeOK, Statuses, At
<1>1. CASE RecCleanup \/ RecResume \/ RecMerge \/ RecTidy \/ RecClean
  BY <1>1 DEF RecCleanup, RecResume, RecMerge, RecTidy, RecClean
<1>2. CASE RecFinalize
  BY <1>2 DEF RecFinalize
<1>3. CASE RecFinishRollback
  BY <1>3 DEF RecFinishRollback, FinishRollback
<1>4. CASE RecDemote
  BY <1>4 DEF RecDemote
<1>5. CASE RecRollback
  BY <1>5 DEF RecRollback, StartRollback, CanRollBack, RollbackStatuses
<1>6. CASE RecBlock
  BY <1>6 DEF RecBlock
<1> QED
  BY <1>1, <1>2, <1>3, <1>4, <1>5, <1>6 DEF RecoveryStep

(* The programs and the recovery together move a run through begin, gate,   *)
(* integration, rollback and recovery only as RunLifecycle says.           *)
THEOREM LifecycleImplemented ==
  ASSUME ~Overlap
  PROVE  Spec => ImplementsLifecycle
<1>1. Init => Lifecycle!Init
  BY DEF Init, Lifecycle!Init, Coarse
<1>2. TypeOK /\ ExclusiveInv /\ StageInv /\ RowsInv /\ [Next]_vars
        => LifecycleStep
  <2> SUFFICES ASSUME TypeOK, ExclusiveInv, StageInv, RowsInv, [Next]_vars
               PROVE  LifecycleStep
    OBVIOUS
  <2>1. ASSUME UNCHANGED status
        PROVE  LifecycleStep
    BY <2>1 DEF LifecycleStep, Coarse
  <2>2. ASSUME NEW r \in Runs, DriverStart(r) \/ DriverStep(r)
        PROVE  LifecycleStep
    BY <2>2, DriverMove, MoveOfLife
  <2>3. CASE RecoveryStep
    BY <2>3, RecoveryMove, MoveOfLife
  <2>4. CASE \/ UNCHANGED vars
             \/ \E r \in Runs : DriverCrash(r) \/ SweepRecover(r)
                                 \/ ForcedRecover(r) \/ Resolve(r)
             \/ RecoveryCrash \/ SweepEnd
             \/ \E p \in Projects : Drift(p)
             \/ \E pl \in Plans : RequestCancel(pl)
    BY <2>1, <2>4 DEF vars, runVars, DriverCrash, SweepRecover, ForcedRecover,
       Resolve, RecoveryCrash, SweepEnd, Drift, RequestCancel
  <2> QED
    BY <2>2, <2>3, <2>4 DEF Next
<1> QED
  BY <1>1, <1>2, TypeCorrect, ExclusiveInductive, StageInductive, PTL
  DEF Spec, ImplementsLifecycle, Lifecycle!Spec, LifecycleStep

-----------------------------------------------------------------------------
(* The exclusive writer of a project. *)

WriterStep == [Writer!Next]_<<lock, main, base, [r \in Runs |-> Phase(r)]>>

(* What a statement on one status does to the phases of the abstract writer. *)
LEMMA PhaseMoves ==
  ASSUME TypeOK, NEW r \in Runs, NEW s \in Statuses, SetStatus(r, s)
  PROVE  /\ [q \in Runs |-> Phase(q)]'
              = [[q \in Runs |-> Phase(q)] EXCEPT ![r] = Phase(r)']
         /\ status'[r] = s
<1>1. status'[r] = s /\ \A q \in Runs \ {r} : status'[q] = status[q]
  BY DEF TypeOK, SetStatus
<1>2. \A q \in Runs \ {r} : Phase(q)' = Phase(q)
  BY <1>1 DEF Phase
<1> QED
  BY <1>1, <1>2

(* A step that leaves locks, branches and bases alone, and at most changes  *)
(* the status of an open run, is none of the abstract writer's.            *)
LEMMA QuietWriter ==
  ASSUME TypeOK, UNCHANGED <<lock, main, base>>,
         \/ UNCHANGED status
         \/ \E r \in Runs, s \in Statuses :
              /\ Open(r) /\ SetStatus(r, s)
              /\ s \notin {"NONE", "FAILED"} \cup Terminal
  PROVE  WriterStep
<1>1. CASE UNCHANGED status
  BY <1>1 DEF WriterStep, Phase
<1>2. ASSUME NEW r \in Runs, NEW s \in Statuses, Open(r), SetStatus(r, s),
             s \notin {"NONE", "FAILED"} \cup Terminal
      PROVE  WriterStep
  <2>1. Phase(r) = "open" /\ Phase(r)' = "open"
    BY <1>2, PhaseMoves DEF Open, Terminal, Phase
  <2>2. UNCHANGED [q \in Runs |-> Phase(q)]
    BY <1>2, <2>1, PhaseMoves
  <2> QED
    BY <2>2 DEF WriterStep
<1> QED
  BY <1>1, <1>2

(* The reservation of a project opens the run at the head of the branch.   *)
LEMMA WriterOpens ==
  ASSUME TypeOK, NEW r \in Runs, BeginReserve(r)
  PROVE  WriterStep
<1>1. Phase(r) = "new" /\ Phase(r)' = "open"
  BY PhaseMoves DEF BeginReserve, Phase, Statuses
<1>2. [q \in Runs |-> Phase(q)]' = [[q \in Runs |-> Phase(q)] EXCEPT ![r] = "open"]
  BY <1>1, PhaseMoves DEF BeginReserve, Statuses
<1>3. Writer!Open(r)
  BY <1>1, <1>2 DEF BeginReserve, ProjectFree, Lock, Writer!Open, gitVars
<1> QED
  BY <1>3 DEF WriterStep, Writer!Next

(* The result is published from the commit that the run was begun from, or  *)
(* it was already.                                                         *)
LEMMA WriterPublishes ==
  ASSUME TypeOK, NEW r \in Runs, Open(r), Holds(r), FastForward(r),
         AtBase(r) \/ AtResult(r), UNCHANGED <<status, lock, base>>
  PROVE  WriterStep
<1>1. UNCHANGED [q \in Runs |-> Phase(q)]
  BY DEF Phase
<1>2. CASE AtBase(r)
  <2>1. Phase(r) = "open"
    BY DEF Open, Terminal, Phase
  <2>2. Writer!Publish(r)
    BY <1>1, <1>2, <2>1 DEF Writer!Publish, AtBase, Holds, Lock, FastForward
  <2> QED
    BY <2>2 DEF WriterStep, Writer!Next
<1>3. CASE AtResult(r)
  <2>1. r \in main[ProjectOf[r]]
    BY <1>3 DEF AtResult
  <2>2. main' = main
    <3>1. main[ProjectOf[r]] \cup {r} = main[ProjectOf[r]]
      BY <2>1
    <3> QED
      BY <3>1 DEF FastForward, TypeOK
  <2> QED
    BY <1>1, <2>2 DEF WriterStep
<1> QED
  BY <1>2, <1>3

(* The end of an open run gives its project back: it failed to begin, was   *)
(* rolled back, or is integrated with its result on the branch.            *)
LEMMA WriterReleases ==
  ASSUME TypeOK, NEW r \in Runs, NEW s \in {"FAILED", "COMPLETED",
  "CANCELLED"},
         Open(r), Holds(r), Unlock(r), SetStatus(r, s), UNCHANGED <<main,
         base>>,
         s = "COMPLETED" => r \in main[ProjectOf[r]]
  PROVE  WriterStep
<1> DEFINE outcome == Phase(r)'
<1>1. Phase(r) = "open"
  BY DEF Open, Terminal, Phase
<1>2. /\ [q \in Runs |-> Phase(q)]' = [[q \in Runs |-> Phase(q)] EXCEPT ![r] = outcome]
      /\ status'[r] = s
  BY PhaseMoves DEF Statuses
<1>3. lock' = [lock EXCEPT ![ProjectOf[r]] = NoRun]
  BY DEF Unlock, Holds, Lock
<1>4. Writer!Release(r, outcome)
  BY <1>1, <1>2, <1>3 DEF Writer!Release, Holds, Lock
<1>5. outcome = CASE s = "FAILED" -> "failed" [] s = "COMPLETED" -> "integrated"
                  [] OTHER -> "abandoned"
  BY <1>2 DEF Phase
<1>6. Writer!Integrate(r) \/ Writer!Abandon(r) \/ Writer!Fail(r)
  BY <1>4, <1>5 DEF Writer!Integrate, Writer!Abandon, Writer!Fail
<1> QED
  BY <1>6 DEF WriterStep, Writer!Next

(* The gate of a run whose begin failed takes the free project again.      *)
LEMMA WriterRetakes ==
  ASSUME TypeOK, NEW r \in Runs, status[r] = "FAILED", Lock(r) = NoRun,
         lock' = [lock EXCEPT ![ProjectOf[r]] = r],
         SetStatus(r, "WAITING_HUMAN"), UNCHANGED <<main, base>>
  PROVE  WriterStep
<1>1. Phase(r) = "failed" /\ Phase(r)' = "open"
  BY PhaseMoves DEF Phase, Statuses
<1>2. [q \in Runs |-> Phase(q)]' = [[q \in Runs |-> Phase(q)] EXCEPT ![r] = "open"]
  BY <1>1, PhaseMoves DEF Statuses
<1>3. Writer!Retake(r)
  BY <1>1, <1>2 DEF Writer!Retake, Lock
<1> QED
  BY <1>3 DEF WriterStep, Writer!Next

(* Commits from outside are those of the abstract writer.                  *)
LEMMA WriterDrifts ==
  ASSUME TypeOK, NEW p \in Projects, Drift(p)
  PROVE  WriterStep
<1>1. UNCHANGED <<status, lock, base>>
  BY DEF Drift, runVars, beginVars
<1>2. UNCHANGED [q \in Runs |-> Phase(q)]
  BY <1>1 DEF Phase
<1>3. Writer!Drift(p)
  BY <1>1, <1>2 DEF Drift, Writer!Drift
<1> QED
  BY <1>3 DEF WriterStep, Writer!Next

(* Of the programs that are started, "begin" opens a run; the rest leave    *)
(* the abstract writer where it is.                                        *)
LEMMA StartWriter ==
  ASSUME TypeOK, ExclusiveInv, NEW r \in Runs, DriverStart(r)
  PROVE  WriterStep
<1>1. CASE BeginReserve(r)
  BY <1>1, WriterOpens
<1>2. CASE WorkReserve(r) \/ SubmitCheck(r) \/ ReviewReserve(r)
             \/ ApplyCheck(r) \/ RollbackRefused(r)
  BY <1>2, QuietWriter
  DEF WorkReserve, SubmitCheck, ReviewReserve, ApplyCheck, RollbackRefused,
      runVars, beginVars, gitVars
<1>3. CASE RollbackStart(r)
  <2>1. Open(r) /\ SetStatus(r, "RECOVERING") /\ UNCHANGED <<lock, main, base>>
    BY <1>3 DEF RollbackStart, StartRollback, CanRollBack, RollbackStatuses,
                Active, ExclusiveInv, Open, Terminal, beginVars, gitVars
  <2> QED
    BY <2>1, QuietWriter DEF Statuses, Terminal
<1> QED
  BY <1>1, <1>2, <1>3 DEF DriverStart

(* Of their steps, the merge publishes, and the end of an integration, of a *)
(* rollback or of a failed begin releases the project.                     *)
LEMMA DriverWriter ==
  ASSUME TypeOK, ExclusiveInv, StageInv, NEW r \in Runs, DriverStep(r)
  PROVE  WriterStep
<1> USE DEF runVars, beginVars, gitVars
<1>1. CASE \/ BeginWorktree(r) \/ BeginFails(r) \/ WorkImport(r)
           \/ WorkFinish(r) \/ ReviewFinish(r) \/ ApplyRefused(r)
           \/ ApplyReject(r) \/ ApplyTidy(r) \/ ApplyError(r)
           \/ RollbackClean(r) \/ RollbackFails(r)
  BY <1>1, QuietWriter
  DEF BeginWorktree, BeginFails, WorkImport, WorkFinish, ReviewFinish,
      ApplyRefused, ApplyReject, ApplyTidy, ApplyError, RollbackClean,
      RollbackFails
<1>2. CASE \/ BeginRecord(r) \/ SubmitRecord(r) \/ ApplyBlock(r)
           \/ ApplyPrepare(r) \/ MarkAmbiguous(r) \/ MarkCleanup(r)
  <2>1. UNCHANGED <<lock, main, base>>
    BY <1>2 DEF BeginRecord, SubmitRecord, ApplyBlock, ApplyPrepare,
                MarkAmbiguous, MarkCleanup
  <2>2. \/ UNCHANGED status
        \/ \E s \in Statuses : /\ Open(r) /\ SetStatus(r, s)
                               /\ s \notin {"NONE", "FAILED"} \cup Terminal
    BY <1>2
    DEF BeginRecord, SubmitRecord, ApplyBlock, ApplyPrepare, MarkAmbiguous,
        MarkCleanup, Authorized, StillOpen, ExclusiveInv, StageInv,
        DriverMatchesRun, Beginning, Open, Terminal, Statuses
  <2> QED
    BY <2>1, <2>2, QuietWriter
<1>3. CASE ApplyMerge(r)
  <2>1. Open(r) /\ Holds(r)
    BY <1>3 DEF ApplyMerge, StageInv, DriverMatchesRun, Integrating,
                ExclusiveInv, OpenHoldsProject, Open, Terminal
  <2>2. /\ FastForward(r) /\ AtBase(r)
        /\ UNCHANGED <<status, lock, base>>
    BY <1>3 DEF ApplyMerge, CanFastForward
  <2> QED
    BY <2>1, <2>2, WriterPublishes
<1>4. CASE BeginUndo(r)
  <2>1. Open(r) /\ Holds(r)
    BY <1>4 DEF BeginUndo, ExclusiveInv, Beginning, OpenHoldsProject, Open,
         Terminal
  <2> QED
    BY <1>4, <2>1, WriterReleases DEF BeginUndo
<1>5. CASE ApplyFinalize(r)
  <2>1. Open(r) /\ Holds(r) /\ r \in main[ProjectOf[r]]
    BY <1>5 DEF ApplyFinalize, StageInv, DriverMatchesRun, Published,
                ExclusiveInv, OpenHoldsProject, Open, Terminal
  <2> QED
    BY <1>5, <2>1, WriterReleases DEF ApplyFinalize
<1>6. CASE RollbackFinish(r)
  <2>1. Open(r) /\ Holds(r)
    BY <1>6 DEF RollbackFinish, StageInv, DriverMatchesRun, ExclusiveInv,
                OpenHoldsProject, Open, Terminal
  <2> QED
    BY <1>6, <2>1, WriterReleases DEF RollbackFinish, FinishRollback
<1> QED
  BY <1>1, <1>2, <1>3, <1>4, <1>5, <1>6 DEF DriverStep

(* The recovery publishes an interrupted integration if nobody did, closes  *)
(* the runs it finishes or rolls back, and retakes the project for the gate *)
(* of a run whose begin failed.                                            *)
LEMMA RecoveryWriter ==
  ASSUME TypeOK, ExclusiveInv, StageInv, RowsInv, RecoveryStep
  PROVE  WriterStep
<1> USE DEF runVars, beginVars, gitVars, At
<1>1. CASE RecCleanup \/ RecResume \/ RecTidy \/ RecClean
  BY <1>1, QuietWriter DEF RecCleanup, RecResume, RecTidy, RecClean
<1>2. CASE RecDemote \/ RecRollback
  <2>1. UNCHANGED <<lock, main, base>> /\ rec.run \in Runs
    BY <1>2 DEF RecDemote, RecRollback
  <2>2. \/ UNCHANGED status
        \/ Open(rec.run) /\ SetStatus(rec.run, "RECOVERING")
    BY <1>2 DEF RecDemote, RecRollback, StartRollback, CanRollBack,
                RollbackStatuses, Active, ExclusiveInv, Open, Terminal
  <2> QED
    BY <2>1, <2>2, QuietWriter DEF Statuses, Terminal
<1>3. CASE RecMerge
  <2>1. CASE UNCHANGED main
    BY <1>3, <2>1, QuietWriter DEF RecMerge
  <2>2. CASE FastForward(rec.run) /\ (AtBase(rec.run) \/ AtResult(rec.run))
    <3>1. Open(rec.run) /\ Holds(rec.run) /\ rec.run \in Runs
      BY <1>3 DEF RecMerge, StageInv, RecoveryMatchesRun, ExclusiveInv,
                  OpenHoldsProject, Open, Terminal
    <3> QED
      BY <1>3, <2>2, <3>1, WriterPublishes DEF RecMerge
  <2> QED
    BY <1>3, <2>1, <2>2 DEF RecMerge
<1>4. CASE RecFinalize
  <2>1. CASE UNCHANGED <<lock, status>>
    BY <1>4, <2>1, QuietWriter DEF RecFinalize
  <2>2. CASE Unlock(rec.run) /\ SetStatus(rec.run, "COMPLETED")
    <3>1. /\ Open(rec.run) /\ Holds(rec.run) /\ rec.run \in Runs
          /\ rec.run \in main[ProjectOf[rec.run]]
      BY <1>4 DEF RecFinalize, StageInv, RecoveryMatchesRun, ExclusiveInv,
                  OpenHoldsProject, Open, Terminal
    <3> QED
      BY <1>4, <2>2, <3>1, WriterReleases DEF RecFinalize
  <2> QED
    BY <1>4, <2>1, <2>2 DEF RecFinalize
<1>5. CASE RecFinishRollback
  <2>1. Open(rec.run) /\ Holds(rec.run) /\ rec.run \in Runs
    BY <1>5 DEF RecFinishRollback, StageInv, RecoveryMatchesRun, ExclusiveInv,
                OpenHoldsProject, Open, Terminal
  <2> QED
    BY <1>5, <2>1, WriterReleases DEF RecFinishRollback, FinishRollback
<1>6. CASE RecBlock
  <2>1. CASE UNCHANGED <<lock, status>>
    BY <1>6, <2>1, QuietWriter DEF RecBlock
  <2>2. CASE /\ Lock(rec.run) \in {NoRun, rec.run}
             /\ lock' = [lock EXCEPT ![ProjectOf[rec.run]] = rec.run]
             /\ SetStatus(rec.run, "WAITING_HUMAN")
    <3>1. rec.run \in Runs /\ UNCHANGED <<main, base>>
      BY <1>6 DEF RecBlock
    <3>2. status[rec.run] \in Active
      BY <1>6 DEF RecBlock, StageInv, RecoveryMatchesRun
    <3>3. CASE status[rec.run] = "FAILED"
      <4>1. Lock(rec.run) = NoRun
        BY <2>2, <3>1, <3>3 DEF RowsInv, Holds
      <4> QED
        BY <2>2, <3>1, <3>3, <4>1, WriterRetakes
    <3>4. CASE status[rec.run] # "FAILED"
      <4>1. Open(rec.run)
        BY <3>2, <3>4 DEF Open, Terminal, Active
      <4>2. Lock(rec.run) = rec.run
        BY <3>1, <4>1 DEF ExclusiveInv, OpenHoldsProject, Holds
      <4>3. lock' = lock
        BY <2>2, <4>2 DEF Lock, TypeOK
      <4> QED
        BY <2>2, <3>1, <4>1, <4>3, QuietWriter DEF Statuses, Terminal
    <3> QED
      BY <3>3, <3>4
  <2> QED
    BY <1>6, <2>1, <2>2 DEF RecBlock
<1> QED
  BY <1>1, <1>2, <1>3, <1>4, <1>5, <1>6 DEF RecoveryStep

(* The programs together are the exclusive writer of ProjectWriter.        *)
THEOREM WriterImplemented ==
  ASSUME ~Overlap
  PROVE  Spec => ImplementsWriter
<1>1. Init => Writer!Init
  BY DEF Init, Writer!Init, Phase
<1>2. TypeOK /\ ExclusiveInv /\ StageInv /\ RowsInv /\ [Next]_vars => WriterStep
  <2> SUFFICES ASSUME TypeOK, ExclusiveInv, StageInv, RowsInv, [Next]_vars
               PROVE  WriterStep
    OBVIOUS
  <2>1. ASSUME UNCHANGED <<status, lock, main, base>>
        PROVE  WriterStep
    BY <2>1, QuietWriter
  <2>2. CASE \/ UNCHANGED vars
             \/ \E r \in Runs : DriverCrash(r) \/ SweepRecover(r)
                                 \/ ForcedRecover(r) \/ Resolve(r)
             \/ RecoveryCrash \/ SweepEnd
             \/ \E pl \in Plans : RequestCancel(pl)
    BY <2>1, <2>2
    DEF vars, runVars, beginVars, gitVars, DriverCrash, SweepRecover,
        ForcedRecover, Resolve, RecoveryCrash, SweepEnd, RequestCancel
  <2>3. ASSUME NEW p \in Projects, Drift(p)
        PROVE  WriterStep
    BY <2>3, WriterDrifts
  <2> QED
    BY <2>2, <2>3, StartWriter, DriverWriter, RecoveryWriter DEF Next
<1> QED
  BY <1>1, <1>2, TypeCorrect, ExclusiveInductive, StageInductive, PTL
  DEF Spec, ImplementsWriter, Writer!Spec, Writer!wvars, WriterStep
=============================================================================
