----------------------- MODULE ReviewAssignmentProofs -----------------------
(* Theorems of ReviewAssignment, for any number of tries and of processes.  *)
EXTENDS ReviewAssignment, TLAPS

(* Who has been given which row. *)
Numbered ==
  /\ \A p \in Reviewers : reviewer[p].step # "unused" => Given(p) \in Numbers
  /\ orchestrator.step \in Waiting => orchestrator.number \in Numbers
  /\ orchestrator.step = "assign" => orchestrator.tries < MaxTries

(* The only row that may be active is the one the orchestrator made last.   *)
LatestIsActive ==
  /\ RetryStartsClean
  /\ \A n \in Numbers : Active(n) => n = orchestrator.number

Inv == TypeOK /\ Numbered /\ LatestIsActive /\ ClaimIsRunning
       /\ VerdictIsAssigned

-----------------------------------------------------------------------------
(* Records and rows. *)

LEMMA RowType ==
  ASSUME NEW a \in Row
  PROVE  /\ a \in [status : {"NONE"} \cup Open \cup Closed, execution : Links]
         /\ a.status \in {"NONE", "ASSIGNED", "CLAIMED", "COMPLETED", "FAILED"}
         /\ a.execution \in Links
         /\ a.status \in {"NONE", "ASSIGNED"} => a.execution = NoReviewer
         /\ a.status \in {"CLAIMED", "COMPLETED"} => a.execution \in Reviewers
BY ConstantsAssumption DEF Row, Open, Closed, Links

(* A row may be closed as failed whatever it names. *)
LEMMA FailedRow ==
  ASSUME NEW a \in Row
  PROVE  [a EXCEPT !.status = "FAILED"] \in Row
BY DEF Row, Open, Closed

(* fail_active_assignment closes the row it is given, if it was open, and   *)
(* leaves all others alone.                                                *)
LEMMA FailActiveEffect ==
  ASSUME TypeOK, NEW n \in Numbers \cup {0}, FailActive(n)
  PROVE  /\ row' \in [Numbers -> Row]
         /\ \A m \in Numbers :
              /\ row'[m].execution = row[m].execution
              /\ row'[m].status = IF m = n /\ Active(m) THEN "FAILED"
                                  ELSE row[m].status
              /\ row'[m] = row[m] \/ row'[m].status = "FAILED"
<1>1. row \in [Numbers -> Row]  BY DEF TypeOK
<1> DEFINE F(s) == IF s \in Open THEN "FAILED" ELSE s
<1>2. row' = [row EXCEPT ![n].status = F(row[n].status)]
  BY DEF FailActive
<1>3. ASSUME NEW m \in Numbers
      PROVE  /\ row'[m] = IF m = n THEN [row[m] EXCEPT !.status = F(row[m].status)]
                          ELSE row[m]
             /\ row[m] \in Row
  BY <1>1, <1>2
<1>4. ASSUME NEW m \in Numbers
      PROVE  /\ row'[m] \in Row
             /\ row'[m].execution = row[m].execution
             /\ row'[m].status = IF m = n /\ Active(m) THEN "FAILED"
                                 ELSE row[m].status
             /\ row'[m] = row[m] \/ row'[m].status = "FAILED"
  <2>1. CASE m = n /\ Active(m)
    <3>1. row'[m] = [row[m] EXCEPT !.status = "FAILED"]
      BY <1>3, <2>1 DEF Active
    <3>4. row[m] \in Row  BY <1>3
    <3>5. [row[m] EXCEPT !.status = "FAILED"] \in Row  BY <3>4, FailedRow
    <3>2. row'[m] \in Row  BY <3>1, <3>5
    <3>3. row'[m].execution = row[m].execution /\ row'[m].status = "FAILED"
      BY <3>1, <1>3 DEF Row
    <3> QED BY <3>2, <3>3, <2>1
  <2>2. CASE ~(m = n /\ Active(m))
    <3>1. row'[m] = row[m]
      <4>1. CASE m # n  BY <4>1, <1>3
      <4>2. CASE m = n /\ ~Active(m)
        <5>1. F(row[m].status) = row[m].status  BY <4>2 DEF Active
        <5>2. row'[m] = [row[m] EXCEPT !.status = row[m].status]
          BY <1>3, <4>2, <5>1
        <5> QED BY <5>2, <1>3 DEF Row
      <4> QED BY <4>1, <4>2, <2>2
    <3> QED BY <3>1, <2>2, <1>3
  <2> QED BY <2>1, <2>2
<1>5. DOMAIN row' = Numbers /\ row' = [m \in Numbers |-> row'[m]]
  BY <1>1, <1>2
<1>6. row' \in [Numbers -> Row]  BY <1>4, <1>5
<1> QED BY <1>4, <1>6

(* finish_assignment closes the claim of its own process only.              *)
LEMMA CloseClaimEffect ==
  ASSUME TypeOK, NEW p \in Reviewers, Given(p) \in Numbers, CanFinish(p),
         NEW s \in Closed, CloseClaim(p, s)
  PROVE  /\ row' = [row EXCEPT ![Given(p)] = [status |-> s, execution |-> p]]
         /\ row' \in [Numbers -> Row]
<1>1. row \in [Numbers -> Row]  BY DEF TypeOK
<1>2. row[Given(p)] = [status |-> "CLAIMED", execution |-> p]  BY DEF CanFinish
<1>3. row' = [row EXCEPT ![Given(p)].status = s]
  BY <1>2 DEF CloseClaim
<1>6. [row[Given(p)] EXCEPT !.status = s] = [status |-> s, execution |-> p]
  BY <1>2
<1>7. row' = [row EXCEPT ![Given(p)] = [row[Given(p)] EXCEPT !.status = s]]
  BY <1>3
<1>4. row' = [row EXCEPT ![Given(p)] = [status |-> s, execution |-> p]]
  BY <1>6, <1>7
<1>5. [status |-> s, execution |-> p] \in Row
  BY ConstantsAssumption DEF Row, Open, Closed, Links
<1> QED BY <1>1, <1>4, <1>5

(* The recovery closes every open row, and nothing else.                    *)
LEMMA AbandonEffect ==
  ASSUME TypeOK, AbandonRows
  PROVE  /\ row' \in [Numbers -> Row]
         /\ \A m \in Numbers :
              /\ row'[m].execution = row[m].execution
              /\ row'[m].status = IF Active(m) THEN "FAILED" ELSE row[m].status
              /\ row'[m] = row[m] \/ row'[m].status = "FAILED"
<1>1. row \in [Numbers -> Row]  BY DEF TypeOK
<1>2. ASSUME NEW m \in Numbers
      PROVE  /\ row'[m] \in Row
             /\ row'[m].execution = row[m].execution
             /\ row'[m].status = IF Active(m) THEN "FAILED" ELSE row[m].status
             /\ row'[m] = row[m] \/ row'[m].status = "FAILED"
  <2>1. row[m] \in Row  BY <1>1
  <2>2. row'[m] = IF Active(m) THEN [row[m] EXCEPT !.status = "FAILED"] ELSE row[m]
    BY DEF AbandonRows
  <2>3. [row[m] EXCEPT !.status = "FAILED"] \in Row  BY <2>1, FailedRow
  <2> QED BY <2>1, <2>2, <2>3 DEF Row
<1>3. row' \in [Numbers -> Row]
  BY <1>2 DEF AbandonRows
<1> QED BY <1>2, <1>3

-----------------------------------------------------------------------------
(* Types, and who has been given which row.                                 *)

LEMMA InitInv == Init => Inv
<1> SUFFICES ASSUME Init PROVE Inv
  OBVIOUS
<1>1. NoRow \in Row  BY DEF NoRow, Row, Links
<1>2. TypeOK
  BY <1>1, ConstantsAssumption DEF Init, TypeOK, Numbers, Links, Waiting, Ended
<1>3. Numbered  BY ConstantsAssumption DEF Init, Numbered, Waiting
<1>4. \A n \in Numbers : ~Active(n) /\ row[n].status = "NONE"
  BY DEF Init, NoRow, Active, Open
<1>5. LatestIsActive  BY <1>4 DEF LatestIsActive, RetryStartsClean
<1>6. ClaimIsRunning  BY <1>4 DEF ClaimIsRunning
<1>7. VerdictIsAssigned
  BY <1>4, ConstantsAssumption DEF VerdictIsAssigned, Init
<1> QED BY <1>2, <1>3, <1>5, <1>6, <1>7 DEF Inv

LEMMA TypeStep == TypeOK /\ Numbered /\ [Next]_vars => TypeOK' /\ Numbered'
<1> SUFFICES ASSUME TypeOK, Numbered, [Next]_vars PROVE TypeOK' /\ Numbered'
  OBVIOUS
<1> USE ConstantsAssumption
<1> USE DEF Goto, Step, Given, Alive, Waiting, Ended
<1>1. CASE UNCHANGED vars
  BY <1>1 DEF vars, TypeOK, Numbered, Row
<1>2. CASE Assign
  <2> PICK n \in Numbers :
        /\ NextNumber(n)
        /\ row' = [row EXCEPT ![n].status = "ASSIGNED"]
        /\ orchestrator' = [orchestrator EXCEPT !.step = "launch", !.number = n,
                                                !.tries = @ + 1]
    BY <1>2 DEF Assign
  <2>1. row[n].status = "NONE" /\ row[n] \in Row
    BY DEF NextNumber, TypeOK, Numbers
  <2>2. [row[n] EXCEPT !.status = "ASSIGNED"] \in Row
    BY <2>1 DEF Row, Open, Closed
  <2>3. row' \in [Numbers -> Row]  BY <2>2 DEF TypeOK
  <2>4. orchestrator.step = "assign" /\ orchestrator.tries \in 0 .. MaxTries
        /\ orchestrator.tries < MaxTries
    BY <1>2 DEF Assign, TypeOK, Numbered
  <2>5. orchestrator.tries + 1 \in 0 .. MaxTries  BY <2>4
  <2> QED BY <1>2, <2>3, <2>5 DEF Assign, TypeOK, Numbered
<1>3. CASE Launch
  <2> PICK p \in Reviewers :
        /\ reviewer' = [reviewer EXCEPT ![p] = [step |-> "start",
                                                number |-> orchestrator.number]]
        /\ orchestrator' = [orchestrator EXCEPT !.step = "wait", !.child = p]
    BY <1>3 DEF Launch
  <2>1. orchestrator.number \in Numbers  BY <1>3 DEF Launch, Numbered
  <2>2. TypeOK'  BY <1>3, <2>1 DEF Launch, TypeOK, Links
  <2>3. orchestrator'.number = orchestrator.number /\ orchestrator'.step = "wait"
    BY DEF TypeOK
  <2>4. \A q \in Reviewers : reviewer'[q] = IF q = p
            THEN [step |-> "start", number |-> orchestrator.number] ELSE reviewer[q]
    BY DEF TypeOK
  <2>5. Numbered'  BY <2>1, <2>3, <2>4 DEF Numbered
  <2> QED BY <2>2, <2>5
<1>4. CASE ChildEnds
  BY <1>4 DEF ChildEnds, TypeOK, Numbered
<1>5. CASE TimeOut
  <2>5. \A q \in Reviewers :
          /\ reviewer[q] \in [step : {"unused", "ok", "bad"} \cup Alive,
                              number : Numbers \cup {0}]
          /\ [reviewer[q] EXCEPT !.step = "bad"] \in
               [step : {"unused", "ok", "bad"} \cup Alive, number : Numbers \cup {0}]
    BY DEF TypeOK
  <2>6. reviewer' = [reviewer EXCEPT ![orchestrator.child] =
                       [reviewer[orchestrator.child] EXCEPT !.step = "bad"]]
    BY <1>5 DEF TimeOut
  <2>7. reviewer' \in [Reviewers -> [step : {"unused", "ok", "bad"} \cup Alive,
                                     number : Numbers \cup {0}]]
    BY <2>5, <2>6 DEF TypeOK
  <2>1. TypeOK'  BY <1>5, <2>7 DEF TimeOut, TypeOK
  <2>2. orchestrator'.number = orchestrator.number /\ orchestrator'.step = "abort"
        /\ orchestrator.number \in Numbers
    BY <1>5 DEF TimeOut, TypeOK, Numbered
  <2>3. ASSUME NEW q \in Reviewers, reviewer'[q].step # "unused"
        PROVE  reviewer'[q].number \in Numbers
    <3>1. reviewer'[q].number = reviewer[q].number
      BY <1>5 DEF TimeOut, TypeOK
    <3>2. reviewer[q].step # "unused"
      BY <1>5, <2>3 DEF TimeOut, TypeOK
    <3> QED BY <3>1, <3>2 DEF Numbered
  <2>4. Numbered'  BY <2>2, <2>3 DEF Numbered
  <2> QED BY <2>1, <2>4
<1>6. CASE Tidy
  BY <1>6 DEF Tidy, TypeOK, Numbered
<1>7. CASE Close \/ Abort
  <2>1. row' \in [Numbers -> Row]
    BY <1>7, FailActiveEffect DEF Close, Abort, TypeOK
  <2> QED BY <1>7, <2>1 DEF Close, Abort, TypeOK, Numbered
<1>8. CASE OrchestratorDies
  BY <1>8 DEF OrchestratorDies, TypeOK, Numbered
<1>9. ASSUME NEW p \in Reviewers, ReviewerNext(p) PROVE TypeOK' /\ Numbered'
  <2>1. CASE Check(p)  BY <2>1 DEF Check, TypeOK, Numbered
  <2>2. CASE Reserve(p)
    <3>1. [status |-> "CLAIMED", execution |-> p] \in Row
      BY DEF Row, Open, Closed, Links
    <3>2. row' \in [Numbers -> Row]
      BY <2>2, <3>1 DEF Reserve, Claim, TypeOK
    <3> QED BY <2>2, <3>2 DEF Reserve, TypeOK, Numbered
  <2>3. CASE Work(p)  BY <2>3 DEF Work, TypeOK, Numbered
  <2>4. CASE FinishVerdict(p)
    <3>1. Given(p) \in Numbers  BY <2>4 DEF FinishVerdict, Numbered
    <3>2. row' \in [Numbers -> Row]
      BY <2>4, <3>1, CloseClaimEffect DEF FinishVerdict, Closed, TypeOK
    <3> QED BY <2>4, <3>2 DEF FinishVerdict, TypeOK, Numbered, Links
  <2>5. CASE FinishFailure(p)
    <3>1. Given(p) \in Numbers  BY <2>5 DEF FinishFailure, Numbered
    <3>2. row' \in [Numbers -> Row]
      BY <2>5, <3>1, CloseClaimEffect DEF FinishFailure, Closed, TypeOK
    <3> QED BY <2>5, <3>2 DEF FinishFailure, TypeOK, Numbered
  <2> QED BY <1>9, <2>1, <2>2, <2>3, <2>4, <2>5 DEF ReviewerNext
<1>10. ASSUME NEW p \in Reviewers, ReviewerDies(p) PROVE TypeOK' /\ Numbered'
  BY <1>10 DEF ReviewerDies, TypeOK, Numbered
<1>11. ASSUME NEW p \in Reviewers, NEW n \in Numbers, LaunchAgain(p, n)
       PROVE  TypeOK' /\ Numbered'
  BY <1>11 DEF LaunchAgain, TypeOK, Numbered
<1>12. CASE Recover
  <2>1. row' \in [Numbers -> Row]  BY <1>12, AbandonEffect DEF Recover
  <2> QED BY <1>12, <2>1 DEF Recover, TypeOK, Numbered
<1>13. CASE RollbackStart \/ RollbackFinish
  BY <1>13 DEF RollbackStart, RollbackFinish, TypeOK, Numbered
<1> QED
  BY <1>1, <1>2, <1>3, <1>4, <1>5, <1>6, <1>7, <1>8, <1>9, <1>10, <1>11, <1>12,
     <1>13 DEF Next, OrchestratorNext

-----------------------------------------------------------------------------
(* Tries do not overlap: what is active is the row of the current try.      *)

LEMMA LatestStep == Inv /\ [Next]_vars => LatestIsActive'
<1> SUFFICES ASSUME Inv, [Next]_vars PROVE LatestIsActive'
  OBVIOUS
<1> USE DEF Inv
<1> USE DEF LatestIsActive, RetryStartsClean, Active
<1>1. ASSUME UNCHANGED <<row, orchestrator>> PROVE LatestIsActive'
  BY <1>1
<1>2. CASE Assign
  <2> PICK n \in Numbers :
        /\ row' = [row EXCEPT ![n].status = "ASSIGNED"]
        /\ orchestrator' = [orchestrator EXCEPT !.step = "launch", !.number = n,
                                                !.tries = @ + 1]
    BY <1>2 DEF Assign
  <2>1. orchestrator'.step = "launch" /\ orchestrator'.number = n  BY DEF TypeOK
  <2>2. \A m \in Numbers : m # n => row'[m] = row[m]  BY DEF TypeOK
  <2> QED BY <1>2, <2>1, <2>2 DEF Assign
<1>3. ASSUME Launch \/ ChildEnds \/ TimeOut \/ Tidy \/ OrchestratorDies
      PROVE  LatestIsActive'
  <2>1. row' = row /\ orchestrator'.step # "assign"
        /\ orchestrator'.number = orchestrator.number
    BY <1>3 DEF Launch, ChildEnds, TimeOut, Tidy, OrchestratorDies, Goto, TypeOK
  <2> QED BY <2>1
<1>4. CASE Close \/ Abort
  <2>1. orchestrator.number \in Numbers \cup {0} /\ FailActive(orchestrator.number)
        /\ orchestrator'.number = orchestrator.number
    BY <1>4 DEF Close, Abort, Goto, TypeOK
  <2>2. \A m \in Numbers :
          row'[m].status = IF m = orchestrator.number /\ row[m].status \in Open
                             THEN "FAILED" ELSE row[m].status
    BY <2>1, FailActiveEffect
  <2>3. \A m \in Numbers : row'[m].status \notin Open
    BY <2>2 DEF Open
  <2> QED BY <2>3
<1>5. ASSUME UNCHANGED orchestrator,
             \A m \in Numbers : row'[m].status \in Open => row[m].status \in Open
      PROVE  LatestIsActive'
  BY <1>5
<1>6. ASSUME NEW p \in Reviewers, ReviewerNext(p) PROVE LatestIsActive'
  <2>1. CASE Check(p) \/ Work(p)  BY <2>1, <1>1 DEF Check, Work
  <2>2. CASE Reserve(p)
    <3>1. \A m \in Numbers : row'[m].status \in Open => row[m].status \in Open
      BY <2>2 DEF Reserve, CanReserve, Claimable, Claim, Open, TypeOK
    <3> QED BY <2>2, <3>1, <1>5 DEF Reserve
  <2>3. CASE FinishVerdict(p) \/ FinishFailure(p)
    <3>1. Given(p) \in Numbers
      BY <2>3 DEF FinishVerdict, FinishFailure, Numbered
    <3>2. CASE UNCHANGED row
      BY <2>3, <3>2, <1>1 DEF FinishVerdict, FinishFailure
    <3>3. ASSUME NEW s \in Closed, CanFinish(p), CloseClaim(p, s)
          PROVE  LatestIsActive'
      <4>1. row' = [row EXCEPT ![Given(p)] = [status |-> s, execution |-> p]]
        BY <3>1, <3>3, CloseClaimEffect
      <4>2. \A m \in Numbers : row'[m].status \in Open => row[m].status \in Open
        BY <4>1, <3>1 DEF Open, Closed, TypeOK
      <4> QED BY <2>3, <4>2, <1>5 DEF FinishVerdict, FinishFailure
    <3> QED BY <2>3, <3>2, <3>3 DEF FinishVerdict, FinishFailure, Closed
  <2> QED BY <1>6, <2>1, <2>2, <2>3 DEF ReviewerNext
<1>7. ASSUME NEW p \in Reviewers, NEW n \in Numbers, LaunchAgain(p, n)
      PROVE  LatestIsActive'
  BY <1>7, <1>1 DEF LaunchAgain
<1>8. CASE Recover
  <2>1. \A m \in Numbers : row'[m].status \in Open => row[m].status \in Open
    BY <1>8, AbandonEffect DEF Recover, Open
  <2> QED BY <1>8, <2>1, <1>5 DEF Recover
<1>9. CASE RollbackStart \/ RollbackFinish \/ UNCHANGED vars
  BY <1>9, <1>1 DEF RollbackStart, RollbackFinish, vars
<1>10. ASSUME NEW p \in Reviewers, ReviewerDies(p) PROVE LatestIsActive'
  BY <1>10, <1>1 DEF ReviewerDies
<1> QED
  BY <1>2, <1>3, <1>4, <1>6, <1>7, <1>8, <1>9, <1>10
     DEF Next, OrchestratorNext

-----------------------------------------------------------------------------
(* A claim and its execution. *)

(* A step that makes no claim and touches no execution.                     *)
LEMMA ClaimKept ==
  ASSUME Inv, UNCHANGED execution,
         \A n \in Numbers : row'[n].status = "CLAIMED" => row'[n] = row[n]
  PROVE  ClaimIsRunning'
BY DEF Inv, ClaimIsRunning

LEMMA ClaimStep == Inv /\ [Next]_vars => ClaimIsRunning'
<1> SUFFICES ASSUME Inv, [Next]_vars PROVE ClaimIsRunning'
  OBVIOUS
<1> USE DEF Inv
<1>1. ASSUME UNCHANGED <<row, execution>> PROVE ClaimIsRunning'
  BY <1>1 DEF ClaimIsRunning
<1>2. CASE Assign
  <2>1. \A n \in Numbers : row'[n].status = "CLAIMED" => row'[n] = row[n]
    BY <1>2 DEF Assign, TypeOK
  <2> QED BY <1>2, <2>1, ClaimKept DEF Assign
<1>3. CASE Launch \/ ChildEnds \/ TimeOut \/ Tidy \/ OrchestratorDies
  BY <1>3, <1>1 DEF Launch, ChildEnds, TimeOut, Tidy, OrchestratorDies
<1>4. CASE Close \/ Abort
  <2>1. orchestrator.number \in Numbers \cup {0} /\ FailActive(orchestrator.number)
    BY <1>4 DEF Close, Abort, TypeOK
  <2>2. \A n \in Numbers : row'[n].status = "CLAIMED" => row'[n] = row[n]
    BY <2>1, FailActiveEffect
  <2> QED BY <1>4, <2>2, ClaimKept DEF Close, Abort
<1>5. ASSUME NEW p \in Reviewers, ReviewerNext(p) PROVE ClaimIsRunning'
  <2>1. CASE Check(p) \/ Work(p)  BY <2>1, <1>1 DEF Check, Work
  <2>2. CASE Reserve(p) /\ ~CanReserve(p)
    BY <2>2, <1>1 DEF Reserve
  <2>3. CASE Reserve(p) /\ CanReserve(p)
    <3>1. /\ execution' = [execution EXCEPT ![p] = "RUNNING"]
          /\ row' = [row EXCEPT ![Given(p)] = [status |-> "CLAIMED", execution |-> p]]
          /\ \A q \in Reviewers : execution[q] # "RUNNING"
      BY <2>3 DEF Reserve, Claim, CanReserve
    <3>2. \A q \in Reviewers : execution'[q] = "RUNNING" <=> q = p
      BY <3>1 DEF TypeOK
    <3>3. ASSUME NEW n \in Numbers, row'[n].status = "CLAIMED"
          PROVE  row'[n].execution = p
      <4>1. CASE n = Given(p)  BY <3>1, <4>1 DEF TypeOK
      <4>2. CASE n # Given(p)
        <5>1. row[n].status = "CLAIMED" /\ row[n] \in Row
          BY <3>1, <3>3, <4>2 DEF TypeOK
        <5>2. row[n].execution \in Reviewers  BY <5>1, RowType
        <5> QED BY <5>1, <5>2, <3>1 DEF ClaimIsRunning
      <4> QED BY <4>1, <4>2
    <3> QED BY <3>2, <3>3 DEF ClaimIsRunning
  <2>4. CASE FinishVerdict(p) \/ FinishFailure(p)
    <3>1. Given(p) \in Numbers
      BY <2>4 DEF FinishVerdict, FinishFailure, Numbered
    <3>2. CASE UNCHANGED <<row, execution>>  BY <3>2, <1>1
    <3>3. ASSUME NEW s \in Closed, CanFinish(p), CloseClaim(p, s)
          PROVE  ClaimIsRunning'
      <4>1. row' = [row EXCEPT ![Given(p)] = [status |-> s, execution |-> p]]
        BY <3>1, <3>3, CloseClaimEffect
      <4>2. row[Given(p)].status = "CLAIMED"  BY <3>3 DEF CanFinish
      <4>3. \A n \in Numbers : row'[n].status # "CLAIMED"
        BY <4>1, <4>2, <3>1
           DEF LatestIsActive, Active, Open, Closed, TypeOK
      <4> QED BY <4>3 DEF ClaimIsRunning
    <3> QED BY <2>4, <3>2, <3>3 DEF FinishVerdict, FinishFailure, Closed
  <2> QED BY <1>5, <2>1, <2>2, <2>3, <2>4 DEF ReviewerNext
<1>6. ASSUME NEW p \in Reviewers, NEW n \in Numbers, LaunchAgain(p, n)
      PROVE  ClaimIsRunning'
  BY <1>6, <1>1 DEF LaunchAgain
<1>7. ASSUME NEW p \in Reviewers, ReviewerDies(p) PROVE ClaimIsRunning'
  BY <1>7, <1>1 DEF ReviewerDies
<1>8. CASE Recover
  <2>1. \A n \in Numbers : row'[n].status # "CLAIMED"
    BY <1>8, AbandonEffect DEF Recover, Active, Open
  <2> QED BY <2>1 DEF ClaimIsRunning
<1>9. CASE RollbackStart \/ RollbackFinish \/ UNCHANGED vars
  BY <1>9, <1>1 DEF RollbackStart, RollbackFinish, vars
<1> QED
  BY <1>2, <1>3, <1>4, <1>5, <1>6, <1>7, <1>8, <1>9 DEF Next, OrchestratorNext

-----------------------------------------------------------------------------
(* A verdict and its assignment. *)

(* A step that completes no row, loses no completed one, and neither        *)
(* completes an execution nor undoes a completed one.                      *)
LEMMA VerdictKept ==
  ASSUME Inv, UNCHANGED verdict,
         \A n \in Numbers : row[n].status = "COMPLETED"
                              \/ row'[n].status = "COMPLETED" => row'[n] = row[n],
         \A p \in Reviewers : execution'[p] = "COMPLETED"
                               <=> execution[p] = "COMPLETED"
  PROVE  VerdictIsAssigned'
<1> USE DEF Inv, VerdictIsAssigned
<1>1. \A n \in Numbers : row'[n].status = "COMPLETED" => row[n].status = "COMPLETED"
  OBVIOUS
<1> QED BY <1>1

(* The first verdict: before it no row and no execution is COMPLETED.       *)
LEMMA VerdictRecorded ==
  ASSUME Inv, NEW p \in Reviewers, FinishVerdict(p), CanFinish(p),
         verdict = NoReviewer
  PROVE  VerdictIsAssigned'
<1> USE DEF Inv
<1>1. Given(p) \in Numbers  BY DEF FinishVerdict, Numbered
<1>2. /\ verdict' = p
      /\ execution' = [execution EXCEPT ![p] = "COMPLETED"]
      /\ CloseClaim(p, "COMPLETED")
  BY DEF FinishVerdict
<1>3. row' = [row EXCEPT ![Given(p)] = [status |-> "COMPLETED", execution |-> p]]
  BY <1>1, <1>2, CloseClaimEffect DEF Closed
<1>4. ASSUME NEW n \in Numbers PROVE row[n].status # "COMPLETED"
  <2>1. row[n] \in Row  BY DEF TypeOK
  <2>2. row[n].status = "COMPLETED" => row[n].execution \in Reviewers
    BY <2>1, RowType
  <2> QED BY <2>2, ConstantsAssumption DEF VerdictIsAssigned
<1>5. \A q \in Reviewers : execution[q] # "COMPLETED"
  BY ConstantsAssumption DEF VerdictIsAssigned
<1>6. \A n \in Numbers : row'[n] = IF n = Given(p)
        THEN [status |-> "COMPLETED", execution |-> p] ELSE row[n]
  BY <1>3 DEF TypeOK
<1>7. \A q \in Reviewers : execution'[q] = IF q = p THEN "COMPLETED" ELSE execution[q]
  BY <1>2 DEF TypeOK
<1>8. \A n \in Numbers : row'[n].status = "COMPLETED" <=> n = Given(p)
  BY <1>4, <1>6
<1> QED BY <1>1, <1>2, <1>5, <1>6, <1>7, <1>8 DEF VerdictIsAssigned

LEMMA VerdictStep == Inv /\ [Next]_vars => VerdictIsAssigned'
<1> SUFFICES ASSUME Inv, [Next]_vars PROVE VerdictIsAssigned'
  OBVIOUS
<1> USE DEF Inv
<1>1. ASSUME UNCHANGED <<row, execution, verdict>> PROVE VerdictIsAssigned'
  BY <1>1 DEF VerdictIsAssigned
<1>2. CASE Assign
  <2> PICK n \in Numbers :
        NextNumber(n) /\ row' = [row EXCEPT ![n].status = "ASSIGNED"]
    BY <1>2 DEF Assign
  <2>1. row[n].status = "NONE"  BY DEF NextNumber, Numbers
  <2>2. \A m \in Numbers :
          row[m].status = "COMPLETED" \/ row'[m].status = "COMPLETED"
            => row'[m] = row[m]
    BY <2>1 DEF TypeOK
  <2> QED BY <1>2, <2>2, VerdictKept DEF Assign
<1>3. CASE Launch \/ ChildEnds \/ TimeOut \/ Tidy \/ OrchestratorDies
  BY <1>3, <1>1 DEF Launch, ChildEnds, TimeOut, Tidy, OrchestratorDies
<1>4. CASE Close \/ Abort
  <2>1. orchestrator.number \in Numbers \cup {0} /\ FailActive(orchestrator.number)
    BY <1>4 DEF Close, Abort, TypeOK
  <2>2. \A n \in Numbers :
          row[n].status = "COMPLETED" \/ row'[n].status = "COMPLETED"
            => row'[n] = row[n]
    BY <2>1, FailActiveEffect DEF Active, Open
  <2> QED BY <1>4, <2>2, VerdictKept DEF Close, Abort
<1>5. ASSUME NEW p \in Reviewers, ReviewerNext(p) PROVE VerdictIsAssigned'
  <2>1. CASE Check(p) \/ Work(p)  BY <2>1, <1>1 DEF Check, Work
  <2>2. CASE Reserve(p) /\ ~CanReserve(p)
    BY <2>2, <1>1 DEF Reserve
  <2>3. CASE Reserve(p) /\ CanReserve(p)
    <3>1. \A n \in Numbers :
            row[n].status = "COMPLETED" \/ row'[n].status = "COMPLETED"
              => row'[n] = row[n]
      BY <2>3 DEF Reserve, CanReserve, Claimable, Claim, TypeOK
    <3>2. execution[p] # "COMPLETED"
      BY <2>3, ConstantsAssumption
         DEF Reserve, CanReserve, Reviewable, VerdictIsAssigned
    <3>3. \A q \in Reviewers : execution'[q] = "COMPLETED"
                                <=> execution[q] = "COMPLETED"
      BY <2>3, <3>2 DEF Reserve, TypeOK
    <3> QED BY <2>3, <3>1, <3>3, VerdictKept DEF Reserve
  <2>4. CASE FinishVerdict(p)
    <3>1. CASE CanFinish(p) /\ verdict = NoReviewer
      BY <2>4, <3>1, VerdictRecorded
    <3>2. CASE ~(CanFinish(p) /\ verdict = NoReviewer)
      BY <2>4, <3>2, <1>1 DEF FinishVerdict
    <3> QED BY <3>1, <3>2
  <2>5. CASE FinishFailure(p) /\ CanFinish(p)
    <3>1. Given(p) \in Numbers  BY <2>5 DEF FinishFailure, Numbered
    <3>2. row' = [row EXCEPT ![Given(p)] = [status |-> "FAILED", execution |-> p]]
      BY <2>5, <3>1, CloseClaimEffect DEF FinishFailure, Closed
    <3>3. \A n \in Numbers :
            row[n].status = "COMPLETED" \/ row'[n].status = "COMPLETED"
              => row'[n] = row[n]
      BY <2>5, <3>2 DEF CanFinish, TypeOK
    <3>4. execution[p] = "RUNNING"
      BY <2>5, <3>1 DEF CanFinish, ClaimIsRunning
    <3>5. \A q \in Reviewers : execution'[q] = "COMPLETED"
                                <=> execution[q] = "COMPLETED"
      BY <2>5, <3>4 DEF FinishFailure, TypeOK
    <3> QED BY <2>5, <3>3, <3>5, VerdictKept DEF FinishFailure
  <2>6. CASE FinishFailure(p) /\ ~CanFinish(p)
    BY <2>6, <1>1 DEF FinishFailure
  <2> QED BY <1>5, <2>1, <2>2, <2>3, <2>4, <2>5, <2>6 DEF ReviewerNext
<1>6. ASSUME NEW p \in Reviewers, NEW n \in Numbers, LaunchAgain(p, n)
      PROVE  VerdictIsAssigned'
  BY <1>6, <1>1 DEF LaunchAgain
<1>7. ASSUME NEW p \in Reviewers, ReviewerDies(p) PROVE VerdictIsAssigned'
  BY <1>7, <1>1 DEF ReviewerDies
<1>8. CASE Recover
  <2>1. \A n \in Numbers :
          row[n].status = "COMPLETED" \/ row'[n].status = "COMPLETED"
            => row'[n] = row[n]
    BY <1>8, AbandonEffect DEF Recover, Active, Open
  <2>2. \A p \in Reviewers : execution'[p] = "COMPLETED"
                              <=> execution[p] = "COMPLETED"
    BY <1>8 DEF Recover
  <2> QED BY <1>8, <2>1, <2>2, VerdictKept DEF Recover
<1>9. CASE RollbackStart \/ RollbackFinish \/ UNCHANGED vars
  BY <1>9, <1>1 DEF RollbackStart, RollbackFinish, vars
<1> QED
  BY <1>2, <1>3, <1>4, <1>5, <1>6, <1>7, <1>8, <1>9 DEF Next, OrchestratorNext

-----------------------------------------------------------------------------
(* The theorems. *)

LEMMA InvHolds == Spec => []Inv
<1>1. Inv /\ [Next]_vars => Inv'
  <2> SUFFICES ASSUME Inv, [Next]_vars PROVE Inv'
    OBVIOUS
  <2>1. TypeOK' /\ Numbered'  BY TypeStep DEF Inv
  <2>2. LatestIsActive'        BY LatestStep
  <2>3. ClaimIsRunning'        BY ClaimStep
  <2>4. VerdictIsAssigned'     BY VerdictStep
  <2> QED BY <2>1, <2>2, <2>3, <2>4 DEF Inv
<1> QED BY <1>1, InitInv, PTL DEF Spec

(* Rows name an execution exactly as their CHECK constraint demands, and    *)
(* all processes keep their types.                                         *)
THEOREM TypeCorrect == Spec => []TypeOK
<1>1. Inv => TypeOK  BY DEF Inv
<1> QED BY <1>1, InvHolds, PTL

(* A verdict counts exactly when its assignment is completed: finish_review *)
(* of a reviewer that was given up, killed late or overtaken by the        *)
(* recovery leaves nothing behind.                                         *)
THEOREM VerdictHasAssignment == Spec => []VerdictIsAssigned
<1>1. Inv => VerdictIsAssigned  BY DEF Inv
<1> QED BY <1>1, InvHolds, PTL

(* Whatever ended the last try, fail_active_assignment has closed its row   *)
(* before create_assignment makes the next one.                            *)
THEOREM TriesDoNotOverlap == Spec => []RetryStartsClean
<1>1. Inv => RetryStartsClean  BY DEF Inv, LatestIsActive
<1> QED BY <1>1, InvHolds, PTL

(* The claim, the task and the execution of a review are reserved and       *)
(* closed together.                                                        *)
THEOREM ClaimHasExecution == Spec => []ClaimIsRunning
<1>1. Inv => ClaimIsRunning  BY DEF Inv
<1> QED BY <1>1, InvHolds, PTL
=============================================================================
