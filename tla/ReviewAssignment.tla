-------------------------- MODULE ReviewAssignment --------------------------
(***************************************************************************)
(* The review of one run: the orchestrator creates a row of                *)
(* reviewer_assignments for every try, starts hermesops-reviewer for it,   *)
(* and closes the row when the process fails; the reviewer claims the row, *)
(* works with no transaction open, and records its verdict; the recovery   *)
(* closes what it believes abandoned, at any moment.  RunTransaction has   *)
(* the reserve and the finish of a review; this module is what lies        *)
(* between them.                                                           *)
(***************************************************************************)
EXTENDS Naturals

CONSTANTS
  Reviewers,    \* processes of hermesops-reviewer launch, each runs once
  Repeats,      \* those an operator starts, with the command line of another
  Limit,        \* assignment numbers are 1 .. Limit (1000 in the code)
  MaxTries,     \* review_transport_attempts
  NoReviewer    \* "no row", for the links to an execution

ASSUME ConstantsAssumption ==
  /\ Repeats \subseteq Reviewers
  /\ Limit \in Nat
  /\ MaxTries \in 1 .. Limit
  /\ NoReviewer \notin Reviewers

VARIABLES
  run,           \* runs.status, as far as a review can tell
  row,           \* reviewer_assignments, by assignment_number
  execution,     \* reviewer_executions and tasks: one row of each per process
  verdict,       \* review_results: the process whose verdict is on record
  reviewer,      \* where each process is, and the assignment it was given
  orchestrator   \* launch_reviewer_with_transport_retry

vars == <<run, row, execution, verdict, reviewer, orchestrator>>

Numbers == 1 .. Limit
Open    == {"ASSIGNED", "CLAIMED"}
Closed  == {"COMPLETED", "FAILED"}
Links   == Reviewers \cup {NoReviewer}

(* The CHECK constraint of the table: which rows name an execution.         *)
Row == {a \in [status : {"NONE"} \cup Open \cup Closed, execution : Links] :
          /\ a.status \in {"NONE", "ASSIGNED"} => a.execution = NoReviewer
          /\ a.status \in {"CLAIMED", "COMPLETED"} => a.execution # NoReviewer}

NoRow == [status |-> "NONE", execution |-> NoReviewer]

Alive == {"start", "reserve", "work", "succeed", "fail"}
Waiting == {"launch", "wait", "tidy", "close", "abort"}
Ended   == {"returned", "raised", "dead"}

TypeOK ==
  /\ run \in {"REVIEWING", "RECOVERING", "CANCELLED"}
  /\ row \in [Numbers -> Row]
  /\ execution \in [Reviewers -> {"none", "RUNNING", "COMPLETED", "FAILED"}]
  /\ verdict \in Links
  /\ reviewer \in [Reviewers -> [step : {"unused", "ok", "bad"} \cup Alive,
                                 number : Numbers \cup {0}]]
  /\ orchestrator \in [step : {"assign"} \cup Waiting \cup Ended,
                       number : Numbers \cup {0}, child : Links,
                       tries : 0 .. MaxTries]

Init ==
  /\ run = "REVIEWING"
  /\ row = [n \in Numbers |-> NoRow]
  /\ execution = [p \in Reviewers |-> "none"]
  /\ verdict = NoReviewer
  /\ reviewer = [p \in Reviewers |-> [step |-> "unused", number |-> 0]]
  /\ orchestrator = [step |-> "assign", number |-> 0, child |-> NoReviewer,
                     tries |-> 0]

Goto(step)        == orchestrator' = [orchestrator EXCEPT !.step = step]
Step(p, step)     == reviewer' = [reviewer EXCEPT ![p].step = step]
Given(p)          == reviewer[p].number
Active(n)         == row[n].status \in Open

-----------------------------------------------------------------------------
(* The orchestrator: one assignment per try. *)

(* COALESCE(MAX(assignment_number), 0) + 1; rows are never deleted *)
NextNumber(n) == \A m \in Numbers : row[m].status # "NONE" <=> m < n

(* The unique index on the active rows refuses a second one; the run's own  *)
(* status is not looked at.                                                *)
Assign ==
  /\ orchestrator.step = "assign"
  /\ \A m \in Numbers : ~Active(m)
  /\ \E n \in Numbers :
       /\ NextNumber(n)
       /\ row' = [row EXCEPT ![n].status = "ASSIGNED"]
       /\ orchestrator' = [orchestrator EXCEPT !.step = "launch", !.number = n,
                                               !.tries = @ + 1]
  /\ UNCHANGED <<run, execution, verdict, reviewer>>

Launch ==
  /\ orchestrator.step = "launch"
  /\ \E p \in Reviewers \ Repeats :
       /\ reviewer[p].step = "unused"
       /\ reviewer' = [reviewer EXCEPT ![p] = [step |-> "start",
                                               number |-> orchestrator.number]]
       /\ orchestrator' = [orchestrator EXCEPT !.step = "wait", !.child = p]
  /\ UNCHANGED <<run, row, execution, verdict>>

(* The process exits; its answer is read, or its exit code is an error.     *)
ChildEnds ==
  /\ orchestrator.step = "wait"
  /\ \/ reviewer[orchestrator.child].step = "ok" /\ Goto("tidy")
     \/ reviewer[orchestrator.child].step = "bad" /\ Goto("close")
  /\ UNCHANGED <<run, row, execution, verdict, reviewer>>

(* subprocess.run kills a process that is too slow, whatever it has done.   *)
TimeOut ==
  /\ orchestrator.step = "wait"
  /\ reviewer[orchestrator.child].step \in Alive
  /\ Step(orchestrator.child, "bad")
  /\ Goto("abort")
  /\ UNCHANGED <<run, row, execution, verdict>>

(* The containers of the last execution are removed, or that fails.         *)
Tidy ==
  /\ orchestrator.step = "tidy"
  /\ Goto("returned") \/ Goto("abort")
  /\ UNCHANGED <<run, row, execution, verdict, reviewer>>

\* Variant: only unclaimed rows are closed.
FailAssigned(n) == row' = [row EXCEPT ![n].status =
                             IF @ = "ASSIGNED" THEN "FAILED" ELSE @]
(* fail_active_assignment leaves a row alone that is closed already.        *)
FailActive(n) == row' = [row EXCEPT ![n].status =
                           IF @ \in Open THEN "FAILED" ELSE @]

(* CommandExecutionError: the try is over.  Whether there is another one    *)
(* depends on what the error and the last execution's log say, and on the  *)
(* removal of its containers.                                              *)
Close ==
  /\ orchestrator.step = "close"
  /\ FailActive(orchestrator.number)
  /\ \/ orchestrator.tries < MaxTries /\ Goto("assign")
     \/ Goto("raised")
  /\ UNCHANGED <<run, execution, verdict, reviewer>>

(* Any other exception ends the review. *)
Abort ==
  /\ orchestrator.step = "abort"
  /\ FailActive(orchestrator.number)
  /\ Goto("raised")
  /\ UNCHANGED <<run, execution, verdict, reviewer>>

OrchestratorDies ==
  /\ orchestrator.step \notin Ended
  /\ Goto("dead")
  /\ UNCHANGED <<run, row, execution, verdict, reviewer>>

-----------------------------------------------------------------------------
(* hermesops-reviewer launch. *)

(* An operator repeats the command line of a review.                        *)
LaunchAgain(p, n) ==
  /\ p \in Repeats /\ reviewer[p].step = "unused" /\ row[n].status # "NONE"
  /\ reviewer' = [reviewer EXCEPT ![p] = [step |-> "start", number |-> n]]
  /\ UNCHANGED <<run, row, execution, verdict, orchestrator>>

(* load_run: the run awaits a review and has none.                          *)
Reviewable == run = "REVIEWING" /\ verdict = NoReviewer

(* Everything that is looked at outside a transaction, or found unusable.   *)
Check(p) ==
  /\ reviewer[p].step = "start"
  /\ (Reviewable /\ Step(p, "reserve")) \/ Step(p, "bad")
  /\ UNCHANGED <<run, row, execution, verdict, orchestrator>>

Claimable(n) == row[n].status = "ASSIGNED"

Claim(p, n) == row' = [row EXCEPT ![n] = [status |-> "CLAIMED", execution |-> p]]

(* reserve_review: the task, the execution and the claim, or none of them.  *)
CanReserve(p) ==
  /\ Reviewable
  /\ \A q \in Reviewers : execution[q] # "RUNNING"
  /\ Claimable(Given(p))

Reserve(p) ==
  /\ reviewer[p].step = "reserve"
  /\ IF CanReserve(p)
       THEN /\ execution' = [execution EXCEPT ![p] = "RUNNING"]
            /\ Claim(p, Given(p))
            /\ Step(p, "work")
       ELSE Step(p, "bad") /\ UNCHANGED <<row, execution>>
  /\ UNCHANGED <<run, verdict, orchestrator>>

(* The agent answers, and its answer and the repository pass; or not.       *)
Work(p) ==
  /\ reviewer[p].step = "work"
  /\ Step(p, "succeed") \/ Step(p, "fail")
  /\ UNCHANGED <<run, row, execution, verdict, orchestrator>>

\* Variant: an update of no row is not noticed.
CanFinishAnyway(p) == TRUE
(* finish_assignment *)
CanFinish(p) == row[Given(p)] = [status |-> "CLAIMED", execution |-> p]

(* UPDATE reviewer_assignments ... WHERE status = CLAIMED *)
CloseClaim(p, status) ==
  row' = [row EXCEPT ![Given(p)].status = IF @ = "CLAIMED" THEN status ELSE @]

(* finish_review: the review, the task, the execution and the assignment in *)
(* one transaction, which the assignment and the one review per run may    *)
(* refuse.  The status of the run is not looked at.                        *)
FinishVerdict(p) ==
  /\ reviewer[p].step = "succeed"
  /\ IF CanFinish(p) /\ verdict = NoReviewer
       THEN /\ verdict' = p
            /\ execution' = [execution EXCEPT ![p] = "COMPLETED"]
            /\ CloseClaim(p, "COMPLETED")
            /\ Step(p, "ok")
       ELSE Step(p, "bad") /\ UNCHANGED <<row, execution, verdict>>
  /\ UNCHANGED <<run, orchestrator>>

FinishFailure(p) ==
  /\ reviewer[p].step = "fail"
  /\ IF CanFinish(p)
       THEN /\ execution' = [execution EXCEPT ![p] = "FAILED"]
            /\ CloseClaim(p, "FAILED")
       ELSE UNCHANGED <<row, execution>>
  /\ Step(p, "bad")
  /\ UNCHANGED <<run, verdict, orchestrator>>

(* A death, also between the commit of the verdict and the exit.            *)
ReviewerDies(p) ==
  /\ reviewer[p].step \in Alive \cup {"ok"}
  /\ orchestrator.child = p => orchestrator.step \in {"wait", "dead"}
  /\ Step(p, "bad")
  /\ UNCHANGED <<run, row, execution, verdict, orchestrator>>

-----------------------------------------------------------------------------
(* hermesops-recovery and hermesops-transaction rollback. *)

\* Variants: recover_active_assignments is not called; it closes only claims.
AbandonNone == UNCHANGED row
AbandonClaims == row' = [n \in Numbers |->
                           IF row[n].status = "CLAIMED"
                             THEN [row[n] EXCEPT !.status = "FAILED"] ELSE row[n]]
AbandonRows == row' = [n \in Numbers |->
                         IF Active(n) THEN [row[n] EXCEPT !.status = "FAILED"]
                         ELSE row[n]]

(* cleanup_run_resources, its transaction.  The run is not over.            *)
Recover ==
  /\ run # "CANCELLED"
  /\ execution' = [p \in Reviewers |-> IF execution[p] = "RUNNING" THEN "FAILED"
                                       ELSE execution[p]]
  /\ AbandonRows
  /\ UNCHANGED <<run, verdict, reviewer, orchestrator>>

RollbackStart ==
  /\ run # "CANCELLED"
  /\ run' = "RECOVERING"
  /\ UNCHANGED <<row, execution, verdict, reviewer, orchestrator>>

RollbackFinish ==
  /\ run = "RECOVERING"
  /\ run' = "CANCELLED"
  /\ UNCHANGED <<row, execution, verdict, reviewer, orchestrator>>

-----------------------------------------------------------------------------
OrchestratorNext == Assign \/ Launch \/ ChildEnds \/ TimeOut \/ Tidy \/ Close
                    \/ Abort
ReviewerNext(p) == Check(p) \/ Reserve(p) \/ Work(p) \/ FinishVerdict(p)
                   \/ FinishFailure(p)

Next ==
  \/ OrchestratorNext \/ OrchestratorDies
  \/ \E p \in Reviewers :
       \/ ReviewerNext(p) \/ ReviewerDies(p)
       \/ \E n \in Numbers : LaunchAgain(p, n)
  \/ Recover \/ RollbackStart \/ RollbackFinish

Spec == Init /\ [][Next]_vars

(* The orchestrator kills a reviewer that is too slow, so all processes     *)
(* advance; that a local Git command ends is assumed.  A sweep of the       *)
(* supervisor recovers a run that nobody keeps alive.                      *)
Stale == /\ orchestrator.step \in Ended
         /\ \A p \in Reviewers : reviewer[p].step \notin Alive

FairSpec ==
  /\ Spec
  /\ WF_vars(OrchestratorNext)
  /\ \A p \in Reviewers : WF_vars(ReviewerNext(p))
  /\ WF_vars(Stale /\ Recover)

-----------------------------------------------------------------------------
(* Properties. *)

(* docs/REVIEWERS.md:50, a verdict completes its assignment: one is on      *)
(* record exactly when one assignment is COMPLETED, by the process that    *)
(* claimed it.  A reviewer whose assignment the orchestrator or the        *)
(* recovery has closed meanwhile leaves no verdict behind, however late it *)
(* ends.                                                                   *)
VerdictIsAssigned ==
  /\ \A n \in Numbers : row[n].status = "COMPLETED" =>
       /\ verdict = row[n].execution
       /\ \A m \in Numbers : row[m].status = "COMPLETED" => m = n
  /\ verdict # NoReviewer =>
       \E n \in Numbers : row[n] = [status |-> "COMPLETED", execution |-> verdict]
  /\ \A p \in Reviewers : execution[p] = "COMPLETED" <=> verdict = p

(* docs/ORCHESTRATION.md:91, one active assignment per run.  The index      *)
(* would refuse a second one, and end the review; but whatever became of   *)
(* the last try, its row is closed when the next one is created.           *)
RetryStartsClean ==
  orchestrator.step = "assign" => \A n \in Numbers : ~Active(n)

(* docs/REVIEWERS.md:49, the reviewer claims the row atomically with its    *)
(* task and execution: behind a claim there is a running execution of the  *)
(* same process, also while the recovery closes both, and no other one.    *)
ClaimIsRunning ==
  \A n \in Numbers : row[n].status = "CLAIMED" =>
    /\ execution[row[n].execution] = "RUNNING"
    /\ \A p \in Reviewers : execution[p] = "RUNNING" => p = row[n].execution

(* docs/REVIEWERS.md:51, assignments do not stay active: the reviewer, the  *)
(* orchestrator or the recovery closes them, unless the run is rolled back *)
(* behind the back of all three.                                           *)
ReviewIsSettled ==
  \A n \in Numbers : Active(n) ~> ~Active(n) \/ run = "CANCELLED"

-----------------------------------------------------------------------------
(* What the documents say and the programs do not do. *)

(* docs/REVIEWERS.md:51, the recovery closes abandoned active rows.  Once   *)
(* the orchestrator has died and the run is rolled back, nobody looks at   *)
(* its assignment again.                                                   *)
AbandonedIsClosed == \A n \in Numbers : Active(n) ~> ~Active(n)

(* docs/ORCHESTRATION.md:77, a decision is never retried.  The process may  *)
(* die behind the commit of its verdict, with a transcript that happens to *)
(* mention a rate limit.                                                   *)
DecisionIsNotRetried ==
  [][verdict # NoReviewer => \A n \in Numbers :
       row[n].status = "NONE" => row'[n].status = "NONE"]_vars
=============================================================================
