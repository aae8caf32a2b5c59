-------------------------- MODULE ControllerCommands --------------------------
(* The commands of the Controller on objectives and reviews, and what it    *)
(* takes to carry each of them out once over a network that loses and       *)
(* repeats requests: every command reserves its Idempotency-Key, makes its  *)
(* change, records an operation and stores its answer in one transaction.   *)
(*                                                                         *)
(* The objectives are those of Orchestration, whose daemon, recovery and   *)
(* command line go on beside the Controller.  The Controller's own version *)
(* of the commands is translated here from its own source.                 *)
EXTENDS Orchestration, Sequences

CONSTANTS
  Requests,   \* the requests clients make: session, key, command, target
  Reviews,    \* recorded reviews
  Awaits,     \* request -> those whose answers its client awaits first
  Verdict,    \* review -> its verdict
  Handlers,   \* threads of the server
  MaxLosses   \* bound on what is lost, repeated or refused for lack of a lock

ObjectiveCommands == {"create", "pause", "resume", "cancel"}
ReviewCommands == {"acknowledge-debt", "request-human-review", "rerun"}
Verdicts == {"PASS", "PASS_WITH_DEBT", "FIX", "SECURITY", "PERFORMANCE",
             "ARCHITECTURE", "HUMAN"}

ASSUME CommandAssumption ==
  /\ \A q \in Requests :
       \/ q.command \in {"csrf", "create"}
       \/ q.command \in ObjectiveCommands \ {"create"} /\ q.target \in Planned
       \/ q.command \in ReviewCommands /\ q.target \in Reviews
  /\ Awaits \in [Requests -> SUBSET Requests]
  /\ Verdict \in [Reviews -> Verdicts]
  /\ {"pause", "resume", "cancel"} \subseteq Commands
  /\ MaxLosses \in Nat

VARIABLES
  ledger,     \* controller_idempotency and controller_review_idempotency
  operations, \* controller_operations and controller_review_operations
  decision,   \* controller_review_actions: review -> the recorded command
  copies,     \* request -> how many copies of it are under way
  handler,    \* thread -> what it does
  answers,    \* request -> the answers its client has received
  losses      \* what was lost, repeated or refused so far

storeVars   == <<ledger, operations, decision>>
networkVars == <<copies, answers, losses>>
commandVars == <<storeVars, networkVars, handler>>
allVars == <<vars, commandVars>>

Reject  == [status |-> "refused", operation |-> 0]   \* a 4xx problem
Failure == [status |-> "failed", operation |-> 0]    \* a 5xx problem
Answers == [status : {"refused", "failed", "done"}, operation : Nat]

(* The tables of the two stores are independent of each other. *)
Store(q) == IF q.command \in ReviewCommands THEN "review" ELSE "objective"
Rows == [store : {"review", "objective"}, request : Requests, operation : Nat]

Idle == [pc |-> "idle"]
Executing(q) == [pc |-> "execute", request |-> q]
Replying(q, a) == [pc |-> "reply", request |-> q, answer |-> a]
HandlerStates == {Idle} \cup [pc : {"execute"}, request : Requests]
                 \cup [pc : {"reply"}, request : Requests, answer : Answers]

CommandTypeOK ==
  /\ ledger \subseteq Rows
  /\ operations \in Seq(Requests)
  /\ decision \in [Reviews -> {"none"} \cup ReviewCommands]
  /\ copies \in [Requests -> Nat]
  /\ handler \in [Handlers -> HandlerStates]
  /\ answers \in [Requests -> SUBSET Answers]
  /\ losses \in 0 .. MaxLosses

CommandInit ==
  /\ Init
  /\ ledger = {} /\ operations = <<>>
  /\ decision = [v \in Reviews |-> "none"]
  /\ copies = [q \in Requests |-> 0]
  /\ handler = [h \in Handlers |-> Idle]
  /\ answers = [q \in Requests |-> {}]
  /\ losses = 0

-----------------------------------------------------------------------------
(* The commands on objectives, as changes to the queue. *)

HasPlan(p) == plan[p] # "NONE"
RunningTasks(p) == IF HasPlan(p) THEN RunningOf(p) ELSE {}
(* _integration_point_of_no_return and _active_run_count *)
Integrating(p) == HasPlan(p) /\ \E r \in RunsOf(p) :
                    run[r] \in {"committing", "completed"} \/ r \in prepared
OpenRuns(p) == IF HasPlan(p) THEN {r \in RunsOf(p) : run[r] \in Holding} ELSE {}

SetObjective(p, s) == objective' = [objective EXCEPT ![p] = s]
QueueRest == <<planning, planner, attempts, runVars, exec, loop, boundVars>>

(* _cancel_plan *)
CancelLinkedPlan(p) ==
  IF HasPlan(p)
    THEN /\ task' = [t \in Tasks |->
                       IF PlanOf[t] = p /\ task[t] \in {"PENDING", "READY", "BLOCKED"}
                         THEN "CANCELLED" ELSE task[t]]
         /\ IF plan[p] \in Terminal
              THEN UNCHANGED <<plan, planError>>
              ELSE /\ plan' = [plan EXCEPT ![p] = "CANCELLED"]
                   /\ planError' = [planError EXCEPT ![p] = "none"]
    ELSE UNCHANGED <<task, plan, planError>>

(* create_objective, for enabled projects *)
CreateObjective(p) ==
  /\ p \in Planned /\ objective[p] = "NONE" /\ ~HasPlan(p)
  /\ SetObjective(p, "QUEUED")
  /\ UNCHANGED <<plan, planError, task, QueueRest>>

(* command_objective.  PAUSED is a success without a change. *)
PauseObjective(p) ==
  /\ objective[p] \notin {"NONE", "CANCEL_REQUESTED"} \cup Terminal
  /\ IF objective[p] = "PAUSED" THEN UNCHANGED objective
     ELSE SetObjective(p, IF objective[p] = "PLANNING" \/ RunningTasks(p) # {}
                            THEN "PAUSE_REQUESTED" ELSE "PAUSED")
  /\ UNCHANGED <<plan, planError, task, QueueRest>>

\* Variant: every resumed objective goes back to the queue.
AlwaysQueued(p) == "QUEUED"
(* _resumed_status_for_plan *)
ResumedStatus(p) ==
  CASE plan[p] \in {"NONE", "DRAFT", "READY", "RUNNING"} -> "QUEUED"
    [] plan[p] = "BLOCKED" -> "RUNNING"
    [] plan[p] \in Terminal -> plan[p]

ResumeObjective(p) ==
  /\ objective[p] = "PAUSED"
  /\ SetObjective(p, ResumedStatus(p))
  /\ UNCHANGED <<plan, planError, task, QueueRest>>

CancelObjective(p) ==
  /\ objective[p] \notin {"NONE"} \cup Terminal
  /\ ~Integrating(p)
  /\ IF objective[p] = "PLANNING" \/ RunningTasks(p) # {} \/ OpenRuns(p) # {}
       THEN SetObjective(p, "CANCEL_REQUESTED") /\ UNCHANGED <<task, plan, planError>>
       ELSE SetObjective(p, "CANCELLED") /\ CancelLinkedPlan(p)
  /\ UNCHANGED QueueRest

ObjectiveCommand(q) ==
  \/ q.command = "create" /\ \E p \in Planned : CreateObjective(p)
  \/ q.command = "pause" /\ PauseObjective(q.target)
  \/ q.command = "resume" /\ ResumeObjective(q.target)
  \/ q.command = "cancel" /\ CancelObjective(q.target)

(* What command_objective answers with a problem; a create is refused for   *)
(* its projects, whatever the queue.                                       *)
ObjectiveRefused(q) ==
  LET old == objective[q.target] IN
  CASE q.command = "create" -> TRUE
    [] q.command = "pause"  -> old \in {"NONE", "CANCEL_REQUESTED"} \cup Terminal
    [] q.command = "resume" -> old # "PAUSED"
    [] q.command = "cancel" -> old \in {"NONE"} \cup Terminal \/ Integrating(q.target)

-----------------------------------------------------------------------------
(* The commands on reviews: at most one human decision for each.           *)

\* Variant: only the same decision is refused the second time.
OtherDecisionGoes(q) ==
  /\ q.command # "rerun"
  /\ q.command = "acknowledge-debt" => Verdict[q.target] = "PASS_WITH_DEBT"
  /\ q.command = "request-human-review" => Verdict[q.target] # "HUMAN"
  /\ decision[q.target] # q.command
ReviewAllowed(q) ==
  /\ q.command # "rerun"
  /\ q.command = "acknowledge-debt" => Verdict[q.target] = "PASS_WITH_DEBT"
  /\ q.command = "request-human-review" => Verdict[q.target] # "HUMAN"
  /\ decision[q.target] = "none"

ReviewCommand(q) ==
  /\ q.command \in ReviewCommands /\ ReviewAllowed(q)
  /\ decision' = [decision EXCEPT ![q.target] = q.command]

-----------------------------------------------------------------------------
(* The transaction of a command. *)

Answer(h, a) ==
  handler' = [handler EXCEPT ![h] = Replying(handler[h].request, a)]
Done(n) == [status |-> "done", operation |-> n]

(* _record_operation and _audit, then _complete_idempotency *)
Record(q) == operations' = Append(operations, q)
Keep(q, n) == ledger' = ledger \cup {[store |-> Store(q), request |-> q, operation |-> n]}

(* The row of the key: PRIMARY KEY (session_fingerprint, key_hash). *)
Kept(q) == {row \in ledger : /\ row.store = Store(q)
                             /\ row.request.session = q.session
                             /\ row.request.key = q.key}

\* Variant: the conflict has no answer.
ReplayOwn(h) ==
  /\ handler[h].pc = "execute"
  /\ \E row \in Kept(handler[h].request) :
       row.request = handler[h].request /\ Answer(h, Done(row.operation))
  /\ UNCHANGED <<vars, storeVars, networkVars>>
(* _replay_or_reserve finds the key: the stored answer, or a conflict with  *)
(* another request that used it.                                           *)
Replay(h) ==
  /\ handler[h].pc = "execute"
  /\ \E row \in Kept(handler[h].request) :
       Answer(h, IF row.request = handler[h].request THEN Done(row.operation)
                                                     ELSE Reject)
  /\ UNCHANGED <<vars, storeVars, networkVars>>

(* It reserves the key, and the command succeeds: the operation is recorded *)
(* and the answer is stored for the key.                                   *)
\* Variant: the answer is not stored.
PerformUnkept(h) ==
  LET q == handler[h].request  n == Len(operations) + 1 IN
  /\ handler[h].pc = "execute" /\ Kept(q) = {}
  /\ \/ q.command \in ObjectiveCommands /\ ObjectiveCommand(q) /\ UNCHANGED decision
     \/ ReviewCommand(q) /\ UNCHANGED vars
  /\ Record(q)
  /\ Answer(h, Done(n))
  /\ UNCHANGED <<ledger, networkVars>>
Perform(h) ==
  LET q == handler[h].request  n == Len(operations) + 1 IN
  /\ handler[h].pc = "execute" /\ Kept(q) = {}
  /\ \/ q.command \in ObjectiveCommands /\ ObjectiveCommand(q) /\ UNCHANGED decision
     \/ ReviewCommand(q) /\ UNCHANGED vars
  /\ Record(q) /\ Keep(q, n)
  /\ Answer(h, Done(n))
  /\ UNCHANGED <<networkVars>>

(* issue_csrf keeps its token under the key like an answer; no operation.   *)
IssueCsrf(h) ==
  LET q == handler[h].request IN
  /\ handler[h].pc = "execute" /\ Kept(q) = {} /\ q.command = "csrf"
  /\ Keep(q, 0)
  /\ Answer(h, Done(0))
  /\ UNCHANGED <<vars, operations, decision, networkVars>>

(* The command is refused, and the transaction rolls the reservation back.  *)
Refuse(h) ==
  LET q == handler[h].request IN
  /\ handler[h].pc = "execute" /\ Kept(q) = {}
  /\ \/ q.command \in ObjectiveCommands /\ ObjectiveRefused(q)
     \/ q.command \in ReviewCommands /\ ~ReviewAllowed(q)
  /\ Answer(h, Reject)
  /\ UNCHANGED <<vars, storeVars, networkVars>>

(* BEGIN IMMEDIATE gives up after busy_timeout, or the disk fails.          *)
FailToExecute(h) ==
  /\ handler[h].pc = "execute" /\ losses < MaxLosses
  /\ losses' = losses + 1
  /\ Answer(h, Failure)
  /\ UNCHANGED <<vars, storeVars, copies, answers>>

-----------------------------------------------------------------------------
(* Requests on their way. *)

(* authenticate and verify_csrf_token: the session or the token may have   *)
(* expired, and the client may get new ones for its next request.          *)
Admitted(q) == {Executing(q), Replying(q, Reject)}

(* The thread takes a request in; this is outside of the transaction. *)
Accept(h, q) ==
  /\ handler[h] = Idle /\ copies[q] > 0
  /\ copies' = [copies EXCEPT ![q] = @ - 1]
  /\ \E s \in Admitted(q) :
       handler' = [handler EXCEPT ![h] = s]
  /\ UNCHANGED <<vars, storeVars, answers, losses>>

Reply(h) ==
  /\ handler[h].pc = "reply"
  /\ handler' = [handler EXCEPT ![h] = Idle]
  /\ answers' = [answers EXCEPT ![handler[h].request] = @ \cup {handler[h].answer}]
  /\ UNCHANGED <<vars, storeVars, copies, losses>>

(* A client sends its request again until it is answered. *)
Final(q) == \E a \in answers[q] : a.status # "failed"
Underway(q) == \/ copies[q] > 0
               \/ \E h \in Handlers : handler[h] # Idle /\ handler[h].request = q
Send(q) ==
  /\ ~Final(q) /\ ~Underway(q)
  /\ \A e \in Awaits[q] : Final(e)
  /\ copies' = [copies EXCEPT ![q] = 1]
  /\ UNCHANGED <<vars, storeVars, answers, losses, handler>>

(* A client that lost patience repeats it, or its connection breaks. *)
Repeat(q) ==
  /\ Underway(q) /\ losses < MaxLosses
  /\ losses' = losses + 1
  /\ copies' = [copies EXCEPT ![q] = @ + 1]
  /\ UNCHANGED <<vars, storeVars, answers, handler>>

LoseRequest(q) ==
  /\ copies[q] > 0 /\ losses < MaxLosses
  /\ losses' = losses + 1
  /\ copies' = [copies EXCEPT ![q] = @ - 1]
  /\ UNCHANGED <<vars, storeVars, answers, handler>>

LoseReply(h) ==
  /\ handler[h].pc = "reply" /\ losses < MaxLosses
  /\ losses' = losses + 1
  /\ handler' = [handler EXCEPT ![h] = Idle]
  /\ UNCHANGED <<vars, storeVars, copies, answers>>

(* The server dies: what was not committed never happened. *)
Restart ==
  /\ \E h \in Handlers : handler[h] # Idle
  /\ losses < MaxLosses
  /\ losses' = losses + 1
  /\ handler' = [h \in Handlers |-> Idle]
  /\ UNCHANGED <<vars, storeVars, copies, answers>>

ServerStep(h) == Replay(h) \/ Perform(h) \/ IssueCsrf(h) \/ Refuse(h) \/ Reply(h)

CommandNext ==
  \/ Next /\ UNCHANGED commandVars
  \/ \E h \in Handlers : \/ ServerStep(h) \/ FailToExecute(h) \/ LoseReply(h)
                         \/ \E q \in Requests : Accept(h, q)
  \/ \E q \in Requests : Send(q) \/ Repeat(q) \/ LoseRequest(q)
  \/ Restart

CommandSpec == CommandInit /\ [][CommandNext]_allVars

-----------------------------------------------------------------------------
(* Properties. *)

(* A key is worth one operation: however often a request is repeated, lost, *)
(* raced by another one with its key or interrupted by the server's death,  *)
(* it is carried out at most once, and whoever is told that it was done is  *)
(* told of the one operation that did it.                                  *)
CarriedOutOnce ==
  /\ \A i, j \in 1 .. Len(operations) :
       /\ operations[i].session = operations[j].session
       /\ operations[i].key = operations[j].key
       /\ Store(operations[i]) = Store(operations[j])
       => i = j
  /\ \A q \in Requests : \A a \in answers[q] :
       a.status = "done" /\ q.command # "csrf" =>
         a.operation \in 1 .. Len(operations) /\ operations[a.operation] = q

(* A human decision that was confirmed stands: no later request, of         *)
(* whatever session, replaces it.                                          *)
ConfirmedDecisionStands ==
  \A q \in Requests : \A a \in answers[q] :
    a.status = "done" /\ q.command \in ReviewCommands => decision[q.target] = q.command

(* The Controller is one more operator of the queue: whatever it does to an *)
(* objective, its plan and its tasks is a command of hermesops-objectives   *)
(* in the same state, so what Orchestration shows of the queue holds with   *)
(* the Controller beside it.                                               *)
OperatesTheQueue == Spec

(* A client that goes on asking is answered in the end, through conflicts,  *)
(* lost answers and restarts.                                              *)
RequestIsAnswered(q) == copies[q] > 0 ~> Final(q)

-----------------------------------------------------------------------------
(* What the documents say and the programs do not do. *)

(* docs/api/CONTROLLER_API_V1.md:154, a key is scoped to actor and operation; *)
(* the one operator who retries in a new session is served a second time.  *)
OncePerActor ==
  \A i, j \in 1 .. Len(operations) :
    /\ operations[i].key = operations[j].key
    /\ operations[i].command = operations[j].command
    /\ operations[i].target = operations[j].target
    => i = j
=============================================================================
