# HermesOps in TLA+

HermesOps lets LLM agents work on Git repositories of one host.  It is a set
of command-line programs around one SQLite file and one Git repository per
project.  Nobody holds a lock in memory: every program opens the database with
`BEGIN IMMEDIATE` for a short transaction, runs Git or a container for minutes
with no transaction open, and comes back for another transaction.  What makes
the system hard is what other programs, or the recovery, do in between, and
what a program that dies leaves behind.  That is what these modules describe.

## 1. Inventory

| part | state it keeps | operations | talks to |
|---|---|---|---|
| Git transactions (`hermesops-transaction`) | `runs`, `project_locks`, `snapshots`, `git_transactions`; a branch and a worktree per run | begin, submit, rollback | Git |
| Workers (`hermesops-worker`, `hermes-worker-entry`) | `tasks`, `worker_executions` | launch: reserve, run a container, import its commit, finish | Docker, Git |
| Reviewers (`hermesops-reviewer`, `hermesops_review_assignment`) | `reviewer_executions`, `review_results`, `reviewer_assignments` | launch; create, claim, finish, fail, recover an assignment | Docker, model |
| Reviewed integration (`hermesops-integrator`) | `integration_executions`, `approvals`; the default branch | apply | Git |
| Recovery (`hermesops-recovery`) | `recovery_executions`, and every row above | assess, recover, sweep | Git, Docker |
| Supervisor (`hermesops-supervisor`) | `supervisor_instances`, `supervisor_sweeps`, a lock file | one sweep per interval | recovery |
| Orchestrator (`hermesops-orchestrator`) | `orchestration_plans`, `_tasks`, `_attempts`, `_dependencies`; a daemon with a thread pool | refresh plan states, reserve and drive attempts, cancel, reconcile at start | all programs above |
| Objective queue (`hermesops-objectives`, orchestrator) | `objective_queue`, `objective_planning_attempts` | submit, plan, promote, pause, resume, cancel, synchronise | planner, orchestrator |
| Planner (`hermesops-planner`, `hermesops-planner-entry`) | planning files | turn an objective into a plan | model |
| Notifier (`hermesops-notifier`) | `notification_outbox`, `notification_deliveries` | collect, claim, deliver, retry | Telegram |
| Controller commands (`objective_commands`, `review_commands`, `project_commands`) | idempotency keys with their answers, operations, recorded decisions | create, pause, resume, cancel; acknowledge-debt, request-human-review; the life of a project | the queue, the registry |
| Event journal and WebSocket transport | `controller_event_journal`; a thread, a cursor and a slot per stream | emit inside a command's transaction; subscribe, replay, follow | console |
| Browser sessions (`browser_auth`, `hermesops-controller-operator`) | credential, sessions, login keys, audit rows; the file with the first password | login, logout, change of the password | console |
| Hermesfile and sandbox profiles | drafts and revisions | create and update with `If-Match` | console |
| Agent runtime and model provider | profile directory and containers of one execution | run an agent, stream a model | Docker, model endpoint |
| Registry, roles, database, control | `projects`, `role_profiles`, migrations | synchronise, validate, migrate, print | files |
| Console, installation, systemd units | none | user interface, deployment | controller API |

The behaviours that are hard to get right, and hard to test:

* the two transactions of `begin` around minutes of Git work, raced by the
  recovery's staleness threshold;
* checks that are made outside the transaction that acts on them (`submit`,
  `apply`, the recovery's assessment);
* an integrator that dies, or fails, between moving the default branch and
  recording that it did;
* a human gate or a cancellation that arrives while another task of the same
  plan is being integrated;
* sweeps: they must reach every run, forever, and end in a state a person can
  act on;
* the daemon's thread pool against the operator's pause, resume and cancel,
  and a restart of the daemon with programs of its last life still on record;
* the Controller as a second operator of the queue, behind a network that loses
  and repeats its requests;
* a login that verifies a password for a second and decides on it afterwards;
* a stream that follows a journal with a cursor across lost connections, while
  its session may be revoked;
* an orphan sweep that reads its tables one after the other and removes
  containers and clones while others start and work.

Which properties make a part correct:

* the run protocol: one writer per project; only an approved result reaches the
  default branch; the tables tell the truth about the branch; what a death
  interrupted is settled; a gate waits for a person who can answer it;
* the orchestrator: a task never gets ahead of its parents; integrated work is
  recorded; what is stopped has nothing in execution; a cancellation and an
  integration exclude each other, and both requests take effect;
* the notifier: the history of a row tells its status; a closed row is closed;
  every event ends in a delivery or a dead letter;
* reviewer assignments: one verdict per run, by the process that holds the
  claim, whatever the transport repeats; no assignment stays active;
* project registry: a command takes effect once per idempotency key and on what
  its sender has read; row, file and directories stay in step; an archived
  project has no work;
* controller commands: a key is worth one operation, a confirmed decision
  stands, a client that goes on asking is answered, and nothing is done to the
  queue that its own command line would not do;
* streams: no event is skipped, a revoked session is cut off, a slot is given
  back once;
* browser sessions: no session outlives the password it was granted for, failed
  logins are limited in every window, what has ended stays ended;
* workspaces: the sweep spares what a live program has made, and what dead
  programs leave behind is removed in the end, as long as sweeps get that far.

## 2. Modules

| module | models | status |
|---|---|---|
| `ProjectWriter` | what a project promises: one writer at a time, its result on top of what it saw, or not at all | abstract specification |
| `RunLifecycle` | where a run may go, with the statuses of a working run seen as one | abstract specification |
| `RunTransaction`, `MCRunTransaction` | transaction, worker, reviewer, integrator, recovery and supervisor on the rows of a run | checked |
| `RunTransactionProofs` | theorems about it, for every value of its constants | proved |
| `ReviewAssignment`, `MCReviewAssignment` | the review of one run: assignments, tries, reviewer processes, recovery | checked |
| `ReviewAssignmentProofs` | theorems about it | proved |
| `Orchestration`, `MCOrchestration` | the daemon's loop and threads, the objective queue, the operator's commands | checked |
| `Notifier`, `MCNotifier` | collection, outbox, leases and delivery | checked |
| `NotifierProofs` | theorems about it | proved |
| `ProjectRegistry`, `MCProjectRegistry` | the Controller's project commands, the compatibility file, `hermesops-registry sync` | checked |
| `ProjectRegistryProofs` | theorems about it | proved |
| `ControllerCommands`, `MCControllerCommands` | the Controller's commands on objectives and reviews, composed with `Orchestration` | checked |
| `OrchestrationProofs` | theorems about `Orchestration` and `ControllerCommands`, the refinement of the one by the other among them | proved |
| `EventStream`, `MCEventStream` | the event journal, its streams, the slots of the server | checked |
| `EventStreamProofs` | theorems about it | proved |
| `BrowserSessions`, `MCBrowserSessions` | credential, logins, sessions and their limits | checked |
| `BrowserSessionsProofs` | theorems about it | proved |
| `Workspaces`, `MCWorkspaces` | clone, sandbox, container and profile of an execution, and the orphan sweep | checked |
| `WorkspacesProofs` | theorems about it | proved |

`RunLifecycle` joins the two large modules.  `RunTransaction` implements it
(`ImplementsLifecycle`): it is what the programs of one run do to `runs.status`.
`Orchestration` starts these programs and moves a run only along it
(`KeepsRunLifecycle`), so each of its program steps is one that the detailed
model has.

`ControllerCommands` extends `Orchestration`: its steps are those of the queue
and the daemon, or those of the Controller, whose commands are translated from
the Controller's own source.  That these write the same rows in the same states
as `hermesops-objectives` is a refinement, `OperatesTheQueue`: without the
Controller's own tables the composition is an `Orchestration`, so every safety
property shown there holds with the Controller beside it.

`ReviewAssignment` and `Workspaces` look at the same executions as
`RunTransaction` with more detail: the first at the tries of one review, the
second at what an execution leaves on the host.  They take from it that a run is
committed or rolled back only when no program works on it.  That nobody starts
a program on a run that is taken over is not taken: in `Workspaces` a worker or
reviewer may be launched while the recovery is at work on its run.

### RunTransaction

A step is one SQLite transaction or one Git command; the code between two steps
is a value of `pc[r]` (the program driving run `r`) or of `rec` (the recovery).
The order of the steps is the order in the programs, and each guard is what the
transaction reads again, not what was true when the program checked.

| variable | in the code |
|---|---|
| `status`, `decision`, `result`, `base`, `older` | columns of the run's row in `runs` (`result_commit` set or not; `created_at` as the set of earlier runs) |
| `lock` | `project_locks` |
| `snapshot`, `task`, `review`, `integration`, `approval` | the run's row in `snapshots`, a RUNNING row in `tasks`, the verdict in `review_results`, the status of the latest row in `integration_executions` and `approvals` |
| `cancelled` | plans whose objective is `CANCEL_REQUESTED` |
| `main`, `worktree` | Git: the default branch, and the worktree with its branch |
| `pc`, `rec`, `swept`, `crashes` | where each process is; a death sets it to `idle` and leaves the rows as they are |

A commit is the set of results it contains.  Run `r`, begun at `base[r]`,
produces the commit `base[r] \cup {r}`; a fast-forward is possible exactly when
the branch is still at `base[r]`, and a branch at that commit is the evidence
by which the recovery recognises an integration that was interrupted.

Two facts of the deployment are constants.  `Overlap` says whether the recovery
may meet a run whose program is alive: the sweep takes runs whose heartbeat is
older than a threshold, so it is FALSE when no program sleeps longer than that,
and TRUE otherwise.  `FaultyBegins` are the runs whose snapshot or worktree
creation may fail.

What is abstracted: projects are registered and enabled, the operator is one
owner, one program drives a run at a time, a snapshot file that exists passes
its hashes.  A review is its reservation and its end, with one process; what
may happen between the two is `ReviewAssignment`.
A repository that is dirty, absent or on another branch when the recovery looks
at it is the choice `usable` of `Assess`.

`ProjectWriter` is implemented by `RunTransaction` under the mapping `Writer`:
the writer of a project is the holder of its lock, its history is the default
branch, and what a run saw is its base commit.

### ReviewAssignment

One run under review.  The orchestrator drives the review in tries; each try has
an assignment row of its own and a process of `hermesops-reviewer`, and the
recovery and the operator act whenever they like.

| variable | in the code |
|---|---|
| `run` | `runs.status`: REVIEWING, or on its way through a rollback |
| `row` | `reviewer_assignments` by `assignment_number`: status and `reviewer_execution_id` |
| `execution` | the rows of `reviewer_executions` and `tasks` of a process, which are always written together |
| `verdict` | `review_results`: whose verdict the run has |
| `reviewer` | the processes, each with the row it was given |
| `orchestrator` | `launch_reviewer_with_transport_retry`: its step, row, child and number of tries |

| actions | in the code |
|---|---|
| `Assign`, `Launch`, `ChildEnds`, `TimeOut`, `Tidy`, `Close`, `Abort` | `launch_reviewer_with_transport_retry`, `create_assignment`, `fail_active_assignment`, `subprocess.run` |
| `Check`, `Reserve`, `Work`, `FinishVerdict`, `FinishFailure` | `load_run`, `reserve_review` with `claim_assignment`, `finish_review` with `finish_assignment` |
| `LaunchAgain` | an operator who repeats the command line of a try (`Repeats`) |
| `Recover`, `RollbackStart`, `RollbackFinish` | `cleanup_run_resources` with `recover_active_assignments`; `hermesops-transaction rollback` |
| `ReviewerDies`, `OrchestratorDies` | deaths, also behind the commit of a verdict |

Abstracted: roles, event rows and times; whether an error counts as transient
(a pattern in its text or in the execution's log) is a free choice; the
integration that follows a verdict is in `RunTransaction`.

### Orchestration

A step is one transaction of the daemon, or a program it starts and waits for.
`loop` is where the main loop of `daemon_loop` is, and `exec[t]` what the thread
of task `t` (`execute_task`) does next; a crash forgets both.

| variable | in the code |
|---|---|
| `objective`, `planning` | `objective_queue.status`, `planning_attempt_count` |
| `planner` | the planning thread's objective |
| `plan`, `planError` | `orchestration_plans.status`, and the classes of `last_error` that `refresh_plan_states` tells apart |
| `task`, `attempts` | `orchestration_tasks.status`, `attempt_count` |
| `run`, `linked` | `runs.status` by `RunLifecycle`; `orchestration_attempts.run_id` is set |
| `approvals`, `prepared` | a PENDING approval, an approving integration row of the run |

| actions | in the code |
|---|---|
| `ReserveAttempt`, `Begin`, `Link`, `Work`, `Check`, `Apply`, `Commit` | `reserve_attempt`, `execute_pipeline` |
| `Rollback`, `RollbackEnd` | `rollback_run_best_effort` |
| `FinishSuccess`, `FinishWaitingHuman`, `FinishCancellationRecovery`, `FinishFailure`, `FinishRefresh` | the five endings of an attempt, each followed by `refresh_plan_states` |
| `Start`, `RefreshNext`, `ReconcileObjectives` | `reconcile_interrupted_tasks`, `reconcile_interrupted_objectives` |
| `CleanWaiting`, `CleanWaitingEnd`, `Synchronize`, `Dispatch`, `Promote`, `RefreshPromoted`, `SubmitRunnable` | one pass of the loop |
| `FinishPlanning` | `execute_objective_planning` |
| `Submit`, `Pause`, `Resume`, `Cancel`, `ActivatePlan`, `CancelPlan`, `RollBackWaiting` | the operator's commands |
| `Recover`, `Crash` | the recovery; the death of the daemon with its programs |

Abstracted: which queued objective or runnable task comes first (priority,
`not_before`) is a free choice; the supervisor's health file is the choice
`healthy`; the two transactions of `submit-plan` (the plan, then the row of its
objective) and those of `activate` (the status, then the refresh) are one step
each; heartbeats, status files and a graceful stop are left out.  The
recovery of `Orchestration` may take any run that no program drives, at any
time, and do whatever `RunLifecycle!RecoveryMoves` lists.

### Notifier

| variable | in the code |
|---|---|
| `log`, `cursor` | `objective_events` and `events` by rowid; `notification_cursors` |
| `approval` | `approvals.status`: PENDING, or any of the answers |
| `outbox`, `attempts`, `leased` | `notification_outbox.status`, `attempt_count`, `lease_expires_at` in the future |
| `deliveries` | `notification_deliveries` |
| `worker` | the daemon and the operator's `run-once` or `test-message --deliver` between the transactions of `deliver_pending` |

`Collect` is `collect_events`, `Claim` and `Read` the two connections of
`claim_one`, `Send` the transport, `Record` and `RecordRefused` are
`finish_delivery`, `Reconcile` is `reconcile_abandoned_deliveries` alone.  A row
stands for one event on one channel, as its `dedupe_key` does.  The backoff is
abstracted to a claim that may come at any time.  Nothing is assumed of timing:
a lease may expire, and the row's former owner may record its attempt, also
between the commit of a claim and the read of the claimed row.  What that does
to a row is what `Overtaking` is for: the workers that claimed it before it was
closed, and whose attempt would still be accepted as its next one.

### ProjectRegistry

One project: requests about different projects share nothing but the two locks.
A thread of the server is a step of one request; a delivery that is answered
from its key's row, or refused before anything was written, changes nothing and
is no step.

| variable | in the code |
|---|---|
| `row`, `done` | the row of `projects`; completed rows of `controller_project_idempotency`, which are committed with operation, audit and event |
| `file`, `repo`, `data` | `config/projects.d/<id>.toml`, the repository and the data directory |
| `writer`, `creating` | SQLite's write lock; `project-create.lock` |
| `view` | what GET has given to the sender of a request: its `If-Match` |
| `busy`, `submitting` | what `_active_work` finds; an operator's `submit` between its check and its insert |
| `sync` | a run of `hermesops-registry sync` between reading the files and its transaction |

| actions | in the code |
|---|---|
| `Stage`, `OpenCreate`, `DeclineCreate`, `Place`, `Cleanup` | `create_project` up to its commit, and the undoing of a failed one |
| `Open`, `Write`, `Restore` | `update_project` and `command_project` around their transaction |
| `Commit`, `Abort` | the end of all three: a commit, or the rollback, which gives the lock away before the files are undone |
| `ReadFiles`, `Apply` | `discover_projects`, `command_sync` |
| `StartWork`, `FinishWork`, `Validate`, `Enqueue` | `hermesops-transaction begin` and a Controller objective, their end; `hermesops-objectives submit` in its two parts |
| `Die` | the death of the server |

`torn` is no state of the code: it remembers that row and file, or row and
directories, may be out of step for one of four reasons: a death, an undoing
that failed (the code ignores the error, or has a rename behind it that it does
not know of), a request that read its backup while another one was about to put
back its own, or a synchronisation that applied what was about to be undone.
`StoresFollowRow` says that nothing else separates them; an undisturbed
synchronisation clears the mark of the file.  A file is abstracted to the name
and the switch it carries: policies, sandbox profiles and URLs travel as the
name does.

### ControllerCommands

A request is a record of session, key, command and target; a client sends it
again until it has an answer.  A thread of the server takes a copy, performs
one transaction, and sends the answer, each of which may be lost.

| variable | in the code |
|---|---|
| `ledger` | `controller_idempotency` and `controller_review_idempotency`, rows with a stored answer |
| `operations` | `controller_operations` and `controller_review_operations`, in the order of their commits |
| `decision` | `controller_review_actions`: the recorded command of a review |
| `handler`, `copies`, `answers` | a thread of the server; the network; what clients were told |

| actions | in the code |
|---|---|
| `Accept`, `Reply` | `authenticate`, `verify_csrf_token`; the response |
| `Replay`, `Perform`, `Refuse`, `IssueCsrf` | `_replay_or_reserve`, then `create_objective`, `command_objective`, the review commands or `issue_csrf`, with `_record_operation` and `_complete_idempotency`, in one transaction |
| `FailToExecute`, `Restart` | a busy database; the death of the server, which rolls an open transaction back |
| `Send`, `Repeat`, `LoseRequest`, `LoseReply` | clients and network |

Abstracted: bodies and their hash (two requests are the same request or not),
titles, the projects of a create, audit rows and journal events (`EventStream`
has those).  A refusal of `create` for its project is possible in any state.

### EventStream

| variable | in the code |
|---|---|
| `journal`, `writer`, `pending` | `controller_event_journal`, SQLite's write lock, the rows its holder has inserted |
| `thread` | a thread of the server: where `_handle_websocket` or `WebSocketSession.run` is, its cursor, its topics, the batch in hand, what is on its way to the client |
| `link`, `applied`, `seen` | the client: its connection, the sequence it comes back with, what it has received or holds in a snapshot |
| `valid` | its session is current |
| `requests`, `streams` | the permits of `_request_slots` and `_websocket_slots` |

| actions | in the code |
|---|---|
| `Begin`, `Emit`, `Commit`, `Rollback` | a command's transaction around `EventJournal.emit` |
| `Connect`, `Refuse`, `Upgrade` | `process_request`, `_handle_websocket` |
| `Subscribe`, `StartReplay`, `CheckSession`, `CheckBounds`, `Drain`, `Send`, `Sent`, `Poll`, `Notice` | the loop of `run` with `_replay_bounds`, `_drain_event_batch` and the ends of a stream |
| `Receive`, `Hangup`, `Lose`, `Revoke`, `Restart` | the client and its network, the end of its session, the server's death |

Abstracted: frames, pings, masks and sizes; a client that is too slow counts as
lost; an aggregate stands for a topic.

### BrowserSessions

| variable | in the code |
|---|---|
| `credential`, `file`, `operator` | `controller_operator_credentials` (version and password), the initial password's file, the steps of `hermesops-controller-operator` |
| `sessions` | `controller_browser_sessions`, by the login that was granted |
| `ledger` | `controller_auth_idempotency` |
| `failures`, `blocks` | the `controller_auth_audit` rows the limit counts |
| `thread`, `clock` | a login between its transactions; the time in ticks |

| actions | in the code |
|---|---|
| `Ensure`, `Initialize`, `Change`, `ApplyChange`, `CleanFile`, `OperatorStops` | `ensure`, `initialize_operator`, `set_password`, and a kill in between |
| `Arrive`, `LookEarly`, `BlockEarly`, `ReadCredential`, `TakeSlot`, `Derive`, `Conclude`, `Respond`, `FailLogin` | `login`: the first look without a transaction, the derivation outside of any, the deciding transaction |
| `Logout`, `Tick` | `logout_context`; time |

Abstracted: hashes, tokens and cookies are model values; a derivation compares
the passwords.

### Workspaces

| variable | in the code |
|---|---|
| `run`, `row`, `recorded` | `runs` (open or over), the execution's row with its task, its `sandbox_container_id` |
| `program` | the process of an execution, with the container ids it knows |
| `clone`, `sandbox`, `host`, `profile` | the executions whose clone, sandbox (inner Docker), agent container (host) and profile exist |
| `sweep` | where the recovery's sweep is, and what it has read so far |

| actions | in the code |
|---|---|
| `Reserve`, `ReservePlanner` | `reserve_execution`, `reserve_review`, the planner's reservation |
| `MakeClone`, `MakeSandbox`, `MakeProfile`, `StartAgent`, `EndWork`, `StopAgent`, `CleanSandbox`, `CleanClone`, `Finish` | `launch` with `HermesRuntime` and its `finally` blocks |
| `StartSweep`, `RecoverRun`, `RemoveOfRun`, `Settle`, `Raise` | `command_sweep` over stale runs, `recover_run` with `cleanup_run_resources`, its decision or the exception that ends the sweep |
| `ReadActive`, `ReadTasks`, `ReadReferences`, `ReadBindings`, `ReadRuns` | the SELECTs of `cleanup_orphans` and its helpers, one after the other |
| `RemoveHosts`, `RemoveSandboxes`, `RemoveProfiles`, `RemoveClones` | what they remove |
| `ReconcilePlanners`, `Die`, `SweepDies` | the daemon's start; deaths |

`sweep.during` and `sweep.overtaken` are no state of the code.  The first
remembers the executions that began, or whose run began, while the sweep was
reading; the second those that were at their launch when the recovery took
their run over, or were launched while it had it.  A run is stale when its
heartbeat is old, and only the agent at work refreshes it (`Beating`), so a
launch does not protect its run; that what follows the agent's work is shorter
than the threshold is assumed.  Any set of stale runs may be old enough, a run
may have become fresh when its turn comes, and a sweep may raise at every run,
as often as it likes.

## 3. Runs

| run | instance | states | question |
|---|---|---|---|
| `run_exclusive` | 2 runs, 1 project, 1 outside commit, 2 deaths, failing begins | 2.0 M | is a project's state consistent at every step, and do the programs implement `ProjectWriter` and `RunLifecycle`? |
| `run_live` | 2 runs, 1 death, no failing begin, fair sweeps | 0.3 M | is everything settled that a death interrupted? |
| `orch_plan` | two parallel pipelines and a child of both, every command that gates, pauses or cancels, 1 crash | 0.2 M | order, recording of integrated work, quiet stops |
| `orch_retry` | a pipeline with two attempts and an imported plan, cancellations of both, 1 fault, 1 crash | 1.3 M | what a completed plan leaves behind |
| `orch_live` | a planned objective of two tasks, 2 faults | 0.04 M | do pause and cancel take effect? |
| `notifier_outbox` | an event, an approval, the daemon and a command, 2 attempts, 1 death | 0.6 M | history of a row, and does everything get settled? |
| `registry_commands` | create, rename, enable, archive and rescan in 2 threads, 1 synchronisation, failing disks, 1 death | 2.3 M | once only, nothing overwritten unseen, row, file and directories in step |
| `review_retries` | 3 tries, a repeated command, deaths of every process, recovery and rollback at any moment | 0.1 M | does a verdict count only with its assignment, do tries overlap, is the review settled? |
| `stream_follow` | 1 console, 2 writers, 3 events on 2 topics, one slot of each kind, 1 loss | 0.1 M | is nothing skipped, is a revoked session cut off, does the console catch up? |
| `commands` | 4 requests on an objective beside the daemon, or 4 on reviews with repeated keys, 2 threads and 1 loss | 0.4 M | is a key worth one operation, is the Controller only one more operator, is every client answered? |
| `sessions_login` | 3 logins of one source, 2 threads, 1 slot, a change of the password | 2.5 M | does a session outlive its password, do the limits hold in every window? |
| `workspaces_sweep` | a worker, its reviewer and a planner, 2 deaths or failures | 0.9 M | does the sweep spare what lives, and remove what is left? |

Counts are distinct states, up to the symmetry of the instance (runs, threads).
No property names a run or a thread, so the symmetry is sound; it is not used
where a run checks liveness.

Bounds.  Two runs are enough for a lock to be contended and handed over, for a
base commit to become stale and for a sweep to have an order; a third run only
repeats the second.  Two deaths let the recovery die after a program did.  One
outside commit makes every fast-forward check fail once.  The number of
approvals and integrations per run is bounded by the protocol itself.  In
`Orchestration` two pipelines and a common child are the smallest plan in which
a gate of one meets an integration of the other; two objectives the smallest
queue; two attempts let a retry meet what the first one left.  In `Notifier` two
workers and two attempts make leases overlap, numbers collide and a row die;
the second attempt is the last, so both branches of `Outcome` are taken by
late and by prompt workers.  In `ReviewAssignment` three tries are the default of
`review_transport_attempts`; the fourth process repeats the command of any try,
while its own process is alive or after it.  In `ProjectRegistry` two threads let a request begin
while another one undoes its files; the five requests are one of each kind
whose paths differ (disable is enable's mirror image, and its test for active
work is archive's); one synchronisation reads before and applies after any of
them; the repository is a cloned one, so that a failed create has three things
to undo.

In `EventStream` a batch of one and a window of two make three events span
batches and leave the window; a single stream slot makes the thread of a lost
connection keep the only one.  `commands` plays two scenes, chosen in its
initial states: the commands on the objective with nothing lost and one thread,
since a key of that store is treated like one of the other; and the commands on
reviews, with a loss, a repetition or a death of the server at any step.  Their
keys coincide wherever they can: the same key for another decision of another
session, for another review, and for a token.  In `BrowserSessions` one failure
is the limit and one tick the window, so that the second login of a source
already meets it, and a lifetime of one tick lets sessions end in the run.  In
`Workspaces` a planner and the executions of a run share nothing but the sweep;
the constraint `PlannerApart` checks each against the sweep without the other.
`FaultsApart` bounds what goes wrong: two faults for one execution, so that a
sweep can die after a program, and one where two executions are under way.
Without it the instance has 2.0 M states and passes as well, in more time.
`BrowserSessions` counts time to 2 and versions to 2 (`MaxClock`, `MaxChanges`),
`EventStream` events to 3 (`MaxEvents`); every `MaxLosses`, `MaxFaults` and
`MaxCrashes` bounds what goes wrong and never what the programs do.

Fairness.  `RunTransaction!FairSpec`: a program that was started goes on or
dies (weak fairness of `DriverStep` and `RecoveryStep`: a wait for SQLite, for
a container or for a child has a timeout; a Git command has none, and that a
local one ends is assumed).  The supervisor's timer starts sweeps for ever, whatever the
machine does otherwise, so picking up the next stale run is strongly fair: the
recovery is repeatedly free.  `Orchestration!FairSpec`: the main loop and each
thread go on, planner runs end (they have a timeout), systemd restarts the
daemon, and the sweeps finish what is half rolled back or half integrated.
`Notifier!FairSpec`: the daemon's loop goes on, an operation that was begun
ends or its process dies, time passes.  `ReviewAssignment!FairSpec`: each process goes
on or dies (the orchestrator kills a reviewer that is too slow), and a run that
nobody keeps alive is recovered in the end; that the sweep comes to this run at
all is what `SweepReachesEveryRun` asks of `RunTransaction`.  `EventStream!FairSpec`:
threads run; a peer that is gone is noticed, because heartbeats are sent to it;
a client that lost its connection tries again, and gets a slot when one is free
again and again (strong fairness).  `MCControllerCommands!SceneSpec`: in the
scene of the reviews clients ask again and the server schedules its threads.
`Workspaces!FairSpec`: the supervisor sweeps for ever, and a live program comes
to its end or dies, as above.  That a sweep ever gets past the runs it recovers
is not assumed of the code: an exception of `recover_run` ends it, and
`RunTransactionStarved` shows one that comes back until a person answers a
gate.  `OrphansAreRemoved` has it as its premise.  Nothing is
assumed of operators:
beginning, submitting, rolling back and every command are not fair.  Deadlock
is not checked because all runs, objectives or rows may be settled.

### What the code does not keep

Some sentences of the documents, and some properties one would expect, are not
kept.  Each has a configuration that TLC ends with a counterexample; they are
not among the runs of `PROJECT.json`:

| configuration | property | what happens |
|---|---|---|
| `RunTransactionAmbiguity` | `AmbiguityWaitsForHuman` | an integration error behind the fast-forward leaves RECOVERING/BLOCK_HUMAN without an approval, and the caller's rollback cancels a run whose result is on the branch (docs/RECOVERY.md:15) |
| `OrchestrationResurrected` | `CancelledStaysCancelled` | the end of a planning puts a cancelled objective back into the queue (orchestrator:3642; docs/OBJECTIVES.md:11-14) |
| `ProjectRegistrySkew` | `RegistryAgrees` | a PATCH that changes nothing always fails, since it counts the revision up and a trigger refuses that; by then it has written the file, its rollback gives the write lock away, and what another request commits next loses its file to the backup (project_commands:954; docs/console/PROJECT_LIFECYCLE.md) |
| `ControllerCommandsActor` | `OncePerActor` | a key belongs to a session, not to the operator: the same request under the same key after a new login is carried out a second time (docs/api/CONTROLLER_API_V1.md:154) |
| `WorkspacesPreserved` | `RunningIsPreserved` | a run begun after `ReadActive`, whose task is reserved between the read of the tasks and the read of the executions, is known to the sweep but not spared by it: its sandbox is removed under the agent (docs/ORCHESTRATION.md:84-87) |
| `WorkspacesPreserved`, with the other property in its place | `FreshAttemptKeepsItsClone` | a worker is launched on a stale run between its assessment and the removal of its clones, and loses the clone it has made; its row is closed under it (recovery:1067; docs/RECOVERY.md:10-11) |
| `RunTransactionOverlap` | `OneWriter` | the second transaction of `begin` makes a run RUNNING again that the recovery cancelled meanwhile, next to another run's lock (transaction:938) |
| `RunTransactionBareRollback` | `RollbackHadSnapshot` | the recovery removes worktree and branch of a run without snapshot and records ROLLBACK_SAFE (recovery:1408; docs/TRANSACTIONS.md:46) |
| `RunTransactionWedged` | `WaitingCanBeRolledBack` | a failed begin that the sweep makes WAITING_HUMAN has no snapshot, and its rollback always fails (recovery:1529; docs/INTEGRATION.md:87) |
| `RunTransactionResolve` | `ApprovalIsResolvable` | the answer to an approval expects a decision that the assessment of a WAITING_HUMAN run never gives (control:253; docs/NOTIFICATIONS.md:50) |
| `RunTransactionStarved` | `SweepReachesEveryRun` | an older failed begin, which the sweep cannot block because its project is locked by another run, makes every sweep raise before it reaches a newer run (recovery:2118; docs/RECOVERY.md:40) |
| `ReviewAssignmentAbandoned` | `AbandonedIsClosed` | the orchestrator dies, the run is rolled back, and its assignment stays active for ever: the recovery only looks at runs that are not over (recovery:1113; docs/REVIEWERS.md:51) |
| `ReviewAssignmentDecided` | `DecisionIsNotRetried` | a reviewer dies behind the commit of its verdict with a transcript that looks like a transport failure, and the review is tried again (orchestrator:2023; docs/ORCHESTRATION.md:76-77) |
| `OrchestrationCancelledComplete` | `CompleteAfterIntegration` | a pipeline rolled back by a cancellation is recorded COMPLETED (orchestrator:2830; docs/ORCHESTRATION.md:24) |
| `OrchestrationStuck` | `CancelOutlivesDaemon` | after a crash with a run open its task stays RUNNING, and a requested cancellation waits for it for ever (orchestrator:3031) |
| `OrchestrationInterrupted` | `InterruptedIsRetried` | a task made READY by a restart in a plan that a gate blocked is never retried (orchestrator:2905; docs/ORCHESTRATION.md:33-35) |
| `NotifierResent` | `ClosedStaysClosed` | a slow worker records DELIVERED between another worker's claim and its read; the row is sent again and may become a dead letter (notifier:627; docs/NOTIFICATIONS.md, "Successful rows are never resent by normal collection"); `ClosedUnlessOvertaken` is what remains |
| `ProjectRegistrySubmitted` | `ArchivedHasNoWork` | `hermesops-objectives submit` finds the project enabled, an archive is committed, and the objective is inserted (objectives:461; docs/milestones/2S_PROJECT_LIFECYCLE.md:22) |

Five remarks need no configuration.  A change of the password takes its time
before it waits for the write lock, and a trigger refuses to revoke a session
before its creation: a login that is quicker to the lock makes the change fail
(`TooLate`), and the operator has to repeat it.  `hermesops-objectives cancel-plan`
of a paused objective followed by a resume can leave a CANCELLED objective with
a run that still waits for a human or is being rolled back; `StoppedIsQuiet`
allows this and no more.  When the undoing of a refused or failed project
command fails as well, the file keeps what was refused, and the next
synchronisation makes it take effect (project_commands:954).
Resuming an objective with a BLOCKED plan makes it RUNNING without looking at the objective slots (objectives:309;
docs/OBJECTIVES.md:19).  The dispatcher counts those slots in one transaction and
promotes in another (orchestrator:4033), so a resume in between has the same
effect.

`RunTransactionOverlapSafe` is a larger passing instance of `RunTransaction`, in
which the recovery overlaps live programs (2 runs of one project, 5.1 M states):
`MergedWasApproved`, `LinearHistory` and `SubmissionHoldsLock` survive a staleness
threshold that is too short.

## 4. Proofs

`RunTransactionProofs` proves for every set of runs, projects and plans and any
number of deaths:

* `TypeCorrect`: `TypeOK` is invariant.
* `OnlyApprovedMerged`: `MergedWasApproved`, even with `Overlap`.  It is not
  inductive: a program between its checks and its merge has the right to the
  merge only because of where it is.  `ApprovedInv` adds what each such `pc` and
  `rec` step carries: a result, an approving review, and an integration row.
  The review cannot change any more, because a second review of a run is
  refused.
* `RecoveringDecided`: `RecoveringIsDecided`, from `RecoveryInv`, which adds
  that the recovery's demoting step only runs with a rollback decision.
* `HistoryIsLinear`: `LinearHistory`, even with `Overlap`.  `LinearInv` adds that
  the base of a run is part of its branch for ever and never contains the run's
  own result; a merge is a fast-forward from that base.
* `ProjectIsHeld`: `OpenHoldsProject` when `~Overlap`.  `ExclusiveInv` adds
  that each step of a program, and of the recovery, finds its run in the
  statuses it left it in: without overlap nobody else writes the row.
  `OneWriterPerProject`, that is `OneWriter`, follows.
* `IntegrationMatches` and `GatesAreLive`: `IntegrationMatchesRun` and
  `GateIsLive` when `~Overlap`.  Neither is inductive: that a transaction leaves
  the rows in agreement depends on what it finds.  `StageInv` says it for each step
  of a program (`DriverMatchesRun`) and of the recovery (`RecoveryMatchesRun`):
  the status its own last transaction left, the result on the branch from the
  merge on, no worktree from the cleanup on, and for the recovery that what its
  assessment saw is still so.  `RowsInv` adds that a run whose begin failed has no
  lock, so that a gate made for it later takes the project first.
* `LifecycleImplemented` and `WriterImplemented`: the refinements of
  `RunLifecycle` and `ProjectWriter` when `~Overlap`, with one lemma per group of
  actions that names the abstract step it is, or that it is none.

`~Overlap` says that the recovery takes only runs whose programs are dead, which is
what its staleness threshold is for (section 2).
Without it `OneWriter` is false (section 3).

`ReviewAssignmentProofs` proves for any number of tries and processes:

* `TypeCorrect`: `TypeOK`, whose `Row` contains the CHECK constraint of the table,
  so that no statement of the programs is refused by it.
* `VerdictHasAssignment`, `TriesDoNotOverlap` and `ClaimHasExecution`:
  `VerdictIsAssigned`, `RetryStartsClean` and `ClaimIsRunning`, from one
  invariant `Inv`.  None is inductive alone: that a late reviewer finds its claim
  or nothing rests on executions and claims moving together, and that the
  next try finds no active row on `LatestIsActive`: the only row that may be
  active is the one whose number the orchestrator holds.

`NotifierProofs` proves for any events, approvals, workers, severities,
`MaxAttempts` and deaths:

* `TypeCorrect`: `TypeOK` is invariant.
* `HistoryIsKept` and `ClosedIsFinal`: `HistoryMatchesRow` and
  `ClosedUnlessOvertaken`.  Neither is inductive: what saves a row
  from a worker whose lease is long over is the attempt number it carries.
  `OutboxInv` adds `Fenced`, that this number is on record already or is the
  next one of its row.  A row may be closed while a worker has yet to read its
  claim, so that a late attempt can follow: `Numbers` counts the workers that
  could still record one (`Overtaking`) against the numbers used beyond
  `MaxAttempts`.

`ProjectRegistryProofs` proves for any requests, threads, synchronisations and
deaths:

* `TypeCorrect`: `TypeOK`.  It needs `CoreInv`, whose part `Entitled` says what
  a thread may rely on between taking the write lock and its end: that it holds
  the lock, that its key is new, and that what its checks found still holds of
  the row.  Whatever changes the row or adds work needs the lock first.
* `OncePerKey`: `OnceOnly`, from `Entitled`.
* `ReadBeforeWritten`: `NoLostUpdate`.  The comparison of revisions says that
  nothing has changed only because `ViewInv` holds: every change of the row, by
  a request or by a synchronisation, counts the revision up (`RowStep`), so that
  equal revisions mean equal rows.
* `ArchiveIsFinal`: `ArchivedIsIdle`.
* `StoresInStep`: `StoresFollowRow`, from `StoresInv`.  `LockInv` says which lock a
  request under way holds, the create lock until it has cleaned up or the write
  lock; `FileInv` that only one request is under way, that its backup agrees
  with the row and what it has made of the file; `TreeInv` that before the row
  is there the directories are what its create has placed.  File and
  directories are separate parts because `torn` is: a synchronisation repairs the
  file, but nothing repairs the directories.

`OrchestrationProofs` proves for any plans, tasks and dependencies:

* `TypeCorrect`: `TypeOK`.
* `DependenciesHold`: `DependenciesRespected`.  It needs
  `DaemonInv`: until a plan is there nothing happens in its name (`NoPlanYet`),
  and a thread that has taken its task on has one whose parents are done and
  that is not complete itself (`OrderKept`).  Tasks are made READY by
  `refresh_plan_states` from what it reads in one transaction, and a task that is
  COMPLETED stays so; the invariant says that no thread can still write to it.
* `CancelledNeverIntegrated`: `CancelledIsNotIntegrated`.  `RunsInv` says that a
  thread owns the run of its attempt, and where that run is at each of its steps;
  that only the latest attempt of a task holds a project; and that a task which
  may be started again is free of the last attempt's run.  `CommitInv` is the
  point of no return: a run whose integration is under way has its task in
  execution and its objective not cancelled, since preparation and cancellation
  each look for the other in their own transaction.
* `RunLifecycleKept`: `KeepsRunLifecycle`, the refinement of `RunLifecycle`.
* `CompletedSettled`: `CompletedIsSettled`.  `DoneInv` adds that an attempt which
  is about to succeed has integrated its run or is cancelled, and that the run
  of a COMPLETED task's last attempt holds nothing.
* `StoppedQuiet`: `StoppedIsQuiet`, under every command of the operator.
  `RestInv` says that what is paused or over has no task in execution, `EmptyInv`
  that a cancelled objective has no run that holds a project unless
  `cancel-plan` was used, and `AttendedInv` that a run which is open or
  committing has its task in execution; so a run that `cancel-plan` leaves
  behind can only wait for a human or be in its rollback.
* `IntegratedRecorded`: `IntegratedIsRecorded`, when `MaxFaults = 0`, since the
  property is meant for programs that do not fail half way; crashes of the daemon
  are not bounded.  `RecordInv` adds that the thread of an integrated run is about
  to complete its task, or is gone with the daemon.

These theorems cite nothing of `ControllerCommands`.

`OrchestrationProofs` also proves, of `ControllerCommands`, for any requests,
reviews, threads and losses:

* `CommandTypeCorrect`: `CommandTypeOK`.
* `KeyIsWorthOneOperation` and `DecisionStands`: `CarriedOutOnce` and
  `ConfirmedDecisionStands`.  Both rest on what the three tables say of each
  other: every operation has its row in the ledger, every row names the operation
  of its request, and an answer that is on its way, or has arrived, is one that
  the ledger still gives.
* `ControllerOperatesTheQueue`: `OperatesTheQueue`, the refinement of
  `Orchestration`: every command of the Controller is a command of the command
  line in the same state, every other step of it leaves the queue alone.

`BrowserSessionsProofs` proves for any logins, threads, slots, limits, changes of
the password and restarts:

* `SessionsKnowTheCredential`: `SessionsAreInForce`.  `SessionInv` adds what a
  thread that is about to commit knows: that the password was compared with the
  credential it has read.  `StillInForce` reads that credential again under the
  lock under which a change revokes every session.
* `LimitsHold`: `AttemptsLimited`.  `LimitInv` counts in every window, also those
  that are not over: a new row falls into a window only if the rows counted
  before it, from a time no later than the window's start, are below the limit.
* `PasswordIsFound`: `InitialPasswordIsKnown`.  `OperatorInv` says that `ensure`
  initializes only what is not there, with the password already in the file,
  and that a file is removed only after a change.
* `EndedIsFinal`: `EndedStaysEnded`, an action property.  A login that has a
  session has its row in the ledger, so that no other session is made for it.

`WorkspacesProofs` proves for any runs, tasks and executions:

* `TypeCorrect`: `TypeOK`.
* `LiveIsSpared`: `SparedUnlessOvertaken`, an action property over every step
  of the sweep and of the other programs.  It rests on an invariant of four
  parts: a live program that was not overtaken has its row running, in a run
  that is open and not in the recovery's hands (`LiveIsOpen`, by `Beating` and
  the definition of `sweep.overtaken`); a planner makes nothing but its container
  (`PlannersAreBare`); the rows the sweep has read are there for good
  (`ReadBefore`); and what did not begin while the sweep was reading is in every
  table read so far, or began after the reading and is not known at all
  (`LiveIsSeen`).  The last is what the tables are read in this order for; it
  does not hold of an execution in `sweep.during`.  One in `sweep.overtaken` has
  had its row closed, so that no later sweep knows it for alive.

`EventStreamProofs` proves for any clients, threads, topics, batches, windows,
events and losses:

* `TypeCorrect`: `TypeOK`.
* `SlotsAreGivenBack`: `SlotsBalance`.  Every step of a connection is an
  instance of `Becomes`: one thread changes, and what it and the semaphores hold
  together stays the same.
* `RevokedStreamEnds`: `RevokedIsCutOff`.  `WithinBatch` bounds what a thread can
  still send by what is left of its batch, and says that a thread which is past
  the check of its session, but has no batch yet, has sent nothing since the
  revocation.
* `NoEventIsSkipped`: `NothingSkipped`.  `Delivers` says what is under way to a
  client: what its thread has sent is in the order of the journal, every event
  the client wants between the last one it applied and the thread's cursor is
  among it, and a refresh comes after all of it.  `JournalInv` and `BatchInv`
  make the rows of a batch the next ones of the journal, also when the journal
  grows between the read and the sending; `Linked` ties a client to one thread,
  so that the thread of a lost connection can send what it likes.

Each proof has one lemma per group of actions and one step per action.  It
starts from the named assumption on the constants in the module it is about,
which TLC evaluates in every run; that of `EventStream` asks for finitely many
threads, since permits are counted.

Every safety property that the runs check, every action property and every
refinement is stated by a theorem, under the assumption named above where there
is one.  Only model-checked are the liveness properties (`InterruptedSettles`,
`RequestTakesEffect`, `EventIsSettled`, `ReviewIsSettled`, `CatchesUp`,
`OnReviewIsAnswered`, `OrphansAreRemoved`): they rest on fairness, of which the
prover knows nothing.  `SubmissionHoldsLock`, which only the larger instance
`RunTransactionOverlapSafe` checks, is not proved either.

## 5. Not modelled

* Read projections, status commands, probes, the Console: they change no state
  and only show it.
* The Hermesfile parser, plan validation (`validate_plan`, `topological_order`),
  prompts and the parsing of answers: functions on text and documents without
  interleaving; `Orchestration` assumes what validation establishes, an acyclic
  plan.
* Hermesfile drafts and revisions, sandbox profiles: commands with an
  `If-Match` and a key like those of `ProjectRegistry` and `ControllerCommands`,
  on rows of their own that nobody else writes; they would repeat these modules.
* The supervisor's lock, instance rows, failure budget and health file: what
  matters of it to the rest is when it sweeps, which is in `RunTransaction` and
  `Workspaces`, and the daemon's `healthy` choice in `Orchestration`.
* The model provider and the turns of the agent: a client of an HTTP endpoint;
  what an execution keeps on the host is in `Workspaces`.
* Migrations, the role registry, installation and systemd units: sequential
  scripts.
