\* Two sessions command an objective beside the daemon and the command line; two
\* decide on reviews by requests that are lost and repeated.
SPECIFICATION SceneSpec
CONSTANTS
  o1 = o1  o2 = o2  t1 = t1  p1 = p1  v1 = v1  v2 = v2  s1 = s1  s2 = s2
  k1 = k1  k2 = k2  k3 = k3  h1 = h1  h2 = h2
  Plans = {o1}
  Imported = {}
  Planned = {o1}
  Tasks = {t1}
  PlanOf <- OneTask
  Pipelines = {t1}
  ProjectOf <- OneProject
  Parents <- NoParents
  Before <- NoOrder
  MaxAttempts = 1
  MaxParallel = 1
  MaxTasks = 1
  MaxObjectives = 1
  Commands = {"pause", "resume", "cancel"}
  MaxFaults = 0
  MaxCrashes = 0
  Requests <- AllRequests
  Awaits <- InTurn
  Reviews = {v1, v2}
  Verdict <- Debt
  Handlers = {h1, h2}
  MaxLosses = 1
INVARIANTS CarriedOutOnce ConfirmedDecisionStands
PROPERTIES OperatesTheQueue OnReviewIsAnswered
CHECK_DEADLOCK FALSE
