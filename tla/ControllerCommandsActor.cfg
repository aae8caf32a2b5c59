\* The operator retries a create in a new session.
SPECIFICATION CommandSpec
CONSTANTS
  o1 = o1  o2 = o2  t1 = t1  p1 = p1  v1 = v1  v2 = v2  s1 = s1  s2 = s2
  k1 = k1  k2 = k2  k3 = k3  h1 = h1  h2 = h2
  Plans = {o1, o2}
  Imported = {}
  Planned = {o1, o2}
  Tasks = {}
  PlanOf <- OneTask
  Pipelines = {}
  ProjectOf <- OneProject
  Parents <- NoParents
  Before <- NoOrder
  MaxAttempts = 1
  MaxParallel = 1
  MaxTasks = 1
  MaxObjectives = 1
  Commands = {"pause", "resume", "cancel"}
  MaxFaults = 0
  MaxCrashes = 0
  Requests <- InTwoSessions
  Awaits <- AtOnce
  Reviews = {v1}
  Verdict <- Debt
  Handlers = {h1}
  MaxLosses = 0
INVARIANTS OncePerActor
CHECK_DEADLOCK FALSE
