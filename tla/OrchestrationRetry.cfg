\* A pipeline of an objective and an imported plan, two attempts each.
SPECIFICATION Spec
CONSTANTS
  o1 = o1  o2 = o2  a = a  b = b  c = c  p1 = p1  p2 = p2
  Plans = {o1, o2}
  Imported = {o2}
  Planned = {}
  Tasks = {a, c}
  PlanOf <- OneEach
  Pipelines = {a}
  ProjectOf <- SameProject
  Parents <- NoParents
  Before <- NoOrder
  MaxAttempts = 2
  MaxParallel = 1
  MaxTasks = 2
  MaxObjectives = 1
  Commands = {"cancel", "rollback", "activate", "cancel-plan"}
  MaxFaults = 1
  MaxCrashes = 1
INVARIANTS CompletedIsSettled
PROPERTIES KeepsRunLifecycle
CHECK_DEADLOCK FALSE
