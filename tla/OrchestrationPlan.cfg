\* One objective: pipelines a and b in parallel, and c that depends on both.
SPECIFICATION Spec
CONSTANTS
  o1 = o1  o2 = o2  a = a  b = b  c = c  p1 = p1  p2 = p2
  Plans = {o1}
  Imported = {}
  Planned = {}
  Tasks = {a, b, c}
  PlanOf <- AllFirst
  Pipelines = {a, b}
  ProjectOf <- OwnProject
  Parents <- Diamond
  Before <- Forwards
  MaxAttempts = 1
  MaxParallel = 2
  MaxTasks = 2
  MaxObjectives = 1
  Commands = {"pause", "resume", "cancel", "rollback", "cancel-plan"}
  MaxFaults = 0
  MaxCrashes = 1
INVARIANTS DependenciesRespected IntegratedIsRecorded StoppedIsQuiet
PROPERTIES CancelledIsNotIntegrated
CHECK_DEADLOCK FALSE
