\* A crash while a gated plan still computes.
SPECIFICATION FairSpec
CONSTANTS
  o1 = o1  o2 = o2  a = a  b = b  c = c  p1 = p1  p2 = p2
  Plans = {o1}
  Imported = {}
  Planned = {}
  Tasks = {a, c}
  PlanOf <- AllFirst
  Pipelines = {a}
  ProjectOf <- OwnProject
  Parents <- NoParents
  Before <- NoOrder
  MaxAttempts = 2
  MaxParallel = 2
  MaxTasks = 2
  MaxObjectives = 1
  Commands = {"rollback"}
  MaxFaults = 0
  MaxCrashes = 1
PROPERTY InterruptedIsRetried
CHECK_DEADLOCK FALSE
