\* A cancellation while the pipeline is reviewed.
SPECIFICATION Spec
CONSTANTS
  o1 = o1  o2 = o2  a = a  b = b  c = c  p1 = p1  p2 = p2
  Plans = {o1}
  Imported = {}
  Planned = {}
  Tasks = {a}
  PlanOf <- AllFirst
  Pipelines = {a}
  ProjectOf <- OwnProject
  Parents <- NoParents
  Before <- NoOrder
  MaxAttempts = 1
  MaxParallel = 2
  MaxTasks = 2
  MaxObjectives = 1
  Commands = {"cancel"}
  MaxFaults = 0
  MaxCrashes = 0
INVARIANT CompleteAfterIntegration
CHECK_DEADLOCK FALSE
