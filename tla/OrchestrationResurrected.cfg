\* A cancellation while the planner is at work.
SPECIFICATION Spec
CONSTANTS
  o1 = o1  o2 = o2  a = a  b = b  c = c  p1 = p1  p2 = p2
  Plans = {o1}
  Imported = {}
  Planned = {o1}
  Tasks = {c}
  PlanOf <- AllFirst
  Pipelines = {}
  ProjectOf <- OwnProject
  Parents <- NoParents
  Before <- NoOrder
  MaxAttempts = 2
  MaxParallel = 2
  MaxTasks = 2
  MaxObjectives = 1
  Commands = {"cancel", "pause"}
  MaxFaults = 0
  MaxCrashes = 0
PROPERTY CancelledStaysCancelled
CHECK_DEADLOCK FALSE
