\* A cancellation, and a crash of the daemon while a pipeline is at work.
SPECIFICATION FairSpec
CONSTANTS
  o1 = o1  o2 = o2  a = a  b = b  c = c  p1 = p1  p2 = p2
  Plans = {o1}
  Imported = {}
  Planned = {}
  Tasks = {a}
  PlanOf <- AllFirst
  Pipelines = {a}
  ProjectOf <- OwnProject
  Parents <- NoParents
  Before <- NoOrder
  MaxAttempts = 1
  MaxParallel = 2
  MaxTasks = 2
  MaxObjectives = 1
  Commands = {"cancel"}
  MaxFaults = 0
  MaxCrashes = 1
PROPERTY CancelOutlivesDaemon
CHECK_DEADLOCK FALSE
