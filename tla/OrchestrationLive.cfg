\* A planned objective, paused or cancelled while its programs fail half way.
SPECIFICATION FairSpec
CONSTANTS
  o1 = o1  o2 = o2  a = a  b = b  c = c  p1 = p1  p2 = p2
  Plans = {o1}
  Imported = {}
  Planned = {o1}
  Tasks = {a, c}
  PlanOf <- AllFirst
  Pipelines = {a}
  ProjectOf <- OwnProject
  Parents <- Diamond
  Before <- Forwards
  MaxAttempts = 2
  MaxParallel = 2
  MaxTasks = 2
  MaxObjectives = 1
  Commands = {"cancel", "pause"}
  MaxFaults = 2
  MaxCrashes = 0
PROPERTIES RequestTakesEffect
CHECK_DEADLOCK FALSE
