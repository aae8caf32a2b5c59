\* The recovery meets the live begin of a run.
SPECIFICATION Spec
CONSTANTS
  r1 = r1  r2 = r2  p1 = p1  p2 = p2  pl1 = pl1  pl2 = pl2
  NoRun = NoRun  x = x
  Runs = {r1, r2}
  Projects = {p1}
  Plans = {pl1}
  Cancellable = {pl1}
  External = {}
  ProjectOf <- OneProject
  PlanOf <- OnePlan
  FaultyBegins = {r1, r2}
  Overlap = TRUE
  MaxCrashes = 0
INVARIANTS OneWriter
CHECK_DEADLOCK FALSE
