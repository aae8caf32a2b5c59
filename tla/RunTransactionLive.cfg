\* Sweeps and started programs are fair; begin does not fail.
SPECIFICATION FairSpec
CONSTANTS
  r1 = r1  r2 = r2  p1 = p1  p2 = p2  pl1 = pl1  pl2 = pl2
  NoRun = NoRun  x = x
  Runs = {r1, r2}
  Projects = {p1}
  Plans = {pl1}
  Cancellable = {}
  External = {}
  ProjectOf <- OneProject
  PlanOf <- OnePlan
  FaultyBegins = {}
  Overlap = FALSE
  MaxCrashes = 1
PROPERTIES InterruptedSettles
CHECK_DEADLOCK FALSE
