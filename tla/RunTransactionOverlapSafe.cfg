\* Recovery meets live processes: what still holds.
SPECIFICATION Spec
CONSTANTS
  r1 = r1  r2 = r2  p1 = p1  p2 = p2  pl1 = pl1  pl2 = pl2
  NoRun = NoRun  x = x
  Runs = {r1, r2}
  Projects = {p1}
  Plans = {pl1}
  Cancellable = {}
  External = {}
  ProjectOf <- OneProject
  PlanOf <- OnePlan
  FaultyBegins = {}
  Overlap = TRUE
  MaxCrashes = 0
INVARIANTS MergedWasApproved LinearHistory
PROPERTIES SubmissionHoldsLock
SYMMETRY RunSymmetry
CHECK_DEADLOCK FALSE
