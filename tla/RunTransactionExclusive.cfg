\* Two successive runs of one project and plan, one commit from outside, two deaths.
SPECIFICATION Spec
CONSTANTS
  r1 = r1  r2 = r2  p1 = p1  p2 = p2  pl1 = pl1  pl2 = pl2
  NoRun = NoRun  x = x
  Runs = {r1, r2}
  Projects = {p1}
  Plans = {pl1}
  Cancellable = {pl1}
  External = {x}
  ProjectOf <- OneProject
  PlanOf <- OnePlan
  FaultyBegins = {r1, r2}
  Overlap = FALSE
  MaxCrashes = 2
INVARIANTS OpenHoldsProject MergedWasApproved
  IntegrationMatchesRun GateIsLive RecoveringIsDecided
PROPERTIES ImplementsWriter ImplementsLifecycle
SYMMETRY RunSymmetry
CHECK_DEADLOCK FALSE
