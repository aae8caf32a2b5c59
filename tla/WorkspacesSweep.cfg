\* A worker and its reviewer and a planner, their deaths and failures, under the sweep.
SPECIFICATION FairSpec
CONSTANTS
  w1 = w1  w2 = w2  v1 = v1  q1 = q1  r1 = r1  r2 = r2
  Workers = {w1}
  Reviewers = {v1}
  Planners = {q1}
  Runs = {r1}
  RunOf <- TwoRuns
  MaxFaults = 2
PROPERTIES SparedUnlessOvertaken OrphansAreRemoved
CHECK_DEADLOCK FALSE
CONSTRAINTS PlannerApart FaultsApart
