\* The sandbox of a running task under an active run: the statement of docs/ORCHESTRATION.md:84-87.
SPECIFICATION Spec
CONSTANTS
  w1 = w1  w2 = w2  v1 = v1  q1 = q1  r1 = r1  r2 = r2
  Workers = {w1}
  Reviewers = {v1}
  Planners = {}
  Runs = {r1}
  RunOf <- TwoRuns
  MaxFaults = 0
PROPERTIES RunningIsPreserved
CHECK_DEADLOCK FALSE
