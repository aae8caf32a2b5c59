\* A run that is rolled back after the death of its orchestrator.
SPECIFICATION FairSpec
CONSTANTS
  p1 = p1  p2 = p2  p3 = p3  p4 = p4
  NoReviewer = NoReviewer
  Reviewers = {p1, p2}
  Repeats = {}
  Limit = 2
  MaxTries = 2
PROPERTIES AbandonedIsClosed
CHECK_DEADLOCK FALSE
