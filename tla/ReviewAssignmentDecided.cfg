\* A reviewer that dies behind the commit of its verdict.
SPECIFICATION FairSpec
CONSTANTS
  p1 = p1  p2 = p2  p3 = p3  p4 = p4
  NoReviewer = NoReviewer
  Reviewers = {p1, p2}
  Repeats = {}
  Limit = 2
  MaxTries = 2
PROPERTIES DecisionIsNotRetried
CHECK_DEADLOCK FALSE
