\* The three tries of the default configuration; an operator repeats a command.
SPECIFICATION FairSpec
CONSTANTS
  p1 = p1  p2 = p2  p3 = p3  p4 = p4
  NoReviewer = NoReviewer
  Reviewers = {p1, p2, p3, p4}
  Repeats = {p4}
  Limit = 3
  MaxTries = 3
INVARIANTS VerdictIsAssigned RetryStartsClean ClaimIsRunning
PROPERTIES ReviewIsSettled
CHECK_DEADLOCK FALSE
