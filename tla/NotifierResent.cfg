\* A slow daemon records its delivery between another worker's claim and re-read.
SPECIFICATION Spec
CONSTANTS
  e1 = e1  a1 = a1  daemon = daemon  once = once
  NoNote = NoNote
  Events = {e1}
  Approvals = {a1}
  Workers = {daemon, once}
  Daemon = daemon
  Rank <- Severities
  MaxAttempts = 2
  MaxCrashes = 0
PROPERTIES ClosedStaysClosed
CHECK_DEADLOCK FALSE
