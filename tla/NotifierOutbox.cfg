\* One event and one approval, the daemon and an operator's run-once, one death.
SPECIFICATION FairSpec
CONSTANTS
  e1 = e1  a1 = a1  daemon = daemon  once = once
  NoNote = NoNote
  Events = {e1}
  Approvals = {a1}
  Workers = {daemon, once}
  Daemon = daemon
  Rank <- Severities
  MaxAttempts = 2
  MaxCrashes = 1
INVARIANTS HistoryMatchesRow
PROPERTIES ClosedUnlessOvertaken EventIsSettled
CHECK_DEADLOCK FALSE
