\* Three logins of one source, two threads, one slot, one password change.
SPECIFICATION Spec
CONSTANTS
  t1 = t1  t2 = t2  k1 = k1  k2 = k2  s1 = s1
  Logins <- ThreeLogins
  Passwords = {"a", "b"}
  Threads = {t1, t2}
  Slots = 1
  MaxFailures = 1
  Window = 1
  Lifetime = 1
  MaxClock = 2
  MaxChanges = 2
SYMMETRY ThreadSymmetry
INVARIANTS SessionsAreInForce AttemptsLimited InitialPasswordIsKnown
PROPERTIES EndedStaysEnded
CHECK_DEADLOCK FALSE
