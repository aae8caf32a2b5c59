\* One console, two writers, a stream slot that the thread of a lost connection keeps.
SPECIFICATION FairSpec
CONSTANTS
  objective = objective  review = review  c1 = c1  k1 = k1  k2 = k2
  w1 = w1  w2 = w2
  NoOne = NoOne
  Writers = {w1, w2}
  Clients = {c1}
  Threads = {k1, k2}
  Aggregates = {objective, review}
  Wanted <- OneTopic
  RequestSlots = 1
  StreamSlots = 1
  Batch = 1
  Window = 2
  MaxEvents = 3
  MaxLosses = 1
INVARIANTS NothingSkipped RevokedIsCutOff SlotsBalance
PROPERTIES CatchesUp
CHECK_DEADLOCK FALSE
