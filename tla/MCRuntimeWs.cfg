SPECIFICATION Spec
CONSTANTS
  Instance = {i1, i2}
  Conn = {c1}
  Event = {e0, e1, e2, e3}
  e0 = e0
  Earlier <- OneEarlier
  StoreMode = "redis-stream"
  BusMode = "redis"
  ReplayLimit = 1
  Shared = Shared
  Nowhere = Nowhere
  MaxFaults = 1
SYMMETRY Symmetry
INVARIANTS
  ShownIsSaved
  AnnouncedOnce
  NoGap
CHECK_DEADLOCK FALSE
