SPECIFICATION FairSpec
CONSTANTS
  Instance = {i1, i2}
  Conn = {c1}
  Event = {e1, e2}
  e0 = e0
  Earlier <- NoEarlier
  StoreMode = "redis"
  BusMode = "redis"
  ReplayLimit = 1
  Shared = Shared
  Nowhere = Nowhere
  MaxFaults = 0
PROPERTY AnnouncementArrives
CHECK_DEADLOCK FALSE
