SPECIFICATION FairSpec
CONSTANTS
  p1 = p1
  p2 = p2
  Sink = {p1, p2}
  SinkOf <- MCSinkOf
  Event <- MCEvent
  Statements = 2
  Attempts = 2
  Writes <- MCWrites
  Broken = {2}
  Parts = {"memberships", "policies"}
INVARIANTS
  InsertFindsSchema
  StatusIsHonest
  TrailIsTrue
PROPERTY
  RepeatsRunAlone
  RequestsAnswered
CHECK_DEADLOCK FALSE
