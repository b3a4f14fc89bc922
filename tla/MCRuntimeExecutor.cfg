SPECIFICATION FairSpec
CONSTANTS
  a = a
  b = b
  c = c
  d = d
  NoNode = NoNode
  Node = {a, b, c, d}
  Mutation = {a, b}
  Views <- MCViews
  Order <- MCOrder
INVARIANTS
  SnapshotHoldsAllDependencies
  SubmitInOrder
  FailureContained
  TrailTellsTheStory
  ScheduleIsComputed
PROPERTIES
  RequestAnswered
  ImplementsContract
