SPECIFICATION Spec
CONSTANTS
  d1 = d1
  d2 = d2
  a1 = a1
  a2 = a2
  kd1 = kd1
  kd2 = kd2
  ka1 = ka1
  ka2 = ka2
  typed = typed
  missing = missing
  Patch = Patch
  Blank = Blank
  NoKey = NoKey
  Values <- MCValues
  Arguments <- MCArguments
  Nodes <- MCNodes
  Depth <- MCDepth
  Targets <- MCTargets
  Datasources = {d1, d2}
  StateKeys <- MCStateKeys
  Requests <- MCRequests
INVARIANTS PlanIsExact EffectsAreAskedFor CommandsFollowPlan ToldIsDone
