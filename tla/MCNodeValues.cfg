SPECIFICATION Spec
CONSTANTS
  Views <- MCViews
  Contexts <- MCContexts
  KeyOrder <- MCKeyOrder
  Hooks <- MCHooks
  Expressions <- MCExpressions
  Depth <- MCDepth
INVARIANTS
  SeesOnlyDependencies
  OneMeaning
CHECK_DEADLOCK FALSE
