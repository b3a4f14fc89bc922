SPECIFICATION ScriptSpec
CONSTANTS
  Known = {"TEXT", "INTEGER", "JSON"}
  Indexable = {"TEXT", "INTEGER"}
  Casts <- MCCasts
  Joins = {}
  Upper <- MCUpper
  Empty = ""
  Quotable = {"a", "b", "i", "j", "orders", "users"}
  Schemas <- MCSchemas
  Documents <- MCDocuments
  Holdings <- MCHoldings
INVARIANTS UpReachesTarget DownRestores GuardIsExact RefusalsExplained ValidatorIsExact
CHECK_DEADLOCK FALSE
