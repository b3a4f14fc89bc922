SPECIFICATION Spec
CONSTANTS
  Known = {"TEXT", "INTEGER"}
  Casts <- MCCasts
  Upper <- MCUpper
  Call = {c1, c2}
  Connection = {k1, k2, k3}
  NoConnection = NoConnection
  SchemaOf <- MCSchemaOf
  Requests <- MCRequests
  FirstVersions = 2
  MaxFaults = 1
INVARIANTS ReportsHonest IdleConnectionsClean CursorIsWhereDatabaseIs
PROPERTIES ImplementsAtomicMigration NoLossUnlessAllowed CallsEnd
CHECK_DEADLOCK FALSE
