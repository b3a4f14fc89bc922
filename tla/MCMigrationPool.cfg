SPECIFICATION Spec
CONSTANTS
  Known = {"TEXT", "INTEGER"}
  Casts <- MCCasts
  Upper <- MCUpper
  Call = {c1, c2}
  Connection = {k1, k2}
  NoConnection = NoConnection
  SchemaOf <- MCSchemaOf
  Requests <- MCRequests
  FirstVersions = 2
  MaxFaults = 0
PROPERTIES AuditsRecorded
CHECK_DEADLOCK FALSE
