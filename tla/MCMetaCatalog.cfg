SPECIFICATION CatalogSpec
CONSTANTS
  Call = {c1, c2, c3}
  Reader = {r1, r2}
  History = {"schema", "view"}
  SchemaHistory = "schema"
  Kinds <- MCKinds
  KindOf <- MCKindOf
  Summary = "summary"
  Asked = {"pages", "summary"}
  Document = {s1, s2}
  None = None
SYMMETRY Symmetry
INVARIANTS
  OneCallerPerVersion
  RollbackIsCopy
  ShownStaysTrue
PROPERTIES
  ImplementsHistory
  CacheSettles
CHECK_DEADLOCK FALSE
