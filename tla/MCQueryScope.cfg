SPECIFICATION Spec
CONSTANTS
  Contexts <- MCContexts
  Requests <- MCRequests
  Table <- MCTable
  Null = Null
  Read <- MCRead
  Missing = "missing"
INVARIANTS RowsAreVisible DecisionStable
