SPECIFICATION DossierSpec
CONSTANTS
  NumRoles = 2
  Topology = "B3"
  Advice = {a, b}
  Costs = {0}
  MaxCalls = 12
  MaxCost = 1
  MaxClaims = 2
  MaxRevised = 2
  MaxObjections = 0
  None = None
SYMMETRY Symmetry
INVARIANT
  ChairAcknowledgesDissent
CHECK_DEADLOCK FALSE
