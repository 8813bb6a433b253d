SPECIFICATION DossierSpec
CONSTANTS
  NumRoles = 2
  Topology = "B3"
  Advice = {a, b}
  Costs = {0, 1}
  MaxCalls = 7
  MaxCost = 1
  MaxClaims = 2
  MaxRevised = 1
  MaxObjections = 2
  None = None
SYMMETRY Symmetry
INVARIANTS
  RunsShareTheBudget
  RevisedRolesAreLimited
  CheckpointsAreComplete
  ResultAccountsForRoles
  FreshChairAcknowledgesDissent
  FreshCallsAreCovered
CHECK_DEADLOCK FALSE
