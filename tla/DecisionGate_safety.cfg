SPECIFICATION Spec
CONSTANTS
  Contexts <- MCContexts
PROPERTY IdleRecomputeHolds
PROPERTY BudgetSpentOnStart
