CONSTANTS
  None = None
  Kinds <- MCKinds
  Body <- MCBody
  Queries <- MCQueries
  MaxBundles = 5
  Target = 5
SPECIFICATION Spec
INVARIANTS DatabaseAgrees ReadyIsEligible ShortlistCovers
PROPERTIES PlanIsLowerBound
CHECK_DEADLOCK FALSE
