SPECIFICATION FairSpec
CONSTANTS
  Calls = {c1, c2}
  Budgets = {1, 2}
  MaxTotalUnits = 3
  MaxBountyUnits = 2
  AutoPayBelowUnits = 2
INVARIANTS
  TypeOK
  CapHolds
PROPERTIES
  CallsReturn
CHECK_DEADLOCK FALSE
