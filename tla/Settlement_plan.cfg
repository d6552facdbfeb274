SPECIFICATION Spec
CONSTANTS
  a = a
  b = b
  c = c
  v = v
  Suppliers <- AllSuppliers
  Verifier = v
  BpsScale = 20
  Bounties <- Units
  MaxQuality = 4
  MaxSubs = 3
  FeeBps <- FeePolicies
  ShareBps <- SharePolicies
  MinUnits <- MinPolicies
SYMMETRY Renaming
INVARIANTS
  TypeOK
  Converges
  SumsExact
  SharesBounded
  MonotoneInQuality
  ResidueForced
CHECK_DEADLOCK FALSE
