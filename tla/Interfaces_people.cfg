SPECIFICATION MCSpec
CONSTANTS
  Texts = {proof, tampered, garbage, huge}
  Malformed = {garbage}
  Oversized = {huge}
  Initial = proof
  MaxActs = 4
  ReducedMotion = FALSE
  MaxGeneration = 4
  c1 = c1
  c2 = c2
  Commands <- TwoCommands
  Settleable <- Genuines
  Contents <- All
  Exact <- Balanced
  Operator = operator
  Scripts = {"local", "mainnet"}
  MaxFaults = 1
SYMMETRY Renaming
INVARIANTS
  InterfacesTypeOK
  LabIsConsistent
  ReportsAreTrue
  
PROPERTIES
  LatestWins
  WritesAuthorized
  EverythingEnds
CHECK_DEADLOCK FALSE
