SPECIFICATION Spec
CONSTANTS
  a = a
  b = b
  v = v
  Pages <- MCPages
  MaxDossier = 3
  Requirements <- MCRequirements
  Opinions <- MCOpinions
  ScoreScale = 1000
  NoDate = NoDate
  FutureTolerance = 1
  DefaultMaxAge = 3
  MaxTime = 1
  GapId = GapId
  Claim = Claim
  NoTx = NoTx
  Tx = Tx
  NoReceipt = NoReceipt
  Refused = Refused
  Verifier = v
  BpsScale = 20
  Budget = 40
  VerifierFeeBps = 1
  MaxShareBps = 14
  MinPayoutUnits = 2
INVARIANTS
  TypeOK
  BundleVerifies
  PaidForGoodEvidence
  AcceptedCounts
CHECK_DEADLOCK FALSE
