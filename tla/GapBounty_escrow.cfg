SPECIFICATION Spec
CONSTANTS
  Users <- MCUsers
  Requesters <- AllUsers
  Verifiers <- OneVerifier
  TransferTargets <- Nobody
  Contract <- MCContract
  Blockable <- Nobody
  SpecHashes = {s1}
  EvidenceHashes = {e1}
  PlanHashes = {p1}
  ReceiptHashes = {r1, r2}
  ZeroHash = zero
  MaxAmount = 2
  InitialBalance = 2
  MaxTime = 2
  MaxBounties = 2
  MaxCap = 1
  MaxPayouts = 2
INVARIANTS
  Solvency
  AnchorsBackSettlements
PROPERTIES
  ImplementsEscrow
CHECK_DEADLOCK FALSE
