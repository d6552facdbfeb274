SPECIFICATION FairSpec
CONSTANTS
  Users <- MCUsers
  Requesters <- OneRequester
  Verifiers <- AnyVerifier
  TransferTargets <- OnlyContract
  Contract <- MCContract
  Blockable <- AllUsers
  SpecHashes = {s1}
  EvidenceHashes = {e1, e2, e3}
  PlanHashes = {p1}
  ReceiptHashes = {r1, r2}
  ZeroHash = zero
  MaxAmount = 1
  InitialBalance = 2
  MaxTime = 3
  MaxBounties = 1
  MaxCap = 2
  MaxPayouts = 2
INVARIANTS
  TypeOK
  CommitmentsCounted
PROPERTIES
  EvidenceWindow
  EscrowResolved
CHECK_DEADLOCK FALSE
