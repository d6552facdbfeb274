SPECIFICATION Spec
CONSTANTS
  g1 = g1
  g2 = g2
  u1 = u1
  u2 = u2
  u3 = u3
  r1 = r1
  r2 = r2
  Gaps <- TwoGaps
  NoGap = none
  Urls <- NoUrls
  ContentOf <- Content
  DomainOf <- Domain
  Budget <- OneAndTwo
  MaxAmount = 2
  Requirements <- NoRequirement
  Modes <- LiveOnly
  Calls <- TwoCalls
  MaxReceipts = 2
SYMMETRY Renaming
INVARIANTS
  TypeOK
  NoMoneyLeftBehind
CHECK_DEADLOCK FALSE
