SPECIFICATION Spec
CONSTANTS
  g1 = g1
  g2 = g2
  u1 = u1
  u2 = u2
  u3 = u3
  r1 = r1
  r2 = r2
  Gaps <- TwoGaps
  NoGap = none
  Urls <- TwoUrls
  ContentOf <- Content
  DomainOf <- Domain
  Budget <- OneUnit
  MaxAmount = 1
  Requirements <- NoRequirement
  Modes <- LiveOnly
  Calls <- TwoCalls
  MaxReceipts = 2
INVARIANTS
  OpenIsEscrowed
CHECK_DEADLOCK FALSE
