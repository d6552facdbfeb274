SPECIFICATION MCSpec
CONSTANTS
  s1 = s1
  s2 = s2
  Suppliers <- Two
  MaxGap = 1
  Worthwhile <- FirstGap
  KindOf <- Strategies
  Found <- Finds
  OtherClient = other
  OtherUrls <- Sent
  MaxFailures = 1
  ClaimCount = 2
  Threshold = 7000
  MaxGaps = 3
  Calls = {c1, c2}
  Urls = {u1, u2}
  Hashes = {h1, h2}
  MaxCommitments = 1
INVARIANTS
  AgentsTypeOK
  PagesAreRows
  CountsAreRows
  PaidOncePerClaim
  CommittedIsStored
PROPERTIES
  SourcesOffered
CHECK_DEADLOCK FALSE
