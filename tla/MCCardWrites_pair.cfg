SPECIFICATION Spec
CONSTANTS
  a1 = a1  a2 = a2  z = z  b1 = b1  x1 = x1
  A = A  B = B  X = X
  r1 = r1  r2 = r2  r3 = r3
  None = None
  SeedCard <- MCSeedCard
  Request = {r1, r2}
  List <- MCList
  ForeignList = {X}
  Offered <- PairOffered
  InitRow <- MCInitRow
  MaxKey = 32
  MaxAttempts = 2
  Jitter = 2
INVARIANTS TypeOK NoLostUpdate VersionCountsAnswers
PROPERTIES LandsBelowAnchor FromListIsTrue ClosedBeforeTheLook StoreSpec
