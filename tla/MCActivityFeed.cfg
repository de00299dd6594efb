CONSTANTS
  la = la
  lb = lb
  lx = lx
  lf = lf
  n1 = n1
  n2 = n2
  r1 = r1
  r2 = r2
  p1 = p1
  p2 = p2
  p3 = p3
  None = None
  List = {la, lb, lx, lf, n1, n2}
  Foreign = {lf}
  Fresh <- MCFresh
  Start <- MCStart
  Request = {r1, r2}
  Offered <- MCOffered
  MaxKey = 8
  Jitter = 1
  MaxAttempts = 2
  MaxTime = 1
  MaxFaults = 1
  Past = {p1, p2, p3}
  PastTime <- MCPastTime
  Rank <- MCRank
  PageSize = 2

SPECIFICATION Spec
CHECK_DEADLOCK FALSE
INVARIANTS
  TypeOK
  EachColumnLastWritten
  ClosedListsTakeNoNews
  PagesDescend
  PagesSkipNothing
  ShownIsCommitted
  NothingTwice
  ColumnsConverge
PROPERTIES
  StoreSpec
