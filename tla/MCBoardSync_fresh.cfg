SPECIFICATION Spec
CONSTANTS
  k1 = k1  k2 = k2
  A = A  B = B
  c1 = c1  c2 = c2
  g1 = g1  g2 = g2
  q1 = q1  q2 = q2  q3 = q3
  None = None
  SeedCard = {k1}
  Request = {q1, q2}
  List = {A, B}
  ForeignList = {}
  Offered <- MCOffered
  InitRow <- MCInitRow
  MaxKey = 3
  Client = {c1, c2}
  Replica = {g1, g2}
  Home <- MCHome
  Owner <- MCOwner
  Late = {c1}
  MaxFaults = 1
INVARIANTS NoCardTwice FreshViewHolds
PROPERTIES VersionsRise
