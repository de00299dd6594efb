CONSTANTS
  ana = ana
  ben = ben
  cy = cy
  r1 = r1
  r2 = r2
  r3 = r3
  None = None
  Person = {ana, ben, cy}
  Creator = ana
  Start <- MCStart
  Page = {ben}
  Request = {r1, r2, r3}
  Offered <- MCOffered
  MaxFaults = 1

SPECIFICATION Spec
CHECK_DEADLOCK FALSE
SYMMETRY MCSymmetry
INVARIANTS
  TypeOK
  OwnerKeepsBoard
  LogExplainsRoster
  PermittedMeanwhile
  RosterConverges
PROPERTIES
  CommittedThenRefused
