CONSTANTS
  c1 = c1
  c2 = c2
  h1 = h1
  h2 = h2
  f1 = f1
  f2 = f2
  east = east
  west = west
  own = own
  other = other
  Conn = {c1, c2}
  UserOf <- MCUserOf
  Settings <- MCSettings
  Delay = 1
  Old = 4
  None = None
  HitLimit = 3
  HitWindow = 4
  Probe = {h1, h2}
  Action = {f1, f2}
  TokenTtl = 2
  RateLimit = 1
  MaxDrops = 1
  Reader = {east, west}
  ZoneOf <- MCZoneOf
  ServerZone <- MCServerZone
  Start <- MCStart
  Hours = 15
  Typed <- MCTyped
  Tries = 2
  CardId = {1, 2, 3, 4}
  ListId = {1, 2, 3, 4}
  SeedCards <- MCSeedCards
  SeedLists = {1, 2}
  ClosedList = {2}
  OwnLabel = {own}
  OtherLabel = other
  MaxCalls = 2

SPECIFICATION Spec
CHECK_DEADLOCK FALSE
INVARIANTS
  OneLostHeartbeatKeepsYou
  GreenMeansHeard
  DeniedForCause
  DueMeansWhatWasWritten
PROPERTIES
  RosterSettles
  LimiterIsAWindow
  SignOutHolds
  MemoryIsAtomic
