SPECIFICATION FairSpec
CONSTANTS
  Pages = {p1, p2}
  Updates = {u1, u2}
  Old = Old
  None = None
  MaxConnections = 3
  MaxRestarts = 1
  MaxFailures = 1
INVARIANTS
  PagesAreTold
  ReadYourWrites
  DefaultIsHidden
PROPERTIES
  ImplementsLog
  MirrorForward
  Converges
CHECK_DEADLOCK FALSE
