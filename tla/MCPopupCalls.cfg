SPECIFICATION FairPagesSpec
CONSTANTS
  Pages = {g1, g2}
  Ports = {p1, p2, p3}
  None = None
  MaxMessages = 2
INVARIANTS
  NoneIsOrphaned
  ClosedMeansTimed
PROPERTIES
  LastOneWins
  CallsEnd
  IdleWalletLocks
CHECK_DEADLOCK FALSE
