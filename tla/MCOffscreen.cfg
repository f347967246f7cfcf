SPECIFICATION FairSpec
CONSTANTS
  Txs = {t1, t2, t3}
  Scans = {s1}
  None = None
  MaxRestarts = 1
  MaxDrops = 2
INVARIANTS
  OneTaskEach
  SerializedUntilCrowded
  StatusIsRight
PROPERTIES
  NoStrayAnswer
  CallsEnd
CHECK_DEADLOCK FALSE
