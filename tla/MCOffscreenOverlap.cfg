SPECIFICATION Spec
CONSTANTS
  Txs = {t1, t2, t3}
  Scans = {}
  None = None
  MaxRestarts = 0
  MaxDrops = 0
INVARIANTS
  Serialized
CHECK_DEADLOCK FALSE
