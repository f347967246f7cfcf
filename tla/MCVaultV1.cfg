SPECIFICATION Spec
CONSTANTS
  Wallets = {w1, w2}
  Seeds = {s1, s2}
  None = None
  StartVersions = {1}
  MayRegenerate = FALSE
  MaxAccounts = 2
  MaxTracking = 1
  MaxRestarts = 1
SYMMETRY Symmetry
INVARIANTS
  CurrentIsComplete
CHECK_DEADLOCK FALSE
