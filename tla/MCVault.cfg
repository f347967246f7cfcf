SPECIFICATION Spec
CONSTANTS
  Wallets = {w1, w2}
  Seeds = {s1, s2}
  None = None
  StartVersions = {2, 3, 4, 5}
  MayRegenerate = TRUE
  MaxAccounts = 2
  MaxTracking = 1
  MaxRestarts = 1
SYMMETRY Symmetry
INVARIANTS
  CurrentIsComplete
  
  OwnedIsTracked
PROPERTIES
  KeysAreKept
CHECK_DEADLOCK FALSE
