SPECIFICATION MCSpec
CONSTANTS
  s1 = s1
  a1 = a1
  c1 = c1
  c2 = c2
  a2 = a2
  w1 = w1
  None = None
  Sites <- MCSites
  Coins <- MCCoins
  Accounts <- MCAccounts
  Permissions <- MCPermissions
  Calls <- MCCalls
  WalletCalls <- MCWalletCalls
  Past <- MCPast
  MaxAttempts = 1
  MaxUuids = 2
  MaxStops = 1
INVARIANTS ConnectionsAreGranted
PROPERTIES ImplementsGrants KeepsRegistration CallsEnd
CHECK_DEADLOCK FALSE
