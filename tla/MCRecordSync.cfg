SPECIFICATION FairSpec
CONSTANTS
  r1 = r1
  p1 = p1
  p2 = p2
  u1 = u1
  u2 = u2
  Records = {r1}
  Programs = {p1, p2}
  ProgramOf <- MCProgramOf
  Consumers = {u1, u2}
  Wanted <- MCWanted
  FilterOf <- MCFilterOf
  None = None
  Lookback = 1
  Lag = 1
  Slack = 0
  MaxHeight = 2
  Uuids = {1}
  MaxCalls = 2
  MaxScopes = 2
INVARIANTS
  ScopesAreOwned
  SpentWins
PROPERTIES
  HardIsHard
  NoGap
  Converges
CHECK_DEADLOCK FALSE
