SPECIFICATION Spec
CONSTANTS
  n1 = n1
  n2 = n2
  n3 = n3
  Nodes = {n1, n2, n3}
  Lists <- MCLists
  Calls = {c1, c2, c3}
  Once = {c1}
  None = None
  MaxRestarts = 1
INVARIANTS
  TypeOK
  NewestWins
  EachNodeOnce
  RefusalDecides
CHECK_DEADLOCK FALSE
