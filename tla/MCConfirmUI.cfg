SPECIFICATION Spec
CONSTANTS
  Requests = {r1, r2}
  Ports = {p1, p2}
  None = None
  Note = Note
  MaxRestarts = 1
  MaxBacklog = 1
SYMMETRY Symmetry
INVARIANTS
  ConsentBeforeEffect
  PanelsShowPending
  NothingLeftBehind
  DecisionIsPossible
PROPERTIES
  FirstDecisionWins
  ImplementsService
CHECK_DEADLOCK FALSE
