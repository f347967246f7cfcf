SPECIFICATION Spec
CONSTANTS
  Ports = {p1, p2}
  MaxMessages = 2
SYMMETRY Symmetry
INVARIANTS
  NoForgottenTimer
CHECK_DEADLOCK FALSE
