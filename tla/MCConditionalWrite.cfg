SPECIFICATION Spec
CONSTANTS
  Clients = {a, b}
  Names = {f, g}
  Cids = {x, y}
  None = None
  MaxClock = 2
  MaxEdits = 3
INVARIANTS TypeOK NoLostUpdate RefusedOnlyIfChanged
SYMMETRY MCSymmetry
CHECK_DEADLOCK FALSE
