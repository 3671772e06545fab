SPECIFICATION Spec
CONSTANTS
  Holders = {a, b}
  Drives = {d, e}
  docs = docs
  docs2 = docs2
  Names = {docs, docs2}
  Owner = owner
  Up = up
  PaddedUp = paddedUp
  Spelling <- MCSpelling
  Paths <- MCPaths
  OwnPaths <- MCOwnPaths
  Roles <- MCRoles
  Asked <- MCAsked
  Kinds <- MCKinds
  MaxClock = 2
  MaxGrants = 2
  MaxCaps = 3
  MaxRevoked = 1
INVARIANTS TypeOK GateSound SharedUsable
SYMMETRY MCSymmetry
CHECK_DEADLOCK FALSE
