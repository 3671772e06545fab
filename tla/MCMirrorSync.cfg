SPECIFICATION LiveSpec
CONSTANTS
  f1 = f1
  f2 = f2
  p1 = p1
  p2 = p2
  m1 = m1
  None = None
  Meta = {p1}
  Remote = {p2}
  Fed = {f1, f2}
  Mirrors = {m1}
  Limits = {0, 2}
  MaxRestarts = 2
INVARIANTS TypeOK SnapshotThenFeed
PROPERTIES CursorsAdvance CatchesUp QuietWhenComplete ImplementsReplication
