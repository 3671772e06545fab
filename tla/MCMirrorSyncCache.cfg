SPECIFICATION Spec
CONSTANTS
  f1 = f1
  f2 = f2
  p1 = p1
  p2 = p2
  m1 = m1
  None = None
  Meta = {p1}
  Remote = {}
  Fed = {f1, f2}
  Mirrors = {m1}
  Limits = {1}
  MaxRestarts = 1
INVARIANT CachedSnapshotCurrent
