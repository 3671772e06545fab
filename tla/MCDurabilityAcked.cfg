SPECIFICATION Spec
CONSTANTS
  d1 = d1
  d2 = d2
  w1 = w1
  k1 = k1
  None = None
  Drives = {d1}
  Reqs = {w1, k1}
  Files = {w1}
  DriveOf <- MCDriveOfOne
  CheckpointEvery = 2
  TickWrap = 3
  MaxCrashes = 2
INVARIANT AckedDurable
