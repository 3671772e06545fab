SPECIFICATION LiveSpec
CONSTANTS
  p1 = p1
  p2 = p2
  d1 = d1
  d2 = d2
  Self = Self
  Unset = Unset
  None = None
  Peers = {p1, p2}
  Drives = {d1, d2}
  Explicit = {p2}
INVARIANTS TypeOK KnownFollowed SelfNotFollowed
PROPERTIES EveryPeerTried RequestsServed
