CONSTANTS
  g = g
  a1 = a1
  a2 = a2
  b1 = b1
  b2 = b2
  p1 = p1
  p2 = p2
  Block = {g, a1, a2, b1, b2}
  Genesis = g
  parent <- ForkParent
  path <- ForkPath
  Peer = {p1, p2}
  top <- ForkTop
  Faulty = {p2}
  Unreliable = {p2}
  SpanSize = 1
  IdsMax = 3
  MaxQueue = 1
  MaxCallbacks = 2
SPECIFICATION FairSpec
INVARIANTS
  NeededAligned
PROPERTIES
  StepsSound
  EventuallySynced
