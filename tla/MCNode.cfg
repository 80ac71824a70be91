CONSTANTS
  pa = pa
  pb = pb
  me = me
  ha = ha
  s1 = s1
  s2 = s2
  hb = hb
  None = None
  Addr = {pa, pb, me}
  host <- TwoOfAHost
  NotAllowed = {}
  WhiteLimit = 2
  GrayLimit = 2
  Me = me
  Slot = {s1, s2}
  Stored <- OneEach
  CommandLine = {}
  Exclusive = {}
  Priority = {pb}
  Reliable = {pb}
  MaxOut = 2
  MaxIn = 1
  MaxPerHost = 1
  AnchorCount = 1
  Draws = 2
  FailLimit = 1
  MaxEvents = 1
SPECIFICATION FairSpec

  
PROPERTIES
  EventuallyConnected
  AnchorsSurviveStop
