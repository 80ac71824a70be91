SPECIFICATION NetSpec
CONSTANTS
    Streams <- MCStreams
    InitialMaxPacket = 8
    MaxPacket = 12
    MaxBytes <- MCMaxBytes
    MaxChunk = 8
    i1 = i1
    i2 = i2
    n1 = n1
    b1 = b1
    Invokes = {i1, i2}
    Notifies = {n1}
    Callbacks = {b1}
    MaxPeerMsgs = 1
    Scenarios <- MCScenarios
    Idles = {j1}
    Asyncs = {a1}
    Accepts = {p1}
    Workers = 2
    Mishaps = {"denied", "throws", "stop"}
INVARIANTS
  StreamExact
  ServerSound
  CallsExact
PROPERTIES
  CallsEnd
CHECK_DEADLOCK FALSE
