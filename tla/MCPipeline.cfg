CONSTANTS
  t = t
  h = h
  p = p
  q = q
  zero = zero
  zport = zport
  IPs <- MCIPs
  ZeroIP = zero
  Ports <- MCPorts
  ZeroPort = zport
  Buckets <- MCBuckets
  Hash <- MCHash
  UserConfigs <- MCUserConfigs
  Frames <- MCSmallFrames
  CopyLengths = {0, 1, 2, 3, 4, 5, 9}
  Burst = 1
  MaxFrames = 4
  MaxCount = 2
SPECIFICATION Spec
VIEW StateView
INVARIANTS
  TypeOK
  FrameAccountingBounds
PROPERTIES
  StolenIffProcessed
