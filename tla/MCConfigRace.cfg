CONSTANTS
  c1 = c1
  t = t
  u = u
  zero = zero
  p = p
  q = q
  zport = zport
  CPUs = {c1}
  Addr <- MCAddr
  Ports <- MCPorts
  ZeroIP = zero
  ZeroPort = zport
  UserConfigs <- MCUserConfigs
  Frames <- MCFrames
  MaxSets = 2
SPECIFICATION Spec
INVARIANTS
  HookJudgesOneConfig
