CONSTANTS
  a = a
  t = t
  p = p
  IPs <- MCIPs
  Ports <- MCPorts
  Buckets <- MCBuckets
  Hash <- MCHash
  MaxCount = 3
SPECIFICATION Spec
INVARIANT ActiveNeverNegative
