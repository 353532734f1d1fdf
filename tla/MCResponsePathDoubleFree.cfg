CONSTANTS
  c1 = c1
  c2 = c2
  CPUs <- MCCPUs
  PoolSize = 3
  HeapSize = 2
  MaxSends = 4
  SeqMod = 256
SPECIFICATION Spec
INVARIANT
  NoSkbUnderflow
