CONSTANTS
  c1 = c1
  c2 = c2
  CPUs <- MCTwoCPUs
  TimeMod = 8
  MaxFrames = 2
  MaxLatency = 2
SPECIFICATION Spec
VIEW StateView
INVARIANT NoDivideByZero
CHECK_DEADLOCK FALSE
