\* One CPU: the hook runs in softirq context and the ioctl cannot run
\* while a frame is in progress.
CONSTANTS
  c1 = c1
  c2 = c2
  CPUs <- MCOneCPU
  TimeMod = 8
  MaxFrames = 2
  MaxLatency = 2
SPECIFICATION Spec
VIEW StateView
INVARIANTS NoDivideByZero
PROPERTIES LatencyOrdered
