\* One CPU: RESET_STATS zeroes packets_processed at line 67, the softirq
\* preempts the ioctl for a whole frame, and the stores of lines 73-76 then
\* forget that frame while the count keeps it.
CONSTANTS
  c1 = c1
  c2 = c2
  CPUs <- MCOneCPU
  TimeMod = 8
  MaxFrames = 2
  MaxLatency = 2
SPECIFICATION Spec
VIEW StateView
PROPERTIES AvgWithinBounds
