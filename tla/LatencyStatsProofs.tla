------------------------- MODULE LatencyStatsProofs -------------------------
(***************************************************************************)
(* Proofs about the latency bookkeeping of nanonet_hook and RESET_STATS,  *)
(* for every set of CPUs, every word width and every bound.               *)
(***************************************************************************)
EXTENDS LatencyStats, TLAPS

(* A u64 divided by a non-zero count is still a u64.                      *)
LEMMA DivStaysU64 ==
  ASSUME LatencyStatsAssumption, NEW x \in U64, NEW n \in Nat \ {0}
  PROVE  x \div n \in U64
<1>1. x \div n >= 0 /\ x \div n <= x
  BY DEF U64
<1>2. QED
  BY <1>1 DEF U64

(* The running mean of lines 135-137 is a u64 whenever the count is not   *)
(* zero: the wrapped numerator is reduced modulo 2^64 before the division.*)
LEMMA RunningMeanType ==
  ASSUME LatencyStatsAssumption, NEW a \in U64, NEW n1 \in Nat, NEW d \in U64,
         NEW n2 \in Nat \ {0}
  PROVE  RunningMean(a, n1, d, n2) \in U64
<1>1. (a * ((n1 - 1) % TimeMod) + d) % TimeMod \in U64
  BY DEF U64
<1>2. QED
  BY <1>1, DivStaysU64 DEF RunningMean

(* The type invariant holds in every initial state.                       *)
LEMMA TypeInit == Init => TypeOK
<1> SUFFICES ASSUME Init PROVE TypeOK
  OBVIOUS
<1> USE LatencyStatsAssumption
<1>1. reset_cpu \in CPUs
  BY DEF Init
<1>2. {last_ns, min_ns, max_ns, avg_ns} \subseteq U64 /\ now \in U64
  BY DEF Init, U64, UINT64_MAX
<1>3. pc \in [CPUs -> PCs] /\ less \in [CPUs -> BOOLEAN] /\ reset_pc \in ResetPCs
  BY DEF Init, PCs, ResetPCs
<1>4. /\ start_time \in [CPUs -> U64] /\ process_time \in [CPUs -> U64]
      /\ avg_old \in [CPUs -> U64] /\ n_old \in [CPUs -> Nat]
  BY DEF Init, U64
<1>5. packets_processed \in Nat /\ frames \in 0..MaxFrames
  BY DEF Init
<1>7. crashed \in BOOLEAN
  BY Zenon DEF Init
<1>6. QED
  BY <1>1, <1>2, <1>3, <1>4, <1>5, <1>7 DEF TypeOK

(* The steps of one CPU through the hook keep the type.                   *)
LEMMA HookStepType ==
  ASSUME TypeOK, NEW c \in CPUs, HookStep(c)
  PROVE  TypeOK'
<1> USE LatencyStatsAssumption
<1>1. CASE Start(c)
  <2>1. frames' \in 0..MaxFrames /\ start_time' \in [CPUs -> U64]
    BY <1>1 DEF Start, TypeOK
  <2>2. QED
    BY <1>1, <2>1 DEF Start, Goto, TypeOK, PCs, statVars
<1>2. CASE Inc(c)
  BY <1>2 DEF Inc, Goto, TypeOK, PCs
<1>3. CASE End(c)
  <2>1. (now - start_time[c]) % TimeMod \in U64
    BY DEF TypeOK, U64
  <2>2. QED
    BY <1>3, <2>1 DEF End, Goto, TypeOK, PCs
<1>4. CASE MinCmp(c)
  <2>1. (process_time[c] < min_ns) \in BOOLEAN
    OBVIOUS
  <2>2. less' \in [CPUs -> BOOLEAN]
    BY <1>4, <2>1 DEF MinCmp, Compare, TypeOK
  <2>3. QED
    BY <1>4, <2>2 DEF MinCmp, Compare, Goto, TypeOK, PCs, statVars
<1>9. CASE MaxCmp(c)
  <2>1. (process_time[c] > max_ns) \in BOOLEAN
    OBVIOUS
  <2>2. less' \in [CPUs -> BOOLEAN]
    BY <1>9, <2>1 DEF MaxCmp, Compare, TypeOK
  <2>3. QED
    BY <1>9, <2>2 DEF MaxCmp, Compare, Goto, TypeOK, PCs, statVars
<1>5. CASE MinSt(c)
  <2>1. min_ns' \in U64
    <3>1. CASE less[c]
      BY <1>5, <3>1 DEF MinSt, TypeOK
    <3>2. CASE ~less[c]
      BY <1>5, <3>2 DEF MinSt, TypeOK
    <3>3. QED
      BY <3>1, <3>2
  <2>2. QED
    BY <1>5, <2>1 DEF MinSt, Goto, TypeOK, PCs
<1>6. CASE MaxSt(c)
  <2>1. max_ns' \in U64
    <3>1. CASE less[c]
      BY <1>6, <3>1 DEF MaxSt, TypeOK
    <3>2. CASE ~less[c]
      BY <1>6, <3>2 DEF MaxSt, TypeOK
    <3>3. QED
      BY <3>1, <3>2
  <2>2. QED
    BY <1>6, <2>1 DEF MaxSt, Goto, TypeOK, PCs
<1>7. CASE AvgRd(c)
  BY <1>7 DEF AvgRd, Goto, TypeOK, PCs, statVars
<1>8. CASE AvgDiv(c) /\ UNCHANGED <<packets_processed, last_ns, min_ns, max_ns, now,
                                    start_time, process_time, less, avg_old, n_old,
                                    reset_pc, reset_cpu, frames>>
  <2>1. CASE /\ packets_processed # 0
             /\ Goto(c, "avg_div", "idle")
             /\ avg_ns' = RunningMean(avg_old[c], n_old[c], process_time[c],
                                      packets_processed)
             /\ UNCHANGED crashed
    <3>1. avg_ns' \in U64
      BY <2>1, RunningMeanType DEF TypeOK
    <3>2. QED
      BY <1>8, <2>1, <3>1 DEF Goto, TypeOK, PCs
  <2>2. CASE /\ packets_processed = 0
             /\ crashed' = TRUE
             /\ UNCHANGED <<pc, avg_ns>>
    BY <1>8, <2>2 DEF TypeOK
  <2>3. QED
    BY <1>8, <2>1, <2>2 DEF AvgDiv
<1>10. QED
  BY <1>1, <1>2, <1>3, <1>4, <1>5, <1>6, <1>7, <1>8, <1>9 DEF HookStep

(* Every step keeps the type.                                             *)
LEMMA TypeStep == TypeOK /\ [Next]_vars => TypeOK'
<1> SUFFICES ASSUME TypeOK, [Next]_vars PROVE TypeOK'
  OBVIOUS
<1> USE LatencyStatsAssumption
<1>1. CASE Tick
  BY <1>1 DEF Tick, TypeOK, U64, statVars, cpuVars
<1>2. ASSUME NEW c \in CPUs, HookStep(c) PROVE TypeOK'
  BY <1>2, HookStepType
<1>3. ASSUME NEW r \in CPUs, ResetStart(r) PROVE TypeOK'
  BY <1>3 DEF ResetStart, TypeOK, ResetPCs, cpuVars
<1>4. CASE ResetStep
  BY <1>4 DEF ResetStep, ResetStore, TypeOK, ResetPCs, U64, UINT64_MAX, cpuVars
<1>5. CASE UNCHANGED vars
  BY <1>5 DEF vars, TypeOK
<1>6. QED
  BY <1>1, <1>2, <1>3, <1>4, <1>5 DEF Next

-----------------------------------------------------------------------------
(***************************************************************************)
(* On one CPU a frame runs from line 123 to line 137 with no RESET_STATS  *)
(* store in between: the ioctl starts only while the hook is idle, and    *)
(* each of its stores waits for the hook to be idle.  What the frame has  *)
(* stored and compared so far therefore still holds when it reaches the   *)
(* next line.                                                             *)
(***************************************************************************)
Counted == {"end", "min_cmp", "min_st", "max_cmp", "max_st", "avg_rd", "avg_div"}
Measured == {"min_cmp", "min_st", "max_cmp", "max_st", "avg_rd", "avg_div"}

FrameAt(c) ==
    /\ pc[c] \in Counted => packets_processed > 0
    /\ pc[c] \in Measured => last_ns = process_time[c]
    /\ pc[c] = "min_st" /\ ~less[c] => min_ns <= process_time[c]
    /\ pc[c] \in {"max_cmp", "max_st", "avg_rd", "avg_div"} => min_ns <= process_time[c]
    /\ pc[c] = "max_st" /\ ~less[c] => process_time[c] <= max_ns
    /\ pc[c] \in {"avg_rd", "avg_div"} => process_time[c] <= max_ns

FrameInv == \A c \in CPUs : FrameAt(c)

UPInv == TypeOK /\ ~crashed /\ FrameInv

(* The steps of the only CPU keep what its frame has established.         *)
LEMMA UPHookStep ==
  ASSUME NEW c0, CPUs = {c0}, UPInv, HookStep(c0)
  PROVE  ~crashed' /\ FrameAt(c0)'
<1> USE LatencyStatsAssumption
<1>1. /\ packets_processed \in Nat /\ last_ns \in Int /\ min_ns \in Int /\ max_ns \in Int
      /\ process_time[c0] \in Int /\ ~crashed /\ FrameAt(c0)
  BY DEF UPInv, TypeOK, FrameInv, U64
<1>2. CASE Start(c0)
  BY <1>2 DEF Start, Goto, FrameAt, Counted, Measured
<1>3. CASE Inc(c0)
  BY <1>1, <1>3 DEF Inc, Goto, FrameAt, Counted, Measured
<1>4. CASE End(c0)
  BY <1>1, <1>4 DEF End, Goto, FrameAt, Counted, Measured, UPInv, TypeOK
<1>5. CASE MinCmp(c0)
  <2>1. /\ pc[c0] = "min_cmp" /\ pc'[c0] = "min_st" /\ ~crashed'
        /\ UNCHANGED <<packets_processed, last_ns, min_ns, max_ns, process_time>>
    BY <1>1, <1>5 DEF MinCmp, Compare, Goto, statVars, UPInv, TypeOK
  <2>2. less'[c0] <=> process_time[c0] < min_ns
    BY <1>5, Zenon DEF MinCmp, Compare, UPInv, TypeOK
  <2>3. ~less'[c0] => min_ns <= process_time[c0]
    BY <1>1, <2>2
  <2>4. QED
    BY <1>1, <2>1, <2>3 DEF FrameAt, Counted, Measured
<1>6. CASE MinSt(c0)
  BY <1>1, <1>6 DEF MinSt, Goto, FrameAt, Counted, Measured
<1>7. CASE MaxCmp(c0)
  <2>1. /\ pc[c0] = "max_cmp" /\ pc'[c0] = "max_st" /\ ~crashed'
        /\ UNCHANGED <<packets_processed, last_ns, min_ns, max_ns, process_time>>
    BY <1>1, <1>7 DEF MaxCmp, Compare, Goto, statVars, UPInv, TypeOK
  <2>2. less'[c0] <=> process_time[c0] > max_ns
    BY <1>7, Zenon DEF MaxCmp, Compare, UPInv, TypeOK
  <2>3. ~less'[c0] => process_time[c0] <= max_ns
    BY <1>1, <2>2
  <2>4. QED
    BY <1>1, <2>1, <2>3 DEF FrameAt, Counted, Measured
<1>8. CASE MaxSt(c0)
  BY <1>1, <1>8 DEF MaxSt, Goto, FrameAt, Counted, Measured
<1>9. CASE AvgRd(c0)
  BY <1>1, <1>9 DEF AvgRd, Goto, FrameAt, Counted, Measured, statVars, UPInv, TypeOK
<1>10. CASE AvgDiv(c0) /\ UNCHANGED <<packets_processed, last_ns, min_ns, max_ns, now,
                                     start_time, process_time, less, avg_old, n_old,
                                     reset_pc, reset_cpu, frames>>
  <2>1. packets_processed # 0
    BY <1>1, <1>10 DEF AvgDiv, Goto, FrameAt, Counted
  <2>2. QED
    BY <1>1, <1>10, <2>1 DEF AvgDiv, Goto, FrameAt, Counted, Measured, UPInv, TypeOK
<1>11. QED
  BY <1>2, <1>3, <1>4, <1>5, <1>6, <1>7, <1>8, <1>9, <1>10 DEF HookStep

(* On one CPU the frame invariant and the absence of the oops are kept by *)
(* every step.                                                            *)
LEMMA UPInvStep ==
  ASSUME NEW c0, CPUs = {c0}, UPInv, [Next]_vars
  PROVE  UPInv'
<1> USE LatencyStatsAssumption
<1>1. TypeOK'
  BY TypeStep DEF UPInv
<1>2. SUFFICES ~crashed' /\ FrameAt(c0)'
  BY <1>1 DEF UPInv, FrameInv
<1>3. CASE Tick
  BY <1>3 DEF Tick, UPInv, FrameInv, FrameAt, statVars, cpuVars
<1>4. ASSUME NEW c \in CPUs, HookStep(c) PROVE ~crashed' /\ FrameAt(c0)'
  BY <1>4, UPHookStep
<1>5. ASSUME NEW r \in CPUs, ResetStart(r) PROVE ~crashed' /\ FrameAt(c0)'
  <2>1. pc[c0] = "idle"
    BY <1>5 DEF ResetStart
  <2>2. QED
    BY <1>5, <2>1 DEF ResetStart, FrameAt, Counted, Measured, cpuVars
<1>6. CASE ResetStep
  <2>1. reset_cpu = c0
    BY DEF UPInv, TypeOK
  <2>2. pc[c0] = "idle"
    BY <1>6, <2>1 DEF ResetStep, ResetStore
  <2>3. QED
    BY <1>6, <2>2 DEF ResetStep, ResetStore, FrameAt, Counted, Measured, cpuVars
<1>7. CASE UNCHANGED vars
  BY <1>7 DEF vars, UPInv, FrameInv, FrameAt
<1>8. QED
  BY <1>3, <1>4, <1>5, <1>6, <1>7 DEF Next

LEMMA UPInvInit ==
  Init => UPInv
BY TypeInit DEF Init, UPInv, FrameInv, FrameAt, Counted, Measured

(* On a single CPU the divisor of line 137 is never 0, for every word     *)
(* width and bound: RESET_STATS cannot zero packets_processed between the *)
(* hook's increment at line 123 and its division at line 137, because the *)
(* ioctl starts only while the hook is idle.                              *)
THEOREM NoDivideByZeroUP ==
  ASSUME NEW c0, CPUs = {c0}
  PROVE  Spec => []NoDivideByZero
<1>1. UPInv => NoDivideByZero
  BY DEF UPInv, NoDivideByZero
<1>2. QED
  BY <1>1, UPInvInit, UPInvStep, PTL DEF Spec

(* On a single CPU a frame finishes with min <= last <= max (spec 8.7):   *)
(* its stores of lines 128, 131 and 134 are not interleaved with any      *)
(* other write of the three scalars.                                      *)
THEOREM LatencyOrderedUP ==
  ASSUME NEW c0, CPUs = {c0}
  PROVE  Spec => LatencyOrdered
<1>1. ASSUME UPInv, [Next]_vars, Finishes(c0)
      PROVE  min_ns' <= last_ns' /\ last_ns' <= max_ns'
  <2> USE LatencyStatsAssumption
  <2>1. pc[c0] = "avg_div" /\ pc'[c0] = "idle"
    BY <1>1 DEF Finishes
  <2>2. /\ min_ns <= process_time[c0] /\ process_time[c0] <= max_ns
        /\ last_ns = process_time[c0]
    BY <1>1, <2>1 DEF UPInv, FrameInv, FrameAt, Measured
  <2>3. UNCHANGED <<last_ns, min_ns, max_ns>>
    <3>1. CASE Tick
      BY <3>1 DEF Tick, statVars
    <3>2. ASSUME NEW c \in CPUs, HookStep(c) PROVE UNCHANGED <<last_ns, min_ns, max_ns>>
      <4>1. c = c0
        OBVIOUS
      <4>2. CASE AvgDiv(c0) /\ UNCHANGED <<packets_processed, last_ns, min_ns, max_ns, now,
                                           start_time, process_time, less, avg_old, n_old,
                                           reset_pc, reset_cpu, frames>>
        BY <4>2
      <4>3. QED
        BY <2>1, <3>2, <4>1, <4>2 DEF HookStep, Start, Inc, End, MinCmp, MaxCmp, Compare,
                                      MinSt, MaxSt, AvgRd, Goto
    <3>3. ASSUME NEW r \in CPUs, ResetStart(r) PROVE UNCHANGED <<last_ns, min_ns, max_ns>>
      BY <3>3 DEF ResetStart
    <3>4. CASE ResetStep
      <4>1. reset_cpu = c0
        BY <1>1 DEF UPInv, TypeOK
      <4>2. QED
        BY <2>1, <3>4, <4>1 DEF ResetStep, ResetStore
    <3>5. CASE UNCHANGED vars
      BY <3>5 DEF vars
    <3>6. QED
      BY <1>1, <3>1, <3>2, <3>3, <3>4, <3>5 DEF Next
  <2>4. min_ns \in Int /\ max_ns \in Int /\ process_time[c0] \in Int
    BY <1>1 DEF UPInv, TypeOK, U64
  <2>5. QED
    BY <2>2, <2>3, <2>4
<1>2. UPInv /\ [Next]_vars =>
        [\A c \in CPUs : Finishes(c) => min_ns' <= last_ns' /\ last_ns' <= max_ns']_vars
  BY <1>1
<1>3. QED
  BY <1>2, UPInvInit, UPInvStep, PTL DEF Spec, LatencyOrdered

=============================================================================
