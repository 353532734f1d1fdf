---------------------------- MODULE LatencyStats ----------------------------
(***************************************************************************)
(* The latency bookkeeping at the end of nanonet_hook (src/src/nanonet.c  *)
(* lines 77 and 123-137) and its reset by the RESET_STATS ioctl           *)
(* (control_interface.c lines 67 and 73-76).                              *)
(*                                                                         *)
(* The four scalars last, min, max and avg of global_stats are plain u64  *)
(* fields read and written without a lock by every CPU that finishes a    *)
(* frame; only packets_processed is atomic.  Each load-compare and each   *)
(* store is a step of its own, so other CPUs and the reset may run        *)
(* between them.  The ioctl runs in process context on some CPU: the      *)
(* softirq that runs the hook preempts it there, but it cannot run on a   *)
(* CPU while that CPU's softirq is in the middle of a frame.              *)
(*                                                                         *)
(* u64 arithmetic is taken modulo TimeMod (2^64 in the code); the wall    *)
(* clock read by get_timestamp_ns is a u64 counter modulo the same value. *)
(***************************************************************************)
EXTENDS Integers

CONSTANTS
  CPUs,       \* the CPUs the hook runs on
  TimeMod,    \* 2^64; a small power of two in TLC's runs
  MaxFrames,  \* bound on frames finished between two resets
  MaxLatency  \* bound on the clock ticks one frame spans

ASSUME LatencyStatsAssumption ==
  /\ CPUs # {}
  /\ TimeMod \in Nat \ {0, 1}
  /\ MaxFrames \in Nat \ {0}
  /\ MaxLatency \in 1..(TimeMod - 1)

U64 == 0..(TimeMod - 1)
UINT64_MAX == TimeMod - 1

(* Where each CPU is in the tail of nanonet_hook.                         *)
PCs == {"idle", "inc", "end", "min_cmp", "min_st", "max_cmp", "max_st",
        "avg_rd", "avg_div"}

(* The stores of RESET_STATS still to be done, in program order.          *)
ResetPCs == {"none", "last", "min", "max", "avg"}

VARIABLES
  packets_processed,  \* atomic64 global_stats.packets_processed
  last_ns,            \* global_stats.last_process_time_ns
  min_ns,             \* global_stats.min_process_time_ns
  max_ns,             \* global_stats.max_process_time_ns
  avg_ns,             \* global_stats.avg_process_time_ns
  now,                \* the wall clock, in ns modulo TimeMod
  pc,                 \* CPU -> its place in the hook
  start_time,         \* CPU -> start_time
  process_time,       \* CPU -> process_time
  less,               \* CPU -> outcome of its last comparison
  avg_old,            \* CPU -> avg loaded for the running mean
  n_old,              \* CPU -> packets_processed loaded for (N - 1)
  reset_pc,           \* next store of the RESET_STATS in progress
  reset_cpu,          \* the CPU the ioctl runs on
  crashed,            \* a divide error has oopsed the kernel
  frames              \* history: frames finished since the last reset

vars == <<packets_processed, last_ns, min_ns, max_ns, avg_ns, now, pc,
          start_time, process_time, less, avg_old, n_old, reset_pc, reset_cpu,
          crashed, frames>>

cpuVars == <<pc, start_time, process_time, less, avg_old, n_old>>
statVars == <<packets_processed, last_ns, min_ns, max_ns, avg_ns>>

(* The state after module load: global_stats as initialised in nanonet.c. *)
Init ==
  /\ packets_processed = 0
  /\ last_ns = 0
  /\ min_ns = UINT64_MAX
  /\ max_ns = 0
  /\ avg_ns = 0
  /\ now \in U64
  /\ pc = [c \in CPUs |-> "idle"]
  /\ start_time = [c \in CPUs |-> 0]
  /\ process_time = [c \in CPUs |-> 0]
  /\ less = [c \in CPUs |-> FALSE]
  /\ avg_old = [c \in CPUs |-> 0]
  /\ n_old = [c \in CPUs |-> 0]
  /\ reset_pc = "none"
  /\ reset_cpu = CHOOSE c \in CPUs : TRUE
  /\ crashed = FALSE
  /\ frames = 0

(* CPU c moves from label from to label to.                               *)
Goto(c, from, to) ==
  /\ ~crashed
  /\ pc[c] = from
  /\ pc' = [pc EXCEPT ![c] = to]

(* The wall clock advances by one unit, wrapping as a u64 does, while no  *)
(* frame has been in flight for MaxLatency units.                         *)
Tick ==
  /\ ~crashed
  /\ \A c \in CPUs : pc[c] \in {"inc", "end"} =>
        (now - start_time[c]) % TimeMod < MaxLatency
  /\ now' = (now + 1) % TimeMod
  /\ UNCHANGED <<statVars, cpuVars, reset_pc, reset_cpu, crashed, frames>>

(* Line 77: a frame that will be processed records start_time.            *)
Start(c) ==
  /\ frames < MaxFrames
  /\ Goto(c, "idle", "inc")
  /\ start_time' = [start_time EXCEPT ![c] = now]
  /\ frames' = frames + 1
  /\ UNCHANGED <<statVars, now, process_time, less, avg_old, n_old, reset_pc,
                 reset_cpu, crashed>>

(* Line 123: atomic64_inc(&global_stats.packets_processed).               *)
Inc(c) ==
  /\ Goto(c, "inc", "end")
  /\ packets_processed' = packets_processed + 1
  /\ UNCHANGED <<last_ns, min_ns, max_ns, avg_ns, now, start_time, process_time,
                 less, avg_old, n_old, reset_pc, reset_cpu, crashed, frames>>

(* Lines 125-128: end_time, process_time = end - start, and the store of  *)
(* last_process_time_ns.                                                  *)
(* Mutant: the difference of the two u64 stamps taken as signed.         *)
EndSigned(c) ==
  LET d == now - start_time[c] IN
  /\ Goto(c, "end", "min_cmp")
  /\ process_time' = [process_time EXCEPT ![c] = d]
  /\ last_ns' = d
  /\ UNCHANGED <<packets_processed, min_ns, max_ns, avg_ns, now, start_time,
                 less, avg_old, n_old, reset_pc, reset_cpu, crashed, frames>>

End(c) ==
  LET d == (now - start_time[c]) % TimeMod IN
  /\ Goto(c, "end", "min_cmp")
  /\ process_time' = [process_time EXCEPT ![c] = d]
  /\ last_ns' = d
  /\ UNCHANGED <<packets_processed, min_ns, max_ns, avg_ns, now, start_time,
                 less, avg_old, n_old, reset_pc, reset_cpu, crashed, frames>>

(* Lines 129-134: each bound is loaded and compared, then stored if the   *)
(* comparison said so.                                                    *)
Compare(c, from, to, holds) ==
  /\ Goto(c, from, to)
  /\ less' = [less EXCEPT ![c] = holds]
  /\ UNCHANGED <<statVars, now, start_time, process_time, avg_old, n_old,
                 reset_pc, reset_cpu, crashed, frames>>

(* Mutant: the comparison for max written the wrong way round.           *)
MaxCmpSwapped(c) == Compare(c, "max_cmp", "max_st", process_time[c] < max_ns)

MinCmp(c) == Compare(c, "min_cmp", "min_st", process_time[c] < min_ns)
MaxCmp(c) == Compare(c, "max_cmp", "max_st", process_time[c] > max_ns)

MinSt(c) ==
  /\ Goto(c, "min_st", "max_cmp")
  /\ min_ns' = IF less[c] THEN process_time[c] ELSE min_ns
  /\ UNCHANGED <<packets_processed, last_ns, max_ns, avg_ns, now, start_time,
                 process_time, less, avg_old, n_old, reset_pc, reset_cpu,
                 crashed, frames>>

MaxSt(c) ==
  /\ Goto(c, "max_st", "avg_rd")
  /\ max_ns' = IF less[c] THEN process_time[c] ELSE max_ns
  /\ UNCHANGED <<packets_processed, last_ns, min_ns, avg_ns, now, start_time,
                 process_time, less, avg_old, n_old, reset_pc, reset_cpu,
                 crashed, frames>>

(* Lines 135-136: avg and packets_processed are loaded for avg * (N-1). *)
AvgRd(c) ==
  /\ Goto(c, "avg_rd", "avg_div")
  /\ avg_old' = [avg_old EXCEPT ![c] = avg_ns]
  /\ n_old' = [n_old EXCEPT ![c] = packets_processed]
  /\ UNCHANGED <<statVars, now, start_time, process_time, less, reset_pc,
                 reset_cpu, crashed, frames>>

(* The running mean of lines 136-137 in u64 arithmetic: N - 1 is an s64   *)
(* converted to u64, and the sum wraps.                                   *)
RunningMean(a, n1, d, n2) ==
  ((a * ((n1 - 1) % TimeMod) + d) % TimeMod) \div n2

(***************************************************************************)
(* Line 137: packets_processed is loaded again as the divisor and the     *)
(* mean is stored; a divisor of 0 is a divide error, which oopses the     *)
(* kernel in softirq context.                                             *)
(***************************************************************************)
(* Mutant: the mean divided by N - 1 instead of N.                       *)
AvgDivOffByOne(c) ==
  LET n2 == packets_processed - 1 IN
  \/ /\ n2 > 0
     /\ Goto(c, "avg_div", "idle")
     /\ avg_ns' = RunningMean(avg_old[c], n_old[c], process_time[c], n2)
     /\ UNCHANGED crashed
  \/ /\ n2 <= 0
     /\ ~crashed /\ pc[c] = "avg_div"
     /\ crashed' = TRUE
     /\ UNCHANGED <<pc, avg_ns>>

AvgDiv(c) ==
  LET n2 == packets_processed IN
  \/ /\ n2 # 0
     /\ Goto(c, "avg_div", "idle")
     /\ avg_ns' = RunningMean(avg_old[c], n_old[c], process_time[c], n2)
     /\ UNCHANGED crashed
  \/ /\ n2 = 0
     /\ ~crashed /\ pc[c] = "avg_div"
     /\ crashed' = TRUE
     /\ UNCHANGED <<pc, avg_ns>>

HookStep(c) ==
  \/ Start(c) \/ Inc(c) \/ End(c) \/ MinCmp(c) \/ MinSt(c) \/ MaxCmp(c) \/ MaxSt(c)
  \/ AvgRd(c)
  \/ AvgDiv(c) /\ UNCHANGED <<packets_processed, last_ns, min_ns, max_ns, now,
                             start_time, process_time, less, avg_old, n_old,
                             reset_pc, reset_cpu, frames>>

(***************************************************************************)
(* RESET_STATS, started on CPU r: the atomic64_set of packets_processed   *)
(* (line 67), then the plain stores of lines 73-76 one at a time.  The    *)
(* ioctl cannot run on r while r's softirq is in a frame.                 *)
(***************************************************************************)
ResetStart(r) ==
  /\ ~crashed
  /\ reset_pc = "none"
  /\ pc[r] = "idle"
  /\ reset_cpu' = r
  /\ reset_pc' = "last"
  /\ packets_processed' = 0
  /\ frames' = 0
  /\ UNCHANGED <<last_ns, min_ns, max_ns, avg_ns, now, cpuVars, crashed>>

(* One store of the reset in progress: field := value, then on to next.   *)
ResetStore(at, next) ==
  /\ ~crashed
  /\ reset_pc = at
  /\ pc[reset_cpu] = "idle"
  /\ reset_pc' = next

ResetStep ==
  /\ \/ ResetStore("last", "min") /\ last_ns' = 0
        /\ UNCHANGED <<min_ns, max_ns, avg_ns>>
     \/ ResetStore("min", "max") /\ min_ns' = UINT64_MAX
        /\ UNCHANGED <<last_ns, max_ns, avg_ns>>
     \/ ResetStore("max", "avg") /\ max_ns' = 0
        /\ UNCHANGED <<last_ns, min_ns, avg_ns>>
     \/ ResetStore("avg", "none") /\ avg_ns' = 0
        /\ UNCHANGED <<last_ns, min_ns, max_ns>>
  /\ UNCHANGED <<packets_processed, now, cpuVars, reset_cpu, crashed, frames>>

Next ==
  \/ Tick
  \/ \E c \in CPUs : HookStep(c)
  \/ \E r \in CPUs : ResetStart(r)
  \/ ResetStep

Spec == Init /\ [][Next]_vars

(***************************************************************************)
(* What TLC tells states apart by.  Every step depends on the clock only  *)
(* through now - start_time of the CPUs still to read end_time, so states *)
(* that differ by a shift of the clock are the same; and a local of the   *)
(* hook is dead outside the lines that read it, so its stale value on     *)
(* the stack is ignored.                                                  *)
(***************************************************************************)
Elapsed(c) == IF pc[c] \in {"inc", "end"} THEN (now - start_time[c]) % TimeMod ELSE 0

LiveLocals(c) ==
  <<Elapsed(c),
    IF pc[c] \in {"min_cmp", "min_st", "max_cmp", "max_st", "avg_rd", "avg_div"}
      THEN process_time[c] ELSE 0,
    pc[c] \in {"min_st", "max_st"} /\ less[c],
    IF pc[c] = "avg_div" THEN <<avg_old[c], n_old[c]>> ELSE <<0, 0>>>>

StateView == <<statVars, pc, [c \in CPUs |-> LiveLocals(c)], reset_pc,
               IF reset_pc = "none" THEN 0 ELSE reset_cpu, crashed, frames>>

-----------------------------------------------------------------------------
(* The type invariant: every u64 field and local stays in u64 range.      *)
TypeOK ==
  /\ packets_processed \in Nat
  /\ last_ns \in U64 /\ min_ns \in U64 /\ max_ns \in U64 /\ avg_ns \in U64
  /\ now \in U64
  /\ pc \in [CPUs -> PCs]
  /\ start_time \in [CPUs -> U64]
  /\ process_time \in [CPUs -> U64]
  /\ less \in [CPUs -> BOOLEAN]
  /\ avg_old \in [CPUs -> U64]
  /\ n_old \in [CPUs -> Nat]
  /\ reset_pc \in ResetPCs
  /\ reset_cpu \in CPUs
  /\ crashed \in BOOLEAN
  /\ frames \in 0..MaxFrames

(* CPU c finishes the frame: its store of the mean at line 137.           *)
Finishes(c) == pc[c] = "avg_div" /\ pc'[c] = "idle"

(***************************************************************************)
(* The divisor of line 137 is never 0: no RESET_STATS can zero            *)
(* packets_processed between a CPU's increment at line 123 and its load   *)
(* at line 137.                                                           *)
(***************************************************************************)
NoDivideByZero == ~crashed

(***************************************************************************)
(* When a CPU finishes a frame, min <= last <= max (spec 8.7): the        *)
(* stores of lines 128-134 by one CPU are not interleaved with others'.   *)
(***************************************************************************)
LatencyOrdered ==
  [][\A c \in CPUs : Finishes(c) => min_ns' <= last_ns' /\ last_ns' <= max_ns']_vars

(***************************************************************************)
(* When a CPU finishes a frame, the running mean it stores at line 137    *)
(* lies between min and max (spec 8.7, "avg lies in [min, max]"): the    *)
(* count N that divides the mean counts exactly the latencies that min,   *)
(* max and avg have seen since the last RESET_STATS.                      *)
(***************************************************************************)
AvgWithinBounds ==
  [][\A c \in CPUs : Finishes(c) => min_ns' <= avg_ns' /\ avg_ns' <= max_ns']_vars

=============================================================================
