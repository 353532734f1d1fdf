# Formal models of NanoNet-ULL

NanoNet-ULL (`src/`) is a Linux kernel module with these parts:

- a netfilter hook at `NF_INET_PRE_ROUTING` (`nanonet_hook`, `src/src/nanonet.c`);
- a frame parser (`micro_stack.c`);
- a packet validator with a rate limit and a TCP flow table (`security.c`);
- a market-data handler that answers cheap prices with a buy order (`packet_processor.c`);
- a response builder and sender (`response_sender.c`) drawing skbs from a pool (`optimizations.c`);
- a character device whose ioctls set the configuration, reset the statistics and flush the flow table (`control_interface.c`);
- a `/proc` view (`debug.c`).

This directory holds TLA+ models of those parts, TLC configurations that check them on small instances, and TLAPS proofs.

## How the parts interact

1. `nanonet_hook` runs in softirq context, concurrently on every CPU.
2. For each frame it reads the unlocked `global_config`:
   - It bypasses the frame when the hook is disabled or the skb has no device.
   - It parses the frame. A failure counts as `errors`.
   - It validates the frame: the shared `__ratelimit` window of 20 calls per 5 s, then a zero source address or a short `tot_len`. A failure counts as `errors`.
   - It bypasses a frame that is not for the target address or multicast group.
3. For a TCP segment under a TCP configuration, it checks the port and tracks the flow under `conn_hash_lock`. For a UDP datagram under a UDP configuration, it checks the port only.
4. It calls the application handler. That may build an order and send it with `nanonet_send_response`.
5. It counts the frame processed and returns `NF_STOLEN`.

The ioctls run in process context at any time:

- SET_CONFIG writes `global_config` with `copy_from_user`.
- RESET_STATS writes every counter with `atomic64_set`.
- CLEAR_CONNECTIONS flushes the flow table.

## Modules

| Module | Models | State |
|---|---|---|
| `ConnTracker` | the flow table of `security.c`: `nanonet_track_tcp_connection`, `nanonet_clear_tcp_connections`, and the gauge part of RESET_STATS | `connection_hash` (bucket to set of records), `connections_active`, `connections_dropped` |
| `Pipeline` | `nanonet_hook` with all its exits and callees, and the SET_CONFIG, RESET_STATS and CLEAR_CONNECTIONS ioctls; it INSTANCEs `ConnTracker` for the table | `global_config`, the four atomic64 counters, the flow table, the rate limiter's `printed` count, and two history variables (`handled`, `last`) |
| `ResponsePath` | `nanonet_send_response` with `nanonet_create_response_packet`, `nanonet_get_response_skb`, `nanonet_raw_send`, and `nanonet_exit` with the pool teardown, on several CPUs | the ring (`pool`, `head`, `tail`), `skb->users` of every skb, the skbs the driver still owns, the eth0 reference count, `global_config.seq_num`, and per CPU its place in the call, its skb and the `seq_num` it loaded |
| `SkbPool` | what the response pool promises its caller: distinct skbs until `Capacity` of them are gone, then misses | the skbs still in the pool, the misses |
| `LatencyStats` | the latency bookkeeping of `nanonet_hook` (lines 77, 123-137) and its reset by RESET_STATS (lines 67, 73-76), one load or store per step | `packets_processed`, the four u64 scalars, the wall clock, per CPU its place and its locals, the reset's progress |
| `ConfigRace` | SET_CONFIG's `copy_from_user` as one store per field against the hook's reads of `global_config`, one read per step, on several CPUs | `global_config`, the copy's position and source struct, per CPU the hook's next read, its frame and verdict, and two history variables (`installed`, `window`) |
| `ConnTrackerProofs` | TLAPS proofs about `ConnTracker` | none |
| `PipelineProofs` | TLAPS proofs about `Pipeline`'s counters | none |
| `LatencyStatsProofs` | TLAPS proofs about `LatencyStats` | none |
| `ResponsePathProofs` | TLAPS proofs about `ResponsePath`, including its refinement of `SkbPool` | none |
| `MCConnTracker`, `MCPipeline`, `MCResponsePath`, `MCLatencyStats`, `MCConfigRace` | the constants of the TLC runs | none |

### ConnTracker

Each table operation holds `conn_hash_lock` from its first read to its last write, so it is one atomic step.

- **Buckets are sets.** `hlist_add_head` orders a chain, but a lookup stops at the only record of its key. That key is unique by `FlowTableWellFormed`, so the order cannot be observed.
- **Hash.** The jhash of the 4-tuple is the constant operator `Hash`. The only assumption is that it lands in `Buckets`. The MC instance makes two keys collide in each bucket.
- **Actions.**
  - `nanonet_track_tcp_connection(k, syn, ack, result)` has one disjunct per outcome: refresh a matched record (`RefreshFlow`), insert a pure SYN (`InsertFlow`), `kmalloc` failure (`-ENOMEM`), or `-EINVAL`.
  - `nanonet_clear_tcp_connections` and `ResetConnectionStats` are the other two actions.
- **Left out.** `seq_num`, `ack_num` and `last_seen` are written and never read anywhere, so they are not modelled.

### Pipeline

One hook invocation is one step. Each step computes the following against the configuration current at that step:

- the counters it bumps;
- the verdict (`ACCEPT` / `STOLEN`);
- the flow-table update;
- whether a response frame reached the wire.

Its disjuncts follow the early returns of `nanonet_hook` in order.

**How data is abstracted.** A frame is a record of the fields the hook branches on. The callees that do byte-level work are reduced to the outcome they produce:

- `ull_parse_packet` becomes `parse` ∈ {ok, malformed, unsupported};
- the `tot_len` test becomes `tot_len_ok`;
- the decoded price becomes `payload` ∈ {none, short, below, above}.

`nanonet_send_response` is the set of its possible results:

- no response when `response_ip`/`response_port` is zero or the protocol is neither TCP nor UDP;
- otherwise `-ENOMEM` (pool empty and `alloc_skb` failed, or no `eth0`), `-EIO`, or success.

**SET_CONFIG.** `SetConfig(u, n)` writes the first `n` fields of `u` and zeros behind them. `n = Len(ConfigFields)` is a full copy, and a smaller `n` is a faulting `copy_from_user`. The validator's verdict changes nothing, as in the code. `seq_num` is left out of the struct here, because it is only read when a response is built.

**Rate limiter.** `__ratelimit` (kernel code, outside the repository) is a fixed window. When the interval has passed, the count restarts. A call is admitted while fewer than `burst` calls were admitted. `elapsed` is the nondeterministic "the window has run out" input.

**History variables.** `handled` (hook calls since RESET_STATS) and `last` (the last frame, its verdict and whether it sent a response) are history variables: no action reads them. `last` is excluded from the state fingerprint with `VIEW StateView`. That is sound because nothing depends on it. The action properties that read `last'` are checked on every transition TLC generates.

### ConfigRace

`Pipeline` judges each frame against one configuration in one step. The code does not: `unlocked_ioctl` copies the user struct straight over the live `global_config` (control_interface.c:39), and the hook reads the fields one at a time (nanonet.c:73, 92-93, 98-99, 108-109, and packet_processor.c:81).

- **Writer.** `SetConfigStart` enters `copy_from_user`. `CopyField` stores the next field in the struct's layout order (nanonet.h:70-81). `CopyFault` is a user page fault: the rest of the struct is zeroed and the ioctl returns `-EFAULT`.
- **Hook.** `HookStart` takes a frame. `HookStep` is one read per disjunct, each going on or ending with a verdict, in the order of the code's tests. The steps that do not read `global_config` (parsing, validation, the tracker) are left out: every frame parses, validates and, if TCP, is a SYN the tracker accepts. `Pipeline` models those.
- **History.** `installed` is the struct the last finished copy left. `window[c]` collects every whole struct in force while CPU `c`'s hook runs: the installed one at its start, the one being copied, and any struct a copy installs meanwhile.
- **Property.** `HookJudgesOneConfig`: a finished hook's verdict is the one `Decide` gives for some struct in its window. This is spec section 5, "An implementer MUST publish Config atomically".

### ResponsePath

The call is split where another CPU can run in between.

- **The pool lookup.** `TakePooled` and `AllocFallback` are part of the first step, `StartSend`. `nanonet_get_response_skb` holds `response_pool.lock` throughout, so this is atomic.
- **The device lookup.** `GetDev` is `dev_get_by_name`. It takes a reference, or on failure frees the skb.
- **The transmit.** `nanonet_raw_send` is one step with a nondeterministic `dev_queue_xmit` result:
  - `NET_XMIT_SUCCESS` and `NET_XMIT_CN` hand the skb to the driver (`inflight`);
  - `NET_XMIT_DROP` and an errno free it at once.
- **After the transmit.** `FreeFailed` is the `kfree_skb` of line 143. `SeqLoad`/`SeqStore` are the two halves of `seq_num += response_len`.
- **Other actions.**
  - `TxComplete(s)` is the driver finishing a queued skb.
  - `nanonet_exit` frees the ring's skbs and puts `target_dev`'s reference. `nf_unregister_net_hook` waits for running hooks, so it needs every CPU idle.
  - `Done` is the stutter once everything has been unloaded and completed.
- **What a CPU sends.** A CPU starts a send whenever it is idle. This stands for a hook that has decided to answer a frame; what it answers is `Pipeline`'s business. The config test of lines 28-40 is the disjunct that allocates nothing.
- **skb identity.** skbs are numbers: the pool's `0..PoolSize-1` and `HeapSize` more from `alloc_skb`. `users` is `skb->users`, so a double free shows as a count below zero.
- **Refinement.** `ServesPoolMinusOne` instances `SkbPool` with `avail <- RingContents` (the non-NULL slots) and `Capacity <- PoolSize - 1`, and checks its `Spec` as a property. Each step maps as follows:
  - a pool hit is `Acquire`;
  - an empty test that succeeds is `Miss`;
  - the unload is `Drain`;
  - every other step is a stutter of the pool.

  With `Capacity <- PoolSize`, the capacity spec 8.6 asks for, the same mapping fails: the ring misses after `PoolSize - 1` requests.

### LatencyStats

The hook's tail is modelled from its atomic increment at line 123 on, one step per access to a shared field:

- `End` stores `last`;
- the compare and the store of `min` are separate steps, and likewise for `max`;
- the mean loads `avg` and `N` (`AvgRd`), then reloads `N` as the divisor and stores (`AvgDiv`).

Locals live in per-CPU variables.

**u64 arithmetic** is taken modulo `TimeMod`, which is 2^64 in the code:

- the clock wraps;
- `process_time` is the modular difference;
- `N - 1` of an `N` that reads 0 is `TimeMod - 1`;
- the sum of the mean wraps.

**Divide by zero.** A divisor of 0 is a divide error. The `crashed` state ends the run, since an oops in softirq context stops the machine.

**RESET_STATS.** `ResetStart` is the `atomic64_set` of line 67, and four `ResetStep`s are the plain stores of lines 73-76. The stores of the other counters do not touch these fields. The ioctl runs in process context on `reset_cpu`. The softirq preempts it there, but it cannot run on that CPU while that CPU is inside a frame. So on a single CPU a frame never sees a reset half done, but a reset can see a frame happen in the middle of it.

**VIEW.** The state fingerprint (`VIEW StateView`) drops two things:

- the absolute clock, keeping `now - start_time` for the CPUs that have still to read `end_time`. Every step depends on the clock only through that difference;
- locals that are dead at the CPU's current line.

Both are sound because no step reads what is dropped.

## Runs

| Run | Result | What it shows |
|---|---|---|
| `conntracker` (`MCConnTracker.cfg`) | pass, 1026 states | `TypeOK`, `FlowTableWellFormed` and `ActiveBoundedByFlows` hold under any order of track, flush and reset |
| `conntracker_negative` | violation | `ActiveNeverNegative` fails: a SYN inserts, RESET_STATS zeroes the gauge, the flush subtracts 1 |
| `pipeline` (`MCPipeline.cfg`) | pass, about 21 000 states | `TypeOK`, `FrameAccountingBounds` (processed + bypassed ≤ frames ≤ processed + bypassed + errors), and `StolenIffProcessed` (an action property: the hook steals exactly the frames it counts processed) |
| `pipeline_off_endpoint` | violation | a UDP frame under a TCP configuration skips the port check and triggers an order (spec 8.2) |
| `pipeline_config_valid` | violation | an invalid or half-copied configuration stays live and enabled |
| `responsepath` (`MCResponsePath.cfg`) | pass, about 48 600 states | `TypeOK`; `PoolHandsOutOnce` (no skb in two slots or with two holders); `ServesPoolMinusOne` (the ring refines `SkbPool` with capacity `PoolSize - 1`); `SkbEventuallyReleased` (every taken skb eventually reaches count 0, under the fairness below) |
| `responsepath_double_free` | violation | `NoSkbUnderflow`: `NET_XMIT_DROP` frees the skb, then line 143 frees it again |
| `responsepath_dev_refs` | violation | `DevRefsReleased`: each response's `dev_get_by_name` reference outlives the unload |
| `latency_up` (`MCLatencyStatsUP.cfg`) | pass, about 2 100 states | on one CPU: `NoDivideByZero`; `LatencyOrdered` (min ≤ last ≤ max when a frame finishes, spec 8.7) |
| `latency_forgotten_frame` (`MCLatencyStatsForgotten.cfg`) | violation | `AvgWithinBounds` (spec 8.7: avg lies in [min, max]), on one CPU. RESET_STATS zeroes `packets_processed`, then a softirq frame preempts the ioctl. The reset's stores of lines 73-76 then erase that frame from `min`, `max` and `avg`, while the count still has it. The next frame divides its single latency by 2 and stores an `avg` below `min`. |
| `configrace` (`MCConfigRace.cfg`) | violation | `HookJudgesOneConfig`: a hook reads the new `target_ip` and a `multicast` the copy has not yet reached, and bypasses a frame that the configuration before the copy delivers and the one it installs rejects |
| `latency_div_zero` | violation | two CPUs: RESET_STATS between a CPU's increment and its division makes the divisor 0 |

Each violation is recorded as a finding in `PROJECT.json`. The models also reach other disagreements with the spec, which are kept as hazards rather than runs:

- the unlocked `seq_num += len` losing an advance when two CPUs send;
- `max` decreasing under two CPUs' compare-and-store, and with it `LatencyOrdered` failing on two CPUs (spec section 9 calls this race a known limitation);
- error exits adding nothing to processed + bypassed (spec 8.1), and unsupported frames counted as errors (spec 7);
- the SYN-ACK reply being bypassed before tracking (spec S4).

Every property of a passing run has a mutant in `PROJECT.json`: a variant of one mapped definition that TLC shows breaks it. An example is the flush forgetting its `atomic64_dec`, or an exit of the hook returning without its counter.

### Bounds

**MCConfigRace.** One hook CPU is enough, since the writer runs on another. Two user structs: TCP to `t:p` with the market-data handler, and UDP to `u:q` with an unknown handler and multicast to `t`. Three frames. `MaxSets = 2` lets a faulting copy be followed by a second one. TLC finds the violation after about 6 000 distinct states.

**MCConnTracker.** Two addresses, one port and two buckets give four keys, with two keys per bucket, so chains hold colliding flows. `MaxCount = 3` bounds the dropped gauge, which allows two flushes of non-empty tables.

**MCPipeline.**

- Hosts `t` (the target) and `h`, ports `p` and `q`, and the zero address and port.
- Six user configurations: UDP, TCP, multicast to `h`, a zero response address, an unknown handler, and disabled.
- Copy lengths 0 to 5 and 9. These cover every field a prefix can stop after, up to the protocol and the response address; they are what separates valid from invalid configurations.
- Sixteen frames that between them take every exit of the hook. This includes the SYN-ACK reply.
- `Burst = 1`, so the rate limiter denies the second call in a window.
- `MaxFrames = 4` hook calls between two resets. That allows a SYN, a SYN-ACK and an ACK of one flow, plus a frame that is denied.

**MCResponsePath.** Two CPUs, a pool of 3 (so the ring serves 2 and the off-by-one shows), 2 heap skbs for the fallback, 4 sends, and `seq_num` modulo 256. Four sends exhaust the pool and the heap, and two CPUs are enough for both races.

**MCLatencyStats.**

- One CPU or two.
- `TimeMod = 8`.
- `MaxFrames = 2` frames between resets. That allows a frame inside a reset and one after it.
- `MaxLatency = 2` clock ticks per frame. With it the mean cannot wrap on one CPU, so what the one-CPU run shows is not an artefact of the small modulus. On two CPUs the `N - 1 = -1` wrap still happens.

The coverage reports of the passing runs show every disjunct of every next-state relation taken. On one CPU the oops disjunct of `AvgDiv` cannot be taken: `NoDivideByZeroUP` proves this. It is reached only on two CPUs, in the violation run `latency_div_zero`. That run does not check deadlock, because after the oops nothing runs.

### Fairness

Only `ResponsePath` has a liveness property (`SkbEventuallyReleased`). It assumes:

- weak fairness of each CPU's steps after it started a send. The hook runs in softirq context, which runs to completion without sleeping;
- weak fairness of each driver completion, because a NIC eventually completes what `dev_queue_xmit` queued.

Starting sends and unloading the module are the environment's choices and get no fairness.

## Proofs (TLAPS)

`ConnTrackerProofs` proves, for every set of addresses, ports and buckets and every hash function into the buckets:

- `TypeCorrect`: `Spec => []TypeOK`. `TypeOK` includes that the set of records is finite. The proof uses `FS_AddElement` and `FS_Subset` from `FiniteSetTheorems`.
- `WellFormed`: `Spec => []FlowTableWellFormed`. The invariant is not inductive alone, because the refresh and insert steps need the type of the table. The proof uses `IInv == TypeOK /\ FlowTableWellFormed`, with `Init => IInv` and `IInv /\ [Next]_vars => IInv'`. The latter has one case per action, and the two table-changing cases argue on the matched and unmatched key.

- `ActiveBounded`: `Spec => []ActiveBoundedByFlows`. The proof uses `CountInv == IInv /\ ActiveBoundedByFlows`. It needs well-formedness. A refresh replaces the only record of its key, so `RefreshKeepsCount` shows the number of records is unchanged (`FS_RemoveElement`, `FS_AddElement`). An insertion adds a record that no bucket holds, so `InsertAddsOne` shows the count goes up by one. The flush subtracts the whole count, and RESET_STATS sets the gauge to 0.

`PipelineProofs` proves, for every set of frames, user configurations, addresses, ports and bounds:

- `AccountingBounds`: `Spec => []FrameAccountingBounds`.
- `StolenIffCounted`: `Spec => StolenIffProcessed`.
- `TypeCorrect`: `Spec => []TypeOK`. `TypeOK` is inductive as it stands, and the proof has one lemma per kind of step.
  - `CopiedConfigType`: a prefix copy with zeros behind it is a configuration. It goes field by field.
  - `RateLimitType`: the window count stays in `0..Burst`.
  - `HookShape`: a hook records a typed `last` and takes at most one step of the flow table.
  - `CTTypeStep`: the flow table's part is not re-proved. `ConnTrackerProofs` is instantiated with `IPs <- Addr`, and its `TypeStep` is cited. Its instantiated assumptions, a hash into `Buckets` and `MaxCount \in Nat`, follow from `Pipeline`'s `ConstantsAssumption`, which now states the hash's range.
- `ResponsesNeverCounted`: `Spec => []NoResponseCounted`, so `responses_sent` is always 0. The lemma `AppResultNotPositive` shows that `nanonet_process_application_logic` never returns a positive value. Its handler's `1` is replaced by `nanonet_send_response`'s `0` or negative error (packet_processor.c:93). So the hook's `result > 0` branch (nanonet.c:119-121) is dead, whatever the frames and configurations. No run checks this, because the theorem covers every instance.

`AccountingBounds` and `StolenIffCounted` rest on `HookCounts`, which follows `nanonet_hook` through every exit, and through `TransportStage` and `Deliver` below it. Each invocation increments `handled` and takes one of three exits:

- it bumps `packets_bypassed` and returns ACCEPT;
- it bumps `errors` and returns ACCEPT;
- it bumps `packets_processed`, possibly bumps `errors` too, and returns STOLEN.

The inductive invariant is the bounds together with the counters being natural numbers.

For `StolenIffCounted`, `HookStepIsHook` shows that only a hook invocation increments `handled`. RESET_STATS sets it to 0, and the other ioctls leave it alone.

In `LatencyStatsProofs`, the type invariant `TypeOK` is proved inductive (`TypeInit`, `TypeStep`) for every non-empty set of CPUs and every `TimeMod >= 2`, `MaxFrames` and `MaxLatency`. It is a lemma of the theorems below, and no run checks it, because its u64 ranges hold by the modular arithmetic of the model.

For a single CPU (`CPUs = {c0}`), the setting of the `latency_up` run, `LatencyStatsProofs` proves:

- `NoDivideByZeroUP`: `Spec => []NoDivideByZero`.
- `LatencyOrderedUP`: `Spec => LatencyOrdered`.

  Both rest on `UPInv == TypeOK /\ ~crashed /\ FrameInv`. TLC checked `UPInv` as an invariant on the `latency_up` bounds before it was proved, with and without the VIEW (333 128 distinct states without it). `FrameInv` says what a frame in flight has established:
  - from line 123 on, `packets_processed > 0`;
  - from line 128 on, `last_ns = process_time`;
  - after the min compare and store, `min_ns <= process_time`;
  - after the max compare and store, `process_time <= max_ns`.

  One fact keeps these true: with one CPU, `ResetStart` needs the hook idle, and each reset store waits for it to be idle. So nothing zeroes the count or rewrites a scalar while a frame is in flight. The crashing disjunct of `AvgDiv` is then excluded, because at `avg_div` the count is positive. A finishing step changes none of the three scalars, so `FrameInv` at `avg_div` gives `min <= last <= max`. On two CPUs both properties fail: `latency_div_zero` shows the first, and the hazards list the second.

`ResponsePathProofs` proves, for every non-empty set of CPUs, every pool size `PoolSize >= 1`, every heap size, send bound and sequence modulus:

- `TypeCorrect`: `Spec => []TypeOK`.
- `HandsOutOnce`: `Spec => []PoolHandsOutOnce`.
- `RingRefinesPool`: `Spec => ServesPoolMinusOne`. The ring, seen through `avail <- RingContents`, implements `SkbPool` with `Capacity = PoolSize - 1`.

Neither `TypeOK` nor `PoolHandsOutOnce` is inductive. For example, `TypeOK` does not say that a CPU at `raw_send` holds a real skb, and `nanonet_raw_send` needs that to stay well typed. The proofs rest on an inductive invariant `IInv`, which was model-checked with TLC on the `MCResponsePath` bounds (48622 states) before the proof was written. `IInv` is the conjunction of:

- `TypeOK`;
- `RingShape`: `tail` stays 0. While the module is loaded, every slot from `head` up holds its own skb. Every other slot, and after the unload every slot, is NULL;
- `DevHeld`: while loaded, `devrefs >= 1`. This lets `nanonet_exit`'s `dev_put` keep the count in `Nat`;
- `HeldSkbs`: a CPU at `get_dev`, `raw_send`, `free_failed` or `seq_load` holds a real skb;
- `TakenBelowHead` and `HeapTaken`: while loaded, a held pool skb is below `head`, and a held heap skb is no longer in the allocator's supply;
- `HoldersDistinct`: no two CPUs hold the same skb.

There is one lemma per action. `TakePooledIInv` is the heart of the proof: the slot at `head` is cleared and `head` moves up by one, so the new holder sits below the new `head`. No other CPU can hold that skb, because its skb is below the old `head`, a heap skb, or NULL.

`PoolHandsOutOnce` then follows from `IInv`. A non-NULL slot `i` holds `i` and has `i >= head`, and a held pool skb is below `head`.

For the refinement:

- `RingSet` shows that `RingContents` is `head..PoolSize-1` while loaded.
- `OutIsHead` shows that `Out = head`, using `FS_Interval`.
- A pooled take is `Acquire(head)`. The emptiness test `(head + 1) % PoolSize = tail` with `tail = 0` means `head = PoolSize - 1 = Capacity`, so a fallback or failed allocation is `Miss`. The unload is `Drain`, and every other step leaves `pool` and `misses` alone.

Only model-checked:

- `NoDivideByZero` on two CPUs, which `latency_div_zero` shows violated, and `AvgWithinBounds`, which `latency_forgotten_frame` shows violated on one CPU;
- the `Pipeline` properties of the violation runs;
- the `ResponsePath` properties other than the three above;
- `ConnTracker`'s `ActiveNeverNegative`, which TLC shows violated.

`SkbEventuallyReleased` is a liveness property, which TLAPS cannot prove here.

## Not modelled, and why

- **Two SET_CONFIG calls at once, and GET_CONFIG during SET_CONFIG.** `ConfigRace` has one writer. A second writer, or a reader copying the struct back to user space, only adds ways to break `HookJudgesOneConfig`, which one writer already breaks.
- **`debug.c`.** `nanonet_log_error` formats into the shared `last_error` from every CPU without a lock. The text is nothing a property tells apart.
- **Backward steps of the wall clock.** They would wrap `process_time`. `LatencyStats` has a clock that only moves forward, and no property relates a latency to real time.
- **The ingress skb stolen by the hook** (`NF_STOLEN`, nanonet.c 143). It is never freed. No module follows it.
- **The byte-order arithmetic** of the `tot_len` test and of the price. Planned as pure-function modules over bounded words.
- **The parser and checksum.** Reduced to outcomes.
- **The per-CPU ring, `nanonet_parse_packet_optimized` and the CPU affinity helper.** Never called.
- **`/proc` and the user-space tools.** Read-only, or outside the module.

Observed in `tools/nanonet_control.c`, outside the model:

- Its `struct ull_config` has `int` fields for `enabled` and `multicast` and no `seq_num`. The size encoded in its ioctl numbers therefore differs from the module's, so SET_CONFIG and GET_CONFIG from the tool fail with `-ENOTTY`.
- It reads `argv[6]` without checking `argc`.
