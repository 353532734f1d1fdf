---------------------------- MODULE ResponsePath ----------------------------
(***************************************************************************)
(* The send path of src/src/response_sender.c with the skb pool of        *)
(* optimizations.c, run concurrently by the hook on several CPUs.         *)
(*                                                                         *)
(* A CPU that has an order to send runs nanonet_send_response: it takes   *)
(* an skb from the pool under response_pool.lock or falls back to         *)
(* alloc_skb, looks up "eth0" with dev_get_by_name (which takes a device  *)
(* reference), hands the skb to dev_queue_xmit through nanonet_raw_send,  *)
(* frees it again when the result is not NET_XMIT_SUCCESS, and on success *)
(* adds the response length to the shared global_config.seq_num with a    *)
(* plain load and store.  Each of these is a step of its own, because     *)
(* another CPU may run between them.                                      *)
(*                                                                         *)
(* skbs are numbers: 0..PoolSize-1 are the pool's, the next HeapSize are  *)
(* what alloc_skb can return.  users is skb->users: alloc_skb sets it to  *)
(* 1, every kfree_skb and the driver's completion of a queued skb         *)
(* decrement it.  The frame's contents are left out.                      *)
(***************************************************************************)
EXTENDS Integers, FiniteSets

CONSTANTS
  CPUs,       \* the CPUs the hook runs on
  PoolSize,   \* RESPONSE_POOL_SIZE (256 in the code)
  HeapSize,   \* how many fresh skbs alloc_skb can return in a run
  MaxSends,   \* bound on the responses attempted in a run
  SeqMod      \* 2^32 for the __be32 seq_num; smaller in TLC's runs

ASSUME ResponsePathAssumption ==
  /\ CPUs # {}
  /\ PoolSize \in Nat \ {0}
  /\ HeapSize \in Nat
  /\ MaxSends \in Nat
  /\ SeqMod \in Nat \ {0}

(* sizeof(struct trading_order), the only response_len the code sends:   *)
(* symbol 8 + price 4 + quantity 4 + side 1 + timestamp 8 + clOrdId 16.  *)
ResponseLen == 41

NULL == -1
PoolSkbs == 0..(PoolSize - 1)
HeapSkbs == PoolSize..(PoolSize + HeapSize - 1)
Skbs == PoolSkbs \cup HeapSkbs

(* What dev_queue_xmit can return: NET_XMIT_SUCCESS, NET_XMIT_CN (queued  *)
(* under congestion), NET_XMIT_DROP, or a negative errno.                 *)
XmitResults == {"SUCCESS", "CN", "DROP", "ERRNO"}

(* Where each CPU is in nanonet_send_response.                            *)
PCs == {"idle", "get_dev", "raw_send", "free_failed", "seq_load", "seq_store"}

VARIABLES
  pool,       \* response_pool.pool: slot -> skb or NULL
  head,       \* response_pool.head
  tail,       \* response_pool.tail
  users,      \* skb -> skb->users
  fresh,      \* skbs alloc_skb has not returned yet
  inflight,   \* skbs dev_queue_xmit has queued and the driver still owns
  devrefs,    \* references held on the "eth0" net_device
  seq_num,    \* global_config.seq_num
  loaded,     \* the module is loaded and its hook registered
  pc,         \* CPU -> its place in nanonet_send_response
  skb,        \* CPU -> the response_skb it holds, or NULL
  seq_local,  \* CPU -> the seq_num it loaded
  sends,      \* history: responses attempted
  sent,       \* history: responses that returned 0
  misses      \* history: requests that found the pool empty

vars == <<pool, head, tail, users, fresh, inflight, devrefs, seq_num, loaded,
          pc, skb, seq_local, sends, sent, misses>>

(* The skbs in the ring's slots.                                          *)
RingContents == {pool[i] : i \in PoolSkbs} \ {NULL}

-----------------------------------------------------------------------------
(***************************************************************************)
(* The state nanonet_init leaves: every slot holds a fresh skb (a failed  *)
(* allocation fails the module load instead), head = tail = 0, and        *)
(* target_dev holds one reference on "eth0".                              *)
(***************************************************************************)
Init ==
  /\ pool = [i \in PoolSkbs |-> i]
  /\ head = 0
  /\ tail = 0
  /\ users = [s \in Skbs |-> IF s \in PoolSkbs THEN 1 ELSE 0]
  /\ fresh = HeapSkbs
  /\ inflight = {}
  /\ devrefs = 1
  /\ seq_num = 0
  /\ loaded = TRUE
  /\ pc = [c \in CPUs |-> "idle"]
  /\ skb = [c \in CPUs |-> NULL]
  /\ seq_local = [c \in CPUs |-> 0]
  /\ sends = 0
  /\ sent = 0
  /\ misses = 0

(* CPU c moves from label from to label to.                               *)
Goto(c, from, to) ==
  /\ pc[c] = from
  /\ pc' = [pc EXCEPT ![c] = to]

(* Variant: the ring is empty when head has caught up with tail.         *)
PoolEmptyWhenEqual == head = tail

(* The emptiness test of nanonet_get_response_skb (line 149).             *)
PoolEmpty == (head + 1) % PoolSize = tail

(* Variant: the slot is handed out but not cleared.                       *)
TakePooledKeepSlot(c) ==
  /\ ~PoolEmpty
  /\ skb' = [skb EXCEPT ![c] = pool[head]]
  /\ head' = (head + 1) % PoolSize
  /\ UNCHANGED <<pool, users, fresh, misses>>

(***************************************************************************)
(* nanonet_get_response_skb returns the skb at head, clears its slot and  *)
(* advances head, all under response_pool.lock.                           *)
(***************************************************************************)
TakePooled(c) ==
  /\ ~PoolEmpty
  /\ skb' = [skb EXCEPT ![c] = pool[head]]
  /\ pool' = [pool EXCEPT ![head] = NULL]
  /\ head' = (head + 1) % PoolSize
  /\ UNCHANGED <<users, fresh, misses>>

(* The pool is empty and alloc_skb(GFP_ATOMIC) returns a fresh skb.       *)
AllocFallback(c) ==
  /\ PoolEmpty
  /\ misses' = misses + 1
  /\ \E s \in fresh :
       /\ skb' = [skb EXCEPT ![c] = s]
       /\ users' = [users EXCEPT ![s] = 1]
       /\ fresh' = fresh \ {s}
  /\ UNCHANGED <<pool, head>>

(***************************************************************************)
(* A CPU starts nanonet_send_response for a built order.  The config test *)
(* of lines 28-40 may reject it (a zero response address or port, or an   *)
(* unknown protocol: -ENOMEM with nothing allocated); otherwise the skb   *)
(* comes from the pool or from alloc_skb, and when both fail the call     *)
(* returns -ENOMEM.                                                       *)
(***************************************************************************)
StartSend(c) ==
  /\ loaded
  /\ sends < MaxSends
  /\ sends' = sends + 1
  /\ \/ /\ pc[c] = "idle"
        /\ UNCHANGED <<pc, skb, pool, head, users, fresh, misses>>
     \/ /\ Goto(c, "idle", "get_dev")
        /\ TakePooled(c) \/ AllocFallback(c)
     \/ /\ pc[c] = "idle"
        /\ PoolEmpty
        /\ misses' = misses + 1
        /\ UNCHANGED <<pc, skb, pool, head, users, fresh>>
  /\ UNCHANGED <<tail, inflight, devrefs, seq_num, loaded, seq_local, sent>>

(* Variant: the error path returns without kfree_skb(new_skb).          *)
GetDevLeak(c) ==
  \/ /\ Goto(c, "get_dev", "raw_send")
     /\ devrefs' = devrefs + 1
     /\ UNCHANGED <<users, skb>>
  \/ /\ Goto(c, "get_dev", "idle")
     /\ skb' = [skb EXCEPT ![c] = NULL]
     /\ UNCHANGED <<users, devrefs>>

(***************************************************************************)
(* Lines 114-121: dev_get_by_name(&init_net, "eth0") takes a reference on *)
(* the device, which nothing releases; when there is no such device the   *)
(* skb is freed and the call returns -ENOMEM.                             *)
(***************************************************************************)
GetDev(c) ==
  \/ /\ Goto(c, "get_dev", "raw_send")
     /\ devrefs' = devrefs + 1
     /\ UNCHANGED <<users, skb>>
  \/ /\ Goto(c, "get_dev", "idle")
     /\ users' = [users EXCEPT ![skb[c]] = @ - 1]
     /\ skb' = [skb EXCEPT ![c] = NULL]
     /\ UNCHANGED devrefs

(***************************************************************************)
(* nanonet_raw_send: dev_queue_xmit consumes the skb whatever it returns: *)
(* it is queued for the driver (SUCCESS, CN) or dropped and freed (DROP,  *)
(* an errno).  nanonet_send_response then goes on to the seq_num update   *)
(* on NET_XMIT_SUCCESS and to the kfree_skb of line 143 otherwise.        *)
(***************************************************************************)
nanonet_raw_send(c) ==
  \E r \in XmitResults :
    LET s == skb[c] IN
    /\ Goto(c, "raw_send", IF r = "SUCCESS" THEN "seq_load" ELSE "free_failed")
    /\ IF r \in {"SUCCESS", "CN"}
         THEN /\ inflight' = inflight \cup {s}
              /\ UNCHANGED users
         ELSE /\ users' = [users EXCEPT ![s] = @ - 1]
              /\ UNCHANGED inflight

(* Line 143: kfree_skb(response_skb) after a failed transmit; -EIO.       *)
FreeFailed(c) ==
  /\ Goto(c, "free_failed", "idle")
  /\ users' = [users EXCEPT ![skb[c]] = @ - 1]
  /\ skb' = [skb EXCEPT ![c] = NULL]

(* Line 148, config->seq_num += response_len: the load ...                *)
SeqLoad(c) ==
  /\ Goto(c, "seq_load", "seq_store")
  /\ seq_local' = [seq_local EXCEPT ![c] = seq_num]
  /\ skb' = [skb EXCEPT ![c] = NULL]

(* ... and the store, after which the call returns 0.                     *)
SeqStore(c) ==
  /\ Goto(c, "seq_store", "idle")
  /\ seq_num' = (seq_local[c] + ResponseLen) % SeqMod
  /\ sent' = sent + 1

(* The driver completes a queued skb and drops the stack's reference.     *)
TxComplete(s) ==
  /\ s \in inflight
  /\ inflight' = inflight \ {s}
  /\ users' = [users EXCEPT ![s] = @ - 1]
  /\ UNCHANGED <<pool, head, tail, fresh, devrefs, seq_num, loaded, pc, skb,
                 seq_local, sends, sent, misses>>

(* Variant: the device reference of target_dev is dropped twice.         *)
ExitPutTwice ==
  /\ loaded
  /\ \A c \in CPUs : pc[c] = "idle"
  /\ users' = [s \in Skbs |-> IF s \in RingContents THEN users[s] - 1 ELSE users[s]]
  /\ pool' = [i \in PoolSkbs |-> NULL]
  /\ head' = 0
  /\ tail' = 0
  /\ devrefs' = devrefs - 2
  /\ loaded' = FALSE
  /\ UNCHANGED <<fresh, inflight, seq_num, pc, skb, seq_local, sends, sent, misses>>

(***************************************************************************)
(* nanonet_exit once no hook runs (nf_unregister_net_hook waits for them):*)
(* nanonet_cleanup_response_pool frees every non-NULL slot and resets     *)
(* head and tail, and dev_put(target_dev) drops the init reference.       *)
(***************************************************************************)
nanonet_exit ==
  /\ loaded
  /\ \A c \in CPUs : pc[c] = "idle"
  /\ users' = [s \in Skbs |-> IF s \in RingContents THEN users[s] - 1 ELSE users[s]]
  /\ pool' = [i \in PoolSkbs |-> NULL]
  /\ head' = 0
  /\ tail' = 0
  /\ devrefs' = devrefs - 1
  /\ loaded' = FALSE
  /\ UNCHANGED <<fresh, inflight, seq_num, pc, skb, seq_local, sends, sent, misses>>

(* The module is gone and the driver has nothing left: the run is over.   *)
Done ==
  /\ ~loaded
  /\ inflight = {}
  /\ UNCHANGED vars

(* The steps of CPU c after it has started a send.                        *)
CPUStep(c) ==
  \/ GetDev(c) /\ UNCHANGED <<pool, head, tail, fresh, inflight, seq_num, loaded,
                             seq_local, sends, sent, misses>>
  \/ nanonet_raw_send(c) /\ UNCHANGED <<pool, head, tail, fresh, devrefs, seq_num,
                                        loaded, skb, seq_local, sends, sent, misses>>
  \/ FreeFailed(c) /\ UNCHANGED <<pool, head, tail, fresh, inflight, devrefs,
                                  seq_num, loaded, seq_local, sends, sent, misses>>
  \/ SeqLoad(c) /\ UNCHANGED <<pool, head, tail, users, fresh, inflight, devrefs,
                               seq_num, loaded, sends, sent, misses>>
  \/ SeqStore(c) /\ UNCHANGED <<pool, head, tail, users, fresh, inflight, devrefs,
                                loaded, skb, seq_local, sends, misses>>

Next ==
  \/ \E c \in CPUs : StartSend(c) \/ CPUStep(c)
  \/ \E s \in Skbs : TxComplete(s)
  \/ nanonet_exit
  \/ Done

(***************************************************************************)
(* A softirq runs the hook to completion without sleeping, so a CPU that  *)
(* has started a send keeps taking its steps; the driver eventually       *)
(* completes what it queued.  Starting a send and unloading the module    *)
(* are up to the environment and are not fair.                            *)
(***************************************************************************)
Fairness ==
  /\ \A c \in CPUs : WF_vars(CPUStep(c))
  /\ \A s \in Skbs : WF_vars(TxComplete(s))

Spec == Init /\ [][Next]_vars /\ Fairness

-----------------------------------------------------------------------------
(* The type invariant: ring indices stay in range, slots hold skbs or     *)
(* NULL, and the reference count of the eth0 device never goes negative.  *)
TypeOK ==
  /\ pool \in [PoolSkbs -> Skbs \cup {NULL}]
  /\ head \in 0..(PoolSize - 1)
  /\ tail \in 0..(PoolSize - 1)
  /\ users \in [Skbs -> Int]
  /\ fresh \subseteq HeapSkbs
  /\ inflight \subseteq Skbs
  /\ devrefs \in Nat
  /\ seq_num \in 0..(SeqMod - 1)
  /\ loaded \in BOOLEAN
  /\ pc \in [CPUs -> PCs]
  /\ skb \in [CPUs -> Skbs \cup {NULL}]
  /\ seq_local \in [CPUs -> 0..(SeqMod - 1)]
  /\ sends \in 0..MaxSends
  /\ sent \in Nat
  /\ misses \in Nat

(***************************************************************************)
(* No skb of the pool is handed to two holders: no two slots hold the     *)
(* same skb, and an skb a CPU took from the ring is no longer in any      *)
(* slot or held by another CPU.  nanonet_get_response_skb must clear the  *)
(* slot and advance head under the lock, or two sends (or a send and the  *)
(* unload's cleanup) would own one skb.                                   *)
(***************************************************************************)
PoolHandsOutOnce ==
  /\ \A i, j \in PoolSkbs : i # j /\ pool[i] # NULL => pool[i] # pool[j]
  /\ \A c \in CPUs : skb[c] # NULL => skb[c] \notin RingContents
  /\ \A c, d \in CPUs : c # d /\ skb[c] # NULL => skb[c] # skb[d]

(* The ring seen as the abstract pool of SkbPool, serving PoolSize - 1    *)
(* requests before it misses.                                             *)
PoolMinusOne == INSTANCE SkbPool WITH Capacity <- PoolSize - 1, avail <- RingContents

(***************************************************************************)
(* The ring implements a pool that serves its first PoolSize - 1 requests *)
(* with distinct pool skbs and only then starts missing: the emptiness    *)
(* test (head + 1) % RESPONSE_POOL_SIZE == tail with tail fixed at 0.     *)
(***************************************************************************)
ServesPoolMinusOne == PoolMinusOne!Spec

(* An skb that has left the pool or come from alloc_skb and is still     *)
(* referenced.                                                            *)
Taken(s) == users[s] > 0 /\ s \notin RingContents

(***************************************************************************)
(* Every skb taken for a response is eventually released: each exit of    *)
(* nanonet_send_response either frees it or has handed it to              *)
(* dev_queue_xmit, whose driver completes it.                             *)
(***************************************************************************)
SkbEventuallyReleased == \A s \in Skbs : Taken(s) ~> users[s] <= 0

(***************************************************************************)
(* kfree_skb is never called on an skb whose last reference is gone: the  *)
(* reference count of no skb drops below zero.  dev_queue_xmit consumes   *)
(* the skb on every return, and line 143 frees it once more.              *)
(***************************************************************************)
NoSkbUnderflow == \A s \in Skbs : users[s] >= 0

(***************************************************************************)
(* After nanonet_exit no reference on the device is left: every           *)
(* dev_get_by_name of line 114 would need its dev_put.                    *)
(***************************************************************************)
DevRefsReleased == ~loaded => devrefs = 0

=============================================================================
