------------------------ MODULE ResponsePathProofs ------------------------
(***************************************************************************)
(* Proofs about the send path and the response pool of ResponsePath, for  *)
(* every set of CPUs, pool size, heap size, send bound and modulus.       *)
(***************************************************************************)
EXTENDS ResponsePath, FiniteSetTheorems, TLAPS

(* The places in nanonet_send_response where a CPU holds its skb.        *)
Holding == {"get_dev", "raw_send", "free_failed", "seq_load"}

(* The ring as nanonet_get_response_skb leaves it: tail never moves, the  *)
(* slots below head have been handed out and cleared, the others still    *)
(* hold their own skb; after the unload every slot is NULL.               *)
RingShape ==
  /\ tail = 0
  /\ \A i \in PoolSkbs : pool[i] = IF loaded /\ i >= head THEN i ELSE NULL

(* While the module is loaded, target_dev's reference is still counted.  *)
DevHeld == loaded => devrefs >= 1

(* A CPU between taking its skb and dropping it holds a real skb.         *)
HeldSkbs == \A c \in CPUs : pc[c] \in Holding => skb[c] \in Skbs

(* A pool skb a CPU holds came from a slot below head; a heap skb it      *)
(* holds has left the allocator's supply.                                 *)
TakenBelowHead == loaded => \A c \in CPUs : skb[c] \in PoolSkbs => skb[c] < head
HeapTaken == \A c \in CPUs : skb[c] \in HeapSkbs => skb[c] \notin fresh

(* No two CPUs hold the same skb.                                         *)
HoldersDistinct == \A c, d \in CPUs : c # d /\ skb[c] # NULL => skb[c] # skb[d]

(* The inductive invariant behind TypeOK and PoolHandsOutOnce.            *)
IInv ==
  /\ TypeOK
  /\ RingShape
  /\ DevHeld
  /\ HeldSkbs
  /\ TakenBelowHead
  /\ HeapTaken
  /\ HoldersDistinct

(* The skbs of the pool and of the heap are distinct numbers, and NULL is *)
(* neither.                                                               *)
LEMMA SkbRanges ==
  /\ PoolSkbs \cap HeapSkbs = {}
  /\ NULL \notin Skbs
  /\ PoolSkbs \subseteq Nat /\ HeapSkbs \subseteq Nat
BY ResponsePathAssumption DEF NULL, Skbs, PoolSkbs, HeapSkbs

(* Dropping one reference of an skb keeps the counts integers.            *)
LEMMA DecUsersType ==
  ASSUME NEW f \in [Skbs -> Int], NEW x \in Skbs
  PROVE  [f EXCEPT ![x] = @ - 1] \in [Skbs -> Int]
OBVIOUS

(* While the pool is not empty, head can advance without wrapping.        *)
LEMMA HeadAdvances ==
  ASSUME TypeOK, RingShape, ~PoolEmpty
  PROVE  /\ head + 1 \in 0..(PoolSize - 1)
         /\ (head + 1) % PoolSize = head + 1
BY ResponsePathAssumption DEF TypeOK, RingShape, PoolEmpty

LEMMA InitIInv == Init => IInv
<1> SUFFICES ASSUME Init PROVE IInv
  OBVIOUS
<1>1. TypeOK
  BY ResponsePathAssumption DEF Init, TypeOK, Skbs, PoolSkbs, HeapSkbs, PCs, NULL
<1>2. RingShape
  BY DEF Init, RingShape, PoolSkbs
<1>3. DevHeld /\ HeldSkbs
  BY DEF Init, DevHeld, HeldSkbs, Holding
<1>4. \A c \in CPUs : skb[c] = NULL
  BY DEF Init
<1>5. TakenBelowHead /\ HeapTaken /\ HoldersDistinct
  BY <1>4, SkbRanges DEF TakenBelowHead, HeapTaken, HoldersDistinct, Skbs
<1>6. QED
  BY <1>1, <1>2, <1>3, <1>5 DEF IInv

(***************************************************************************)
(* A send served from the ring: the slot at head is handed to c and head  *)
(* moves up by one, so c's skb sits below the new head and in no slot.    *)
(***************************************************************************)
LEMMA TakePooledIInv ==
  ASSUME IInv, NEW c \in CPUs, loaded, sends < MaxSends, sends' = sends + 1,
         Goto(c, "idle", "get_dev"), TakePooled(c),
         UNCHANGED <<tail, inflight, devrefs, seq_num, loaded, seq_local, sent>>
  PROVE  IInv'
<1> USE ResponsePathAssumption
<1>1. /\ head + 1 \in 0..(PoolSize - 1)
      /\ head' = head + 1
  BY HeadAdvances DEF IInv, TakePooled
<1>0. head \in 0..(PoolSize - 1)
  BY DEF IInv, TypeOK
<1>2. pool[head] = head /\ head \in PoolSkbs
  BY DEF IInv, TypeOK, RingShape, PoolSkbs
<1>3. skb' = [skb EXCEPT ![c] = head]
  BY <1>2 DEF TakePooled
<1>4. TypeOK'
  BY <1>1, <1>2, <1>3 DEF IInv, TypeOK, TakePooled, Goto, PCs, Skbs
<1>5. RingShape'
  <2>1. tail' = 0
    BY DEF IInv, RingShape
  <2>2. ASSUME NEW i \in PoolSkbs
        PROVE  pool'[i] = IF loaded' /\ i >= head' THEN i ELSE NULL
    <3>1. CASE i = head
      <4>1. pool'[i] = NULL
        BY <3>1 DEF TakePooled, IInv, TypeOK
      <4>2. ~(i >= head')
        BY <3>1, <1>0, <1>1
      <4>3. QED
        BY <4>1, <4>2
    <3>2. CASE i # head
      <4>1. pool'[i] = pool[i]
        BY <3>2 DEF TakePooled
      <4>2. pool[i] = IF loaded /\ i >= head THEN i ELSE NULL
        BY DEF IInv, RingShape
      <4>3. (i >= head) <=> (i >= head + 1)
        BY <3>2, <1>0 DEF PoolSkbs
      <4>4. QED
        BY <1>1, <4>1, <4>2, <4>3
    <3>3. QED
      BY <3>1, <3>2
  <2>3. QED
    BY <2>1, <2>2 DEF RingShape
<1>6. ASSUME NEW d \in CPUs, d # c PROVE skb[d] # head
  <2>1. skb[d] \in PoolSkbs \/ skb[d] \in HeapSkbs \/ skb[d] = NULL
    BY DEF IInv, TypeOK, Skbs
  <2>2. CASE skb[d] \in PoolSkbs
    BY <2>2, <1>0, SkbRanges DEF IInv, TakenBelowHead
  <2>3. CASE skb[d] \in HeapSkbs
    BY <2>3, <1>2, SkbRanges
  <2>4. CASE skb[d] = NULL
    BY <2>4, <1>2, SkbRanges DEF Skbs
  <2>5. QED
    BY <2>1, <2>2, <2>3, <2>4
<1>7. DevHeld' /\ HeldSkbs'
  BY <1>2, <1>3 DEF IInv, TypeOK, DevHeld, HeldSkbs, TakePooled, Goto, Skbs
<1>8. TakenBelowHead'
  <2>1. SUFFICES ASSUME NEW d \in CPUs, skb'[d] \in PoolSkbs PROVE skb'[d] < head'
    BY DEF TakenBelowHead
  <2>2. CASE d = c
    <3>1. skb'[c] = head
      BY <1>3 DEF IInv, TypeOK
    <3>2. QED
      BY <2>2, <3>1, <1>0, <1>1
  <2>3. CASE d # c
    <3>1. skb'[d] = skb[d]
      BY <2>3, <1>3
    <3>2. skb[d] < head
      BY <2>1, <3>1 DEF IInv, TakenBelowHead
    <3>3. QED
      BY <3>1, <3>2, <1>0, <1>1, <2>1 DEF PoolSkbs
  <2>4. QED
    BY <2>2, <2>3
<1>11. HeapTaken'
  <2>1. head \notin HeapSkbs
    BY <1>2, SkbRanges
  <2>2. QED
    BY <2>1, <1>3 DEF IInv, TypeOK, HeapTaken, TakePooled
<1>9. HoldersDistinct'
  BY <1>3, <1>6 DEF IInv, TypeOK, HoldersDistinct
<1>10. QED
  BY <1>4, <1>5, <1>7, <1>8, <1>9, <1>11 DEF IInv

(***************************************************************************)
(* A send served by alloc_skb: c gets a fresh heap skb, which leaves the  *)
(* supply, so no other CPU can hold it.                                   *)
(***************************************************************************)
LEMMA AllocFallbackIInv ==
  ASSUME IInv, NEW c \in CPUs, loaded, sends < MaxSends, sends' = sends + 1,
         Goto(c, "idle", "get_dev"), AllocFallback(c),
         UNCHANGED <<tail, inflight, devrefs, seq_num, loaded, seq_local, sent>>
  PROVE  IInv'
<1> USE ResponsePathAssumption
<1>1. PICK s \in fresh : /\ skb' = [skb EXCEPT ![c] = s]
                          /\ users' = [users EXCEPT ![s] = 1]
                          /\ fresh' = fresh \ {s}
  BY DEF AllocFallback
<1>2. s \in HeapSkbs /\ s \in Skbs /\ s \notin PoolSkbs
  BY SkbRanges DEF IInv, TypeOK, Skbs
<1>3. TypeOK'
  BY <1>1, <1>2 DEF IInv, TypeOK, AllocFallback, Goto, PCs
<1>4. RingShape' /\ DevHeld' /\ HeldSkbs'
  BY <1>1, <1>2 DEF IInv, TypeOK, RingShape, DevHeld, HeldSkbs, AllocFallback, Goto
<1>5. \A d \in CPUs : d # c => skb[d] # s
  BY <1>2 DEF IInv, TypeOK, HeapTaken
<1>6. TakenBelowHead' /\ HeapTaken'
  BY <1>1, <1>2 DEF IInv, TypeOK, TakenBelowHead, HeapTaken, AllocFallback
<1>7. HoldersDistinct'
  BY <1>1, <1>5 DEF IInv, TypeOK, HoldersDistinct
<1>8. QED
  BY <1>3, <1>4, <1>6, <1>7 DEF IInv

(***************************************************************************)
(* A step that lets CPU c drop its skb (kfree_skb, or the hand-off to     *)
(* seq_num's update) leaves no holder twice and no holder below a moved   *)
(* head, since NULL is neither a pool nor a heap skb.                     *)
(***************************************************************************)
LEMMA DropSkb ==
  ASSUME IInv, NEW c \in CPUs, skb' = [skb EXCEPT ![c] = NULL],
         UNCHANGED <<head, fresh, loaded>>
  PROVE  /\ skb' \in [CPUs -> Skbs \cup {NULL}]
         /\ TakenBelowHead'
         /\ HeapTaken'
         /\ HoldersDistinct'
<1>1. skb' \in [CPUs -> Skbs \cup {NULL}]
  BY DEF IInv, TypeOK
<1>2. \A d \in CPUs : skb'[d] = skb[d] \/ skb'[d] = NULL
  BY DEF IInv, TypeOK
<1>3. TakenBelowHead' /\ HeapTaken'
  BY <1>2, SkbRanges DEF IInv, TakenBelowHead, HeapTaken, Skbs
<1>4. HoldersDistinct'
  <2>1. SUFFICES ASSUME NEW d \in CPUs, NEW e \in CPUs, d # e, skb'[d] # NULL
                 PROVE  skb'[d] # skb'[e]
    BY DEF HoldersDistinct
  <2>2. skb'[d] = skb[d] /\ d # c
    BY <2>1 DEF IInv, TypeOK
  <2>3. CASE e = c
    BY <2>1, <2>2, <2>3 DEF IInv, TypeOK
  <2>4. CASE e # c
    BY <2>1, <2>2, <2>4 DEF IInv, TypeOK, HoldersDistinct
  <2>5. QED
    BY <2>3, <2>4
<1>5. QED
  BY <1>1, <1>3, <1>4

(* The start of a send in each of its outcomes.                           *)
LEMMA StartSendIInv ==
  ASSUME IInv, NEW c \in CPUs, StartSend(c)
  PROVE  IInv'
<1> USE ResponsePathAssumption
<1>1. sends' \in 0..MaxSends
  BY DEF IInv, TypeOK, StartSend
<1>2. CASE /\ pc[c] = "idle"
           /\ UNCHANGED <<pc, skb, pool, head, users, fresh, misses>>
  BY <1>1, <1>2 DEF StartSend, IInv, TypeOK, RingShape, DevHeld, HeldSkbs,
                    TakenBelowHead, HeapTaken, HoldersDistinct
<1>3. CASE Goto(c, "idle", "get_dev") /\ TakePooled(c)
  BY <1>3, TakePooledIInv DEF StartSend
<1>4. CASE Goto(c, "idle", "get_dev") /\ AllocFallback(c)
  BY <1>4, AllocFallbackIInv DEF StartSend
<1>5. CASE /\ pc[c] = "idle"
           /\ PoolEmpty
           /\ misses' = misses + 1
           /\ UNCHANGED <<pc, skb, pool, head, users, fresh>>
  BY <1>1, <1>5 DEF StartSend, IInv, TypeOK, RingShape, DevHeld, HeldSkbs,
                    TakenBelowHead, HeapTaken, HoldersDistinct
<1>6. QED
  BY <1>2, <1>3, <1>4, <1>5 DEF StartSend

(* dev_get_by_name: a reference is taken, or the skb is freed.            *)
LEMMA GetDevIInv ==
  ASSUME IInv, NEW c \in CPUs, GetDev(c),
         UNCHANGED <<pool, head, tail, fresh, inflight, seq_num, loaded,
                     seq_local, sends, sent, misses>>
  PROVE  IInv'
<1>1. skb[c] \in Skbs
  BY DEF GetDev, Goto, IInv, HeldSkbs, Holding
<1>2. CASE /\ Goto(c, "get_dev", "raw_send")
           /\ devrefs' = devrefs + 1
           /\ UNCHANGED <<users, skb>>
  BY <1>2 DEF IInv, TypeOK, PCs, Goto, RingShape, DevHeld, HeldSkbs, Holding,
              TakenBelowHead, HeapTaken, HoldersDistinct
<1>3. CASE /\ Goto(c, "get_dev", "idle")
           /\ users' = [users EXCEPT ![skb[c]] = @ - 1]
           /\ skb' = [skb EXCEPT ![c] = NULL]
           /\ UNCHANGED devrefs
  <2>1. /\ skb' \in [CPUs -> Skbs \cup {NULL}]
        /\ TakenBelowHead' /\ HeapTaken' /\ HoldersDistinct'
    BY <1>3, DropSkb
  <2>2. users' \in [Skbs -> Int]
    BY <1>1, <1>3, DecUsersType DEF IInv, TypeOK
  <2>3. TypeOK'
    BY <1>3, <2>1, <2>2 DEF IInv, TypeOK, Goto, PCs
  <2>4. RingShape' /\ DevHeld' /\ HeldSkbs'
    BY <1>3 DEF IInv, TypeOK, Goto, RingShape, DevHeld, HeldSkbs, Holding
  <2>5. QED
    BY <2>1, <2>3, <2>4 DEF IInv
<1>4. QED
  BY <1>2, <1>3 DEF GetDev

(* dev_queue_xmit takes the skb, for the driver or to free it.            *)
LEMMA RawSendIInv ==
  ASSUME IInv, NEW c \in CPUs, nanonet_raw_send(c),
         UNCHANGED <<pool, head, tail, fresh, devrefs, seq_num,
                     loaded, skb, seq_local, sends, sent, misses>>
  PROVE  IInv'
<1>1. PICK r \in XmitResults :
        /\ Goto(c, "raw_send", IF r = "SUCCESS" THEN "seq_load" ELSE "free_failed")
        /\ IF r \in {"SUCCESS", "CN"}
             THEN /\ inflight' = inflight \cup {skb[c]}
                  /\ UNCHANGED users
             ELSE /\ users' = [users EXCEPT ![skb[c]] = @ - 1]
                  /\ UNCHANGED inflight
  BY DEF nanonet_raw_send
<1>2. skb[c] \in Skbs
  BY <1>1 DEF Goto, IInv, HeldSkbs, Holding
<1>3. pc' \in [CPUs -> PCs] /\ \A d \in CPUs : pc'[d] \in Holding \/ pc'[d] = pc[d]
  BY <1>1 DEF Goto, IInv, TypeOK, PCs, Holding
<1>4. users' \in [Skbs -> Int] /\ inflight' \subseteq Skbs
  <2>1. CASE r \in {"SUCCESS", "CN"}
    BY <1>1, <1>2, <2>1 DEF IInv, TypeOK
  <2>2. CASE r \notin {"SUCCESS", "CN"}
    BY <1>1, <1>2, <2>2, DecUsersType DEF IInv, TypeOK
  <2>3. QED
    BY <2>1, <2>2
<1>5. TypeOK'
  BY <1>3, <1>4 DEF IInv, TypeOK
<1>6. HeldSkbs'
  <2>1. \A d \in CPUs : d # c => pc'[d] = pc[d]
    BY <1>1 DEF Goto, IInv, TypeOK
  <2>2. QED
    BY <1>2, <2>1 DEF IInv, HeldSkbs
<1>7. QED
  BY <1>5, <1>6 DEF IInv, RingShape, DevHeld, TakenBelowHead, HeapTaken,
                    HoldersDistinct

(* kfree_skb after a failed transmit.                                     *)
LEMMA FreeFailedIInv ==
  ASSUME IInv, NEW c \in CPUs, FreeFailed(c),
         UNCHANGED <<pool, head, tail, fresh, inflight, devrefs,
                     seq_num, loaded, seq_local, sends, sent, misses>>
  PROVE  IInv'
<1>1. skb[c] \in Skbs
  BY DEF FreeFailed, Goto, IInv, HeldSkbs, Holding
<1>2. /\ skb' \in [CPUs -> Skbs \cup {NULL}]
      /\ TakenBelowHead' /\ HeapTaken' /\ HoldersDistinct'
  BY DropSkb DEF FreeFailed
<1>3. users' \in [Skbs -> Int]
  BY <1>1, DecUsersType DEF FreeFailed, IInv, TypeOK
<1>4. TypeOK'
  BY <1>2, <1>3 DEF FreeFailed, IInv, TypeOK, Goto, PCs
<1>5. RingShape' /\ DevHeld' /\ HeldSkbs'
  BY DEF FreeFailed, IInv, TypeOK, Goto, RingShape, DevHeld, HeldSkbs, Holding
<1>6. QED
  BY <1>2, <1>4, <1>5 DEF IInv

(* The load of seq_num, after which the skb is the driver's alone.        *)
LEMMA SeqLoadIInv ==
  ASSUME IInv, NEW c \in CPUs, SeqLoad(c),
         UNCHANGED <<pool, head, tail, users, fresh, inflight, devrefs,
                     seq_num, loaded, sends, sent, misses>>
  PROVE  IInv'
<1>1. /\ skb' \in [CPUs -> Skbs \cup {NULL}]
      /\ TakenBelowHead' /\ HeapTaken' /\ HoldersDistinct'
  BY DropSkb DEF SeqLoad
<1>2. TypeOK'
  BY <1>1 DEF SeqLoad, IInv, TypeOK, Goto, PCs
<1>3. RingShape' /\ DevHeld' /\ HeldSkbs'
  BY DEF SeqLoad, IInv, TypeOK, Goto, RingShape, DevHeld, HeldSkbs, Holding
<1>4. QED
  BY <1>1, <1>2, <1>3 DEF IInv

(* The store of seq_num.                                                  *)
LEMMA SeqStoreIInv ==
  ASSUME IInv, NEW c \in CPUs, SeqStore(c),
         UNCHANGED <<pool, head, tail, users, fresh, inflight, devrefs,
                     loaded, skb, seq_local, sends, misses>>
  PROVE  IInv'
<1> USE ResponsePathAssumption
<1>1. TypeOK'
  BY DEF SeqStore, IInv, TypeOK, Goto, PCs, ResponseLen
<1>2. HeldSkbs'
  BY DEF SeqStore, IInv, TypeOK, Goto, HeldSkbs, Holding
<1>3. QED
  BY <1>1, <1>2 DEF IInv, RingShape, DevHeld, TakenBelowHead, HeapTaken,
                    HoldersDistinct

(* The driver's completion of a queued skb.                               *)
LEMMA TxCompleteIInv ==
  ASSUME IInv, NEW s \in Skbs, TxComplete(s)
  PROVE  IInv'
<1>1. users' \in [Skbs -> Int]
  BY DecUsersType DEF TxComplete, IInv, TypeOK
<1>2. TypeOK'
  BY <1>1 DEF TxComplete, IInv, TypeOK
<1>3. QED
  BY <1>2 DEF TxComplete, IInv, RingShape, DevHeld, HeldSkbs, TakenBelowHead,
              HeapTaken, HoldersDistinct

(* nanonet_exit: the ring is emptied and the init reference dropped.      *)
LEMMA ExitIInv ==
  ASSUME IInv, nanonet_exit
  PROVE  IInv'
<1> USE ResponsePathAssumption
<1>1. devrefs - 1 \in Nat
  BY DEF nanonet_exit, IInv, TypeOK, DevHeld
<1>2. users' \in [Skbs -> Int]
  BY DEF nanonet_exit, IInv, TypeOK
<1>3. pool' \in [PoolSkbs -> Skbs \cup {NULL}] /\ head' \in 0..(PoolSize - 1)
  BY DEF nanonet_exit, NULL
<1>4. TypeOK'
  BY <1>1, <1>2, <1>3 DEF nanonet_exit, IInv, TypeOK
<1>5. RingShape'
  BY DEF nanonet_exit, RingShape
<1>6. HeldSkbs'
  BY DEF nanonet_exit, IInv, HeldSkbs, Holding
<1>7. QED
  BY <1>4, <1>5, <1>6 DEF nanonet_exit, IInv, DevHeld, TakenBelowHead,
                          HeapTaken, HoldersDistinct

(* Every step of the send path, the driver and the unload keeps IInv.     *)
LEMMA StepIInv == IInv /\ [Next]_vars => IInv'
<1> SUFFICES ASSUME IInv, [Next]_vars PROVE IInv'
  OBVIOUS
<1>1. ASSUME NEW c \in CPUs, StartSend(c) PROVE IInv'
  BY <1>1, StartSendIInv
<1>2. ASSUME NEW c \in CPUs, CPUStep(c) PROVE IInv'
  BY <1>2, GetDevIInv, RawSendIInv, FreeFailedIInv, SeqLoadIInv, SeqStoreIInv
  DEF CPUStep
<1>3. ASSUME NEW s \in Skbs, TxComplete(s) PROVE IInv'
  BY <1>3, TxCompleteIInv
<1>4. CASE nanonet_exit
  BY <1>4, ExitIInv
<1>5. CASE Done \/ UNCHANGED vars
  BY <1>5 DEF Done, vars, IInv, TypeOK, RingShape, DevHeld, HeldSkbs,
              TakenBelowHead, HeapTaken, HoldersDistinct
<1>6. QED
  BY <1>1, <1>2, <1>3, <1>4, <1>5 DEF Next

(* The ring as IInv describes it hands no pool skb out twice.             *)
LEMMA IInvHandsOutOnce == IInv => PoolHandsOutOnce
<1> SUFFICES ASSUME IInv PROVE PoolHandsOutOnce
  OBVIOUS
<1>1. \A i \in PoolSkbs : pool[i] # NULL => pool[i] = i /\ loaded /\ i >= head
  BY DEF IInv, RingShape
<1>2. \A i, j \in PoolSkbs : i # j /\ pool[i] # NULL => pool[i] # pool[j]
  BY <1>1, SkbRanges DEF NULL
<1>3. ASSUME NEW c \in CPUs, skb[c] # NULL PROVE skb[c] \notin RingContents
  <2>1. SUFFICES ASSUME NEW i \in PoolSkbs, pool[i] # NULL, skb[c] = pool[i]
                 PROVE  FALSE
    BY DEF RingContents
  <2>2. skb[c] = i /\ loaded /\ i >= head
    BY <1>1, <2>1
  <2>3. skb[c] < head
    BY <2>2 DEF IInv, TakenBelowHead
  <2>4. QED
    BY <2>1, <2>2, <2>3 DEF IInv, TypeOK, PoolSkbs
<1>4. QED
  BY <1>2, <1>3 DEF PoolHandsOutOnce, IInv, HoldersDistinct

(* nanonet_send_response, the driver and nanonet_exit keep every ring     *)
(* index in range, every reference count an integer and target_dev's      *)
(* reference count a natural number: IInv holds from Init and every step  *)
(* keeps it.                                                              *)
THEOREM TypeCorrect == Spec => []TypeOK
<1>1. Init => IInv
  BY InitIInv
<1>2. IInv /\ [Next]_vars => IInv'
  BY StepIInv
<1>3. IInv => TypeOK
  BY DEF IInv
<1>4. QED
  BY <1>1, <1>2, <1>3, PTL DEF Spec

(* nanonet_get_response_skb, which clears the slot and advances head      *)
(* under response_pool.lock, never lets two slots, two CPUs, or a CPU and *)
(* a slot own the same pool skb, for every pool size and CPU count.       *)
THEOREM HandsOutOnce == Spec => []PoolHandsOutOnce
<1>1. Init => IInv
  BY InitIInv
<1>2. IInv /\ [Next]_vars => IInv'
  BY StepIInv
<1>3. IInv => PoolHandsOutOnce
  BY IInvHandsOutOnce
<1>4. QED
  BY <1>1, <1>2, <1>3, PTL DEF Spec

-----------------------------------------------------------------------------
(* While the module is loaded the ring holds exactly the slots from head  *)
(* up, each its own skb; after the unload it holds nothing.               *)
LEMMA RingSet ==
  ASSUME IInv
  PROVE  RingContents = IF loaded THEN head..(PoolSize - 1) ELSE {}
BY SkbRanges DEF IInv, TypeOK, RingShape, RingContents, PoolSkbs, NULL

(* While loaded, the skbs gone from the ring are those below head.        *)
LEMMA OutIsHead ==
  ASSUME IInv, loaded
  PROVE  PoolMinusOne!Out = head
<1> USE ResponsePathAssumption
<1>1. head \in 0..(PoolSize - 1)
  BY DEF IInv, TypeOK
<1>2. PoolSkbs \ RingContents = 0..(head - 1)
  BY <1>1, RingSet DEF PoolSkbs
<1>3. Cardinality(0..(head - 1)) = head
  BY <1>1, FS_Interval
<1>4. PoolMinusOne!Out = Cardinality(PoolSkbs \ RingContents)
  BY DEF PoolMinusOne!Out, PoolMinusOne!Cardinality, Cardinality
<1>5. QED
  BY <1>2, <1>3, <1>4

(* A step of the ring seen through RingContents is a step of SkbPool.     *)
LEMMA StepRefines ==
  ASSUME IInv, IInv', [Next]_vars
  PROVE  [PoolMinusOne!Next]_PoolMinusOne!vars
<1> USE ResponsePathAssumption
<1>0. head \in 0..(PoolSize - 1)
  BY DEF IInv, TypeOK
<1>1. ASSUME NEW c \in CPUs, StartSend(c) PROVE [PoolMinusOne!Next]_PoolMinusOne!vars
  <2>1. CASE UNCHANGED <<pool, misses>>
    BY <2>1 DEF PoolMinusOne!vars, RingContents
  <2>2. CASE TakePooled(c)
    <3>1. head + 1 \in 0..(PoolSize - 1) /\ head' = head + 1
      BY <1>1, <2>2, HeadAdvances DEF IInv, TakePooled
    <3>2. RingContents = head..(PoolSize - 1) /\ RingContents' = (head + 1)..(PoolSize - 1)
      <4>1. RingContents = head..(PoolSize - 1)
        BY <1>1, RingSet DEF StartSend
      <4>2. loaded' /\ RingContents' = IF loaded' THEN head'..(PoolSize - 1) ELSE {}
        BY <1>1, SkbRanges DEF StartSend, IInv, TypeOK, RingShape, RingContents,
                               PoolSkbs, NULL
      <4>3. QED
        BY <3>1, <4>1, <4>2
    <3>3. PoolMinusOne!Out = head
      BY <1>1, OutIsHead DEF StartSend
    <3>4. PoolMinusOne!Acquire(head)
      BY <1>0, <2>2, <3>1, <3>2, <3>3 DEF PoolMinusOne!Acquire, TakePooled
    <3>5. head \in RingContents
      BY <1>0, <3>2
    <3>6. QED
      BY <3>4, <3>5 DEF PoolMinusOne!Next
  <2>3. CASE PoolEmpty /\ misses' = misses + 1 /\ UNCHANGED pool
    <3>1. head = PoolSize - 1
      BY <1>0, <2>3 DEF PoolEmpty, IInv, RingShape
    <3>2. PoolMinusOne!Out = head
      BY <1>1, OutIsHead DEF StartSend
    <3>3. PoolMinusOne!Miss
      BY <2>3, <3>1, <3>2 DEF PoolMinusOne!Miss, RingContents
    <3>4. QED
      BY <3>3 DEF PoolMinusOne!Next
  <2>4. QED
    BY <1>1, <2>1, <2>2, <2>3 DEF StartSend, AllocFallback
<1>2. ASSUME NEW c \in CPUs, CPUStep(c) PROVE UNCHANGED PoolMinusOne!vars
  BY <1>2 DEF CPUStep, PoolMinusOne!vars, RingContents
<1>3. ASSUME NEW s \in Skbs, TxComplete(s) PROVE UNCHANGED PoolMinusOne!vars
  BY <1>3 DEF TxComplete, PoolMinusOne!vars, RingContents
<1>4. CASE nanonet_exit
  <2>1. RingContents' = {}
    BY <1>4 DEF nanonet_exit, RingContents
  <2>2. QED
    BY <1>4, <2>1 DEF nanonet_exit, PoolMinusOne!Drain, PoolMinusOne!Next
<1>5. CASE Done \/ UNCHANGED vars
  BY <1>5 DEF Done, vars, PoolMinusOne!vars, RingContents
<1>6. QED
  BY <1>1, <1>2, <1>3, <1>4, <1>5 DEF Next

(* The ring of nanonet_get_response_skb implements the abstract pool of   *)
(* SkbPool with capacity RESPONSE_POOL_SIZE - 1: it serves distinct skbs  *)
(* while fewer than that many are out, misses only after, and the unload  *)
(* drains it, for every pool size and CPU count.                          *)
THEOREM RingRefinesPool == Spec => ServesPoolMinusOne
<1>1. Init => PoolMinusOne!Init
  BY DEF Init, PoolMinusOne!Init, RingContents, PoolSkbs, NULL
<1>2. IInv /\ IInv' /\ [Next]_vars => [PoolMinusOne!Next]_PoolMinusOne!vars
  BY StepRefines
<1>3. QED
  BY <1>1, <1>2, InitIInv, StepIInv, PTL DEF Spec, ServesPoolMinusOne, PoolMinusOne!Spec

=============================================================================
