------------------------------ MODULE SkbPool ------------------------------
(***************************************************************************)
(* What the response pool of src/src/optimizations.c promises its caller, *)
(* nanonet_create_response_packet: a set of preallocated skbs handed out  *)
(* one at a time, each at most once, until Capacity of them are gone;     *)
(* after that every request misses and the caller falls back to           *)
(* alloc_skb.  Module unload frees what is left.                          *)
(***************************************************************************)
EXTENDS Integers, FiniteSets

CONSTANTS
  PoolSkbs,   \* the skbs allocated by nanonet_init_response_pool
  Capacity    \* how many of them requests are served before misses start

VARIABLES
  avail,      \* the skbs still in the pool
  misses      \* the requests answered with no skb

vars == <<avail, misses>>

(* How many skbs have left the pool.                                      *)
Out == Cardinality(PoolSkbs \ avail)

Init ==
  /\ avail = PoolSkbs
  /\ misses = 0

(* A request served with skb x, which leaves the pool for good.           *)
Acquire(x) ==
  /\ x \in avail
  /\ Out < Capacity
  /\ avail' = avail \ {x}
  /\ UNCHANGED misses

(* A request that finds the pool exhausted.                               *)
Miss ==
  /\ Out >= Capacity \/ avail = {}
  /\ misses' = misses + 1
  /\ UNCHANGED avail

(* The pool is torn down and its remaining skbs freed.                    *)
Drain ==
  /\ avail' = {}
  /\ UNCHANGED misses

Next ==
  \/ \E x \in avail : Acquire(x)
  \/ Miss
  \/ Drain

Spec == Init /\ [][Next]_vars

=============================================================================
