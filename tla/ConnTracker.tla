---------------------------- MODULE ConnTracker ----------------------------
(***************************************************************************)
(* The TCP flow table of src/src/security.c: connection_hash, a table of   *)
(* CONN_HASH_SIZE buckets of struct ull_tcp_conn records guarded by the    *)
(* single spinlock conn_hash_lock, and the two gauges of global_stats it   *)
(* maintains (connections_active, connections_dropped).                    *)
(*                                                                         *)
(* Every operation on the table runs with conn_hash_lock held from its     *)
(* first read to its last write, so each is one atomic step here.  The     *)
(* RESET_STATS ioctl of control_interface.c writes the two gauges without  *)
(* taking the lock; it is the third action.                                *)
(*                                                                         *)
(* A bucket is a set of records: hlist_add_head orders a chain, but the    *)
(* lookup stops at the only record of its key (FlowTableWellFormed), so    *)
(* the order is not observable.  seq_num, ack_num and last_seen are        *)
(* written by the code and never read anywhere in the repository; they are *)
(* left out.                                                               *)
(***************************************************************************)
EXTENDS Integers, FiniteSets

CONSTANTS
  IPs,        \* IPv4 addresses carried by segments (model values)
  Ports,      \* TCP port numbers (model values)
  Buckets,    \* indices 0 .. CONN_HASH_SIZE-1 of connection_hash
  Hash(_),    \* jhash_3words(saddr, daddr, sport << 16 | dport) % CONN_HASH_SIZE
  MaxCount    \* bound on connections_dropped, so that TLC's runs are finite

(* The 4-tuple a flow is keyed by, in network byte order as in the code.  *)
Key == [src_ip : IPs, dst_ip : IPs, src_port : Ports, dst_port : Ports]

(* The values of ull_tcp_conn.state the code assigns.                     *)
SynSent     == 1
Established == 2

Conn == [key : Key, state : {SynSent, Established}]

(* What nanonet_track_tcp_connection returns: 0, -ENOMEM or -EINVAL.      *)
TrackResults == {"ok", "ENOMEM", "EINVAL"}

ASSUME HashAssumption == \A k \in Key : Hash(k) \in Buckets
ASSUME MaxCountAssumption == MaxCount \in Nat

VARIABLES
  connection_hash,      \* bucket -> set of records chained in it
  connections_active,   \* atomic64 global_stats.connections_active
  connections_dropped   \* atomic64 global_stats.connections_dropped

vars == <<connection_hash, connections_active, connections_dropped>>

(* Every record in the table, and how many there are.                     *)
Flows == UNION {connection_hash[b] : b \in Buckets}
FlowCount == Cardinality(Flows)

(* The records the bucket walk of lines 28-30 matches for key k.          *)
Lookup(k) == {c \in connection_hash[Hash(k)] : c.key = k}

PureSyn(syn, ack) == syn /\ ~ack

(* Variant: a segment with neither SYN nor ACK pattern resets the state  *)
(* to 0 instead of leaving it alone.                                      *)
SegmentStateResetOther(st, syn, ack) ==
  CASE syn /\ ~ack -> SynSent
    [] syn /\ ack  -> Established
    [] OTHER       -> 0

(* The state a matched record is left in by a segment (lines 33-39).      *)
SegmentState(st, syn, ack) ==
  CASE syn /\ ~ack -> SynSent
    [] syn /\ ack  -> Established
    [] OTHER       -> st

(***************************************************************************)
(* The static table starts empty; the gauges are zero as static storage.  *)
(***************************************************************************)
Init ==
  /\ connection_hash = [b \in Buckets |-> {}]
  /\ connections_active = 0
  /\ connections_dropped = 0

(***************************************************************************)
(* The record of key k found by the bucket walk is refreshed by a segment *)
(* with flags syn and ack (lines 28-42).                                  *)
(***************************************************************************)
RefreshFlow(k, syn, ack) ==
  LET b == Hash(k)
      c == CHOOSE x \in Lookup(k) : TRUE
  IN  /\ connection_hash' =
           [connection_hash EXCEPT ![b] =
              (@ \ {c}) \cup {[key |-> k, state |-> SegmentState(c.state, syn, ack)]}]
      /\ UNCHANGED <<connections_active, connections_dropped>>

(* Variant: the new record is linked in the bucket of the reversed tuple. *)
InsertFlowSwappedHash(k) ==
  LET r == [src_ip |-> k.dst_ip, dst_ip |-> k.src_ip,
            src_port |-> k.dst_port, dst_port |-> k.src_port]
  IN  /\ connection_hash' =
           [connection_hash EXCEPT ![Hash(r)] = @ \cup {[key |-> k, state |-> SynSent]}]
      /\ connections_active' = connections_active + 1
      /\ UNCHANGED connections_dropped

(***************************************************************************)
(* A new record for key k in state Syn-Sent is linked at the head of its  *)
(* bucket and counted active (lines 51-60).                               *)
(***************************************************************************)
InsertFlow(k) ==
  /\ connection_hash' =
       [connection_hash EXCEPT ![Hash(k)] = @ \cup {[key |-> k, state |-> SynSent]}]
  /\ connections_active' = connections_active + 1
  /\ UNCHANGED connections_dropped

(***************************************************************************)
(* nanonet_track_tcp_connection for a segment of key k with flags syn and *)
(* ack; result is the value it returns.  A matched record is refreshed;   *)
(* an unmatched pure SYN allocates a record, unless kmalloc(GFP_ATOMIC)   *)
(* fails (-ENOMEM); any other unmatched segment is -EINVAL and leaves the *)
(* table alone.                                                           *)
(***************************************************************************)
nanonet_track_tcp_connection(k, syn, ack, result) ==
  \/ /\ Lookup(k) # {}
     /\ result = "ok"
     /\ RefreshFlow(k, syn, ack)
  \/ /\ Lookup(k) = {}
     /\ PureSyn(syn, ack)
     /\ result = "ok"
     /\ InsertFlow(k)
  \/ /\ Lookup(k) = {}
     /\ PureSyn(syn, ack)
     /\ result = "ENOMEM"
     /\ UNCHANGED vars
  \/ /\ Lookup(k) = {}
     /\ ~PureSyn(syn, ack)
     /\ result = "EINVAL"
     /\ UNCHANGED vars

(* Variant: the flush frees the records but forgets the atomic64_dec.     *)
ClearKeepingActive ==
  /\ connections_dropped + FlowCount <= MaxCount
  /\ connection_hash' = [b \in Buckets |-> {}]
  /\ UNCHANGED connections_active
  /\ connections_dropped' = connections_dropped + FlowCount

(***************************************************************************)
(* nanonet_clear_tcp_connections (the CLEAR_CONNECTIONS ioctl): every     *)
(* record is unlinked and freed, each one decrementing connections_active *)
(* and incrementing connections_dropped.                                  *)
(***************************************************************************)
nanonet_clear_tcp_connections ==
  /\ connections_dropped + FlowCount <= MaxCount
  /\ connection_hash' = [b \in Buckets |-> {}]
  /\ connections_active' = connections_active - FlowCount
  /\ connections_dropped' = connections_dropped + FlowCount

(***************************************************************************)
(* The part of the RESET_STATS ioctl that touches this component: both    *)
(* gauges are set to 0 with atomic64_set; the table is left as it is.     *)
(***************************************************************************)
ResetConnectionStats ==
  /\ connections_active' = 0
  /\ connections_dropped' = 0
  /\ UNCHANGED connection_hash

Next ==
  \/ \E k \in Key, syn, ack \in BOOLEAN, r \in TrackResults :
       nanonet_track_tcp_connection(k, syn, ack, r)
  \/ nanonet_clear_tcp_connections
  \/ ResetConnectionStats

Spec == Init /\ [][Next]_vars

-----------------------------------------------------------------------------
(* Each variable has the type the code gives it.                          *)
TypeOK ==
  /\ connection_hash \in [Buckets -> SUBSET Conn]
  /\ IsFiniteSet(Flows)
  /\ connections_active \in Int
  /\ connections_dropped \in Nat

(***************************************************************************)
(* The table is well formed: every record sits in the bucket its key      *)
(* hashes to, and no two records share a 4-tuple.  The lookup of lines    *)
(* 28-30 and the insertion of line 59 must agree on the bucket, and a     *)
(* record may be allocated only when the walk found none, or a segment    *)
(* would update one copy and leave a stale twin behind.                   *)
(***************************************************************************)
FlowTableWellFormed ==
  \A b \in Buckets : \A c, d \in connection_hash[b] :
    /\ Hash(c.key) = b
    /\ c.key = d.key => c = d

(***************************************************************************)
(* connections_active never exceeds the number of records in the table:   *)
(* every increment (line 60) is paired with a linked record and every     *)
(* record freed by the flush is subtracted.                               *)
(***************************************************************************)
ActiveBoundedByFlows == connections_active <= FlowCount

(***************************************************************************)
(* connections_active, a gauge of live records printed with %llu in       *)
(* /proc/nanonet, never goes negative.  RESET_STATS zeroes it while       *)
(* records stay linked; the next flush subtracts them again.              *)
(***************************************************************************)
ActiveNeverNegative == connections_active >= 0

=============================================================================
