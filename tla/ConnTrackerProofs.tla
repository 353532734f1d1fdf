------------------------- MODULE ConnTrackerProofs -------------------------
(***************************************************************************)
(* Proofs about the flow table of ConnTracker, for every set of addresses, *)
(* ports and buckets and every hash function into the buckets.            *)
(***************************************************************************)
EXTENDS ConnTracker, FiniteSetTheorems, TLAPS

LEMMA FlowCountType ==
  ASSUME TypeOK
  PROVE  FlowCount \in Nat
BY FS_CardinalityType DEF FlowCount, TypeOK

(* The initial state is typed.                                           *)
LEMMA TypeInit == Init => TypeOK
<1>1. Init => TypeOK
  <2> SUFFICES ASSUME Init PROVE TypeOK
    OBVIOUS
  <2>1. Flows = {}
    BY DEF Init, Flows
  <2>2. QED
    BY <2>1, FS_EmptySet DEF Init, TypeOK
<1>2. QED
  BY <1>1

LEMMA TypeStep == TypeOK /\ [Next]_vars => TypeOK'
<1>2. TypeOK /\ [Next]_vars => TypeOK'
  <2> SUFFICES ASSUME TypeOK, [Next]_vars PROVE TypeOK'
    OBVIOUS
  <2>1. ASSUME NEW k \in Key, NEW syn \in BOOLEAN, NEW ack \in BOOLEAN,
               Lookup(k) # {}, RefreshFlow(k, syn, ack)
        PROVE  TypeOK'
    <3> DEFINE b == Hash(k)
               c == CHOOSE x \in Lookup(k) : TRUE
               c2 == [key |-> k, state |-> SegmentState(c.state, syn, ack)]
    <3>1. b \in Buckets
      BY HashAssumption
    <3>2. c \in connection_hash[b]
      BY <2>1 DEF Lookup
    <3>3. c2 \in Conn
      BY <3>1, <3>2 DEF TypeOK, Conn, SegmentState, SynSent, Established
    <3>4. Flows' \subseteq Flows \cup {c2}
      <4>1. connection_hash' = [connection_hash EXCEPT ![b] = (connection_hash[b] \ {c}) \cup {c2}]
        BY <2>1 DEF RefreshFlow
      <4>2. QED
        BY <3>1, <4>1 DEF Flows, TypeOK
    <3>5. IsFiniteSet(Flows \cup {c2})
      BY FS_AddElement DEF TypeOK
    <3>6. IsFiniteSet(Flows')
      BY <3>4, <3>5, FS_Subset
    <3>7. QED
      BY <2>1, <3>1, <3>2, <3>3, <3>6 DEF TypeOK, RefreshFlow
  <2>6. ASSUME NEW k \in Key, InsertFlow(k)
        PROVE  TypeOK'
    <3> DEFINE n == [key |-> k, state |-> SynSent]
    <3>1. Hash(k) \in Buckets
      BY HashAssumption
    <3>2. n \in Conn
      BY DEF Conn, SynSent
    <3>3. Flows' \subseteq Flows \cup {n}
      <4>1. connection_hash' = [connection_hash EXCEPT ![Hash(k)] = connection_hash[Hash(k)] \cup {n}]
        BY <2>6 DEF InsertFlow
      <4>2. QED
        BY <3>1, <4>1 DEF Flows, TypeOK
    <3>4. IsFiniteSet(Flows \cup {n})
      BY FS_AddElement DEF TypeOK
    <3>5. IsFiniteSet(Flows')
      BY <3>3, <3>4, FS_Subset
    <3>6. QED
      BY <2>6, <3>1, <3>2, <3>5 DEF TypeOK, InsertFlow
  <2>2. CASE nanonet_clear_tcp_connections
    <3>1. Flows' = {}
      BY <2>2 DEF nanonet_clear_tcp_connections, Flows
    <3>2. QED
      BY <2>2, <3>1, FlowCountType, FS_EmptySet DEF nanonet_clear_tcp_connections, TypeOK
  <2>3. CASE ResetConnectionStats
    BY <2>3 DEF ResetConnectionStats, TypeOK, Flows
  <2>4. CASE UNCHANGED vars
    BY <2>4 DEF vars, TypeOK, Flows
  <2>5. QED
    BY <2>1, <2>2, <2>3, <2>4, <2>6 DEF Next, nanonet_track_tcp_connection
<1>3. QED
  BY <1>2

(* Every step keeps each variable in its type.                            *)
THEOREM TypeCorrect == Spec => []TypeOK
BY TypeInit, TypeStep, PTL DEF Spec

-----------------------------------------------------------------------------
(***************************************************************************)
(* FlowTableWellFormed is inductive together with TypeOK: a refresh puts  *)
(* back a record of the same key into the same bucket, and an insertion   *)
(* happens only when the bucket holds no record of the key.               *)
(***************************************************************************)
IInv == TypeOK /\ FlowTableWellFormed

LEMMA IInvInit == Init => IInv
<1> SUFFICES ASSUME Init PROVE IInv
  OBVIOUS
<1>1. TypeOK
  BY TypeInit
<1>2. FlowTableWellFormed
  BY DEF Init, FlowTableWellFormed
<1>3. QED
  BY <1>1, <1>2 DEF IInv

LEMMA IInvStep == IInv /\ [Next]_vars => IInv'
<1> SUFFICES ASSUME IInv, [Next]_vars PROVE IInv'
  OBVIOUS
<1>1. TypeOK'
  <2>1. TypeOK /\ [Next]_vars => TypeOK'
    BY TypeStep
  <2>2. QED
    BY <2>1 DEF IInv
<1>2. ASSUME NEW k \in Key, NEW syn \in BOOLEAN, NEW ack \in BOOLEAN,
             Lookup(k) # {}, RefreshFlow(k, syn, ack)
      PROVE  FlowTableWellFormed'
  <2> DEFINE b == Hash(k)
             c == CHOOSE x \in Lookup(k) : TRUE
             c2 == [key |-> k, state |-> SegmentState(c.state, syn, ack)]
  <2>1. b \in Buckets
    BY HashAssumption
  <2>2. c \in connection_hash[b] /\ c.key = k
    BY <1>2 DEF Lookup
  <2>3. connection_hash' = [connection_hash EXCEPT ![b] = (connection_hash[b] \ {c}) \cup {c2}]
    BY <1>2 DEF RefreshFlow
  <2>4. \A d \in connection_hash[b] \ {c} : d.key # k
    BY <2>1, <2>2 DEF IInv, FlowTableWellFormed
  <2>5. QED
    BY <2>1, <2>2, <2>3, <2>4 DEF IInv, TypeOK, FlowTableWellFormed
<1>3. ASSUME NEW k \in Key, Lookup(k) = {}, InsertFlow(k)
      PROVE  FlowTableWellFormed'
  <2> DEFINE n == [key |-> k, state |-> SynSent]
  <2>1. Hash(k) \in Buckets
    BY HashAssumption
  <2>2. connection_hash' = [connection_hash EXCEPT ![Hash(k)] = connection_hash[Hash(k)] \cup {n}]
    BY <1>3 DEF InsertFlow
  <2>3. \A d \in connection_hash[Hash(k)] : d.key # k
    BY <1>3 DEF Lookup
  <2>4. QED
    BY <2>1, <2>2, <2>3 DEF IInv, TypeOK, FlowTableWellFormed
<1>4. ASSUME nanonet_clear_tcp_connections PROVE FlowTableWellFormed'
  <2>1. \A b \in Buckets : connection_hash'[b] = {}
    BY <1>4 DEF nanonet_clear_tcp_connections
  <2>2. QED
    BY <2>1 DEF FlowTableWellFormed
<1>5. ASSUME ResetConnectionStats PROVE FlowTableWellFormed'
  BY <1>5 DEF ResetConnectionStats, FlowTableWellFormed, IInv
<1>6. ASSUME UNCHANGED vars PROVE FlowTableWellFormed'
  BY <1>6 DEF vars, FlowTableWellFormed, IInv
<1>7. FlowTableWellFormed'
  BY <1>2, <1>3, <1>4, <1>5, <1>6 DEF Next, nanonet_track_tcp_connection, vars
<1>8. QED
  BY <1>1, <1>7 DEF IInv

(* The table is always well formed.                                       *)
THEOREM WellFormed == Spec => []FlowTableWellFormed
<1>1. Init => IInv
  BY IInvInit
<1>2. IInv /\ [Next]_vars => IInv'
  BY IInvStep
<1>3. IInv => FlowTableWellFormed
  BY DEF IInv
<1>4. QED
  BY <1>1, <1>2, <1>3, PTL DEF Spec

-----------------------------------------------------------------------------
(***************************************************************************)
(* ActiveBoundedByFlows needs the table to be well formed: a refresh must *)
(* replace the only record of its key, so that the count of records stays *)
(* put, and an insertion must add a record no bucket holds.               *)
(***************************************************************************)
CountInv == IInv /\ ActiveBoundedByFlows

(* A refresh swaps the record of key k for its updated copy, which no     *)
(* other record shares a key with: the number of records is unchanged.    *)
LEMMA RefreshKeepsCount ==
  ASSUME IInv, NEW k \in Key, NEW syn \in BOOLEAN, NEW ack \in BOOLEAN,
         Lookup(k) # {}, RefreshFlow(k, syn, ack)
  PROVE  FlowCount' = FlowCount
<1> DEFINE b == Hash(k)
           c == CHOOSE x \in Lookup(k) : TRUE
           c2 == [key |-> k, state |-> SegmentState(c.state, syn, ack)]
<1>1. b \in Buckets
  BY HashAssumption
<1>2. c \in connection_hash[b] /\ c.key = k
  BY DEF Lookup
<1>3. connection_hash' = [connection_hash EXCEPT ![b] = (connection_hash[b] \ {c}) \cup {c2}]
  BY DEF RefreshFlow
<1>4. \A d \in Flows : d.key = k => d = c
  BY <1>1, <1>2 DEF IInv, FlowTableWellFormed, Flows
<1>5. Flows' = (Flows \ {c}) \cup {c2}
  <2>1. \A a \in Buckets : a # b => c \notin connection_hash[a]
    BY <1>1, <1>2 DEF IInv, FlowTableWellFormed
  <2>2. QED
    BY <1>1, <1>2, <1>3, <2>1 DEF Flows, IInv, TypeOK
<1>6. c2 \notin Flows \ {c}
  BY <1>4
<1>7. c \in Flows
  BY <1>1, <1>2 DEF Flows
<1>8. IsFiniteSet(Flows \ {c}) /\ Cardinality(Flows \ {c}) = Cardinality(Flows) - 1
  BY <1>7, FS_RemoveElement DEF IInv, TypeOK
<1>9. Cardinality((Flows \ {c}) \cup {c2}) = Cardinality(Flows \ {c}) + 1
  BY <1>6, <1>8, FS_AddElement
<1>10. Cardinality(Flows) \in Nat
  BY FS_CardinalityType DEF IInv, TypeOK
<1>11. QED
  BY <1>5, <1>8, <1>9, <1>10 DEF FlowCount

(* An insertion links a record of a key no bucket holds: one more record. *)
LEMMA InsertAddsOne ==
  ASSUME IInv, NEW k \in Key, Lookup(k) = {}, InsertFlow(k)
  PROVE  FlowCount' = FlowCount + 1
<1> DEFINE n == [key |-> k, state |-> SynSent]
<1>1. Hash(k) \in Buckets
  BY HashAssumption
<1>2. Flows' = Flows \cup {n}
  BY <1>1 DEF InsertFlow, Flows, IInv, TypeOK
<1>3. n \notin Flows
  BY <1>1 DEF Lookup, Flows, IInv, FlowTableWellFormed
<1>4. QED
  BY <1>2, <1>3, FS_AddElement DEF FlowCount, IInv, TypeOK

LEMMA CountInvStep == CountInv /\ [Next]_vars => CountInv'
<1> SUFFICES ASSUME CountInv, [Next]_vars PROVE CountInv'
  OBVIOUS
<1>1. IInv'
  BY IInvStep DEF CountInv
<1>2. FlowCount \in Nat /\ FlowCount' \in Nat
  <2>1. IsFiniteSet(Flows) /\ IsFiniteSet(Flows')
    BY <1>1 DEF CountInv, IInv, TypeOK
  <2>2. QED
    BY <2>1, FS_CardinalityType DEF FlowCount
<1>3. ASSUME NEW k \in Key, NEW syn \in BOOLEAN, NEW ack \in BOOLEAN,
             Lookup(k) # {}, RefreshFlow(k, syn, ack)
      PROVE  ActiveBoundedByFlows'
  BY <1>3, RefreshKeepsCount DEF CountInv, ActiveBoundedByFlows, RefreshFlow
<1>4. ASSUME NEW k \in Key, Lookup(k) = {}, InsertFlow(k)
      PROVE  ActiveBoundedByFlows'
  <2>1. FlowCount' = FlowCount + 1
    BY <1>4, InsertAddsOne DEF CountInv
  <2>2. QED
    BY <1>2, <1>4, <2>1 DEF CountInv, IInv, TypeOK, ActiveBoundedByFlows, InsertFlow
<1>5. ASSUME nanonet_clear_tcp_connections PROVE ActiveBoundedByFlows'
  <2>1. Flows' = {}
    BY <1>5 DEF nanonet_clear_tcp_connections, Flows
  <2>2. FlowCount' = 0
    BY <2>1, FS_EmptySet DEF FlowCount
  <2>3. QED
    BY <1>2, <1>5, <2>2 DEF CountInv, IInv, TypeOK, ActiveBoundedByFlows,
                            nanonet_clear_tcp_connections
<1>6. ASSUME ResetConnectionStats PROVE ActiveBoundedByFlows'
  BY <1>2, <1>6 DEF ActiveBoundedByFlows, ResetConnectionStats
<1>7. ASSUME UNCHANGED vars PROVE ActiveBoundedByFlows'
  BY <1>7 DEF vars, CountInv, ActiveBoundedByFlows, FlowCount, Flows
<1>8. QED
  BY <1>1, <1>3, <1>4, <1>5, <1>6, <1>7 DEF CountInv, Next,
     nanonet_track_tcp_connection, vars

(* nanonet_track_tcp_connection counts a record active only when it links *)
(* one, and the flush subtracts every record it frees, so                 *)
(* connections_active never exceeds the records in connection_hash, even  *)
(* across RESET_STATS.                                                    *)
THEOREM ActiveBounded == Spec => []ActiveBoundedByFlows
<1>1. Init => CountInv
  <2> SUFFICES ASSUME Init PROVE CountInv
    OBVIOUS
  <2>1. FlowCount = 0
    BY FS_EmptySet DEF Init, FlowCount, Flows
  <2>2. QED
    BY <2>1, IInvInit DEF Init, CountInv, ActiveBoundedByFlows
<1>2. CountInv /\ [Next]_vars => CountInv'
  BY CountInvStep
<1>3. CountInv => ActiveBoundedByFlows
  BY DEF CountInv
<1>4. QED
  BY <1>1, <1>2, <1>3, PTL DEF Spec

=============================================================================
