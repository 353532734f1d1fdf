--------------------------- MODULE PipelineProofs ---------------------------
(***************************************************************************)
(* Proofs about the counters nanonet_hook keeps in global_stats, for      *)
(* every set of frames, configurations, addresses, ports and bounds.      *)
(***************************************************************************)
EXTENDS Pipeline, TLAPS

(* The counters the accounting is about are natural numbers.              *)
Counters ==
  /\ packets_processed \in Nat
  /\ packets_bypassed \in Nat
  /\ errors \in Nat
  /\ handled \in Nat

(* The three ways a hook invocation can end, by the counter it bumps and  *)
(* the verdict it returns.                                                *)
BypassExit ==
  /\ packets_bypassed' = packets_bypassed + 1
  /\ UNCHANGED <<packets_processed, errors>>
  /\ last'.verdict = "ACCEPT"

ErrorExit ==
  /\ errors' = errors + 1
  /\ UNCHANGED <<packets_processed, packets_bypassed>>
  /\ last'.verdict = "ACCEPT"

DeliverExit ==
  /\ packets_processed' = packets_processed + 1
  /\ UNCHANGED packets_bypassed
  /\ errors' \in {errors, errors + 1}
  /\ last'.verdict = "STOLEN"

Exit == handled' = handled + 1 /\ (BypassExit \/ ErrorExit \/ DeliverExit)

(* The handler stage steals the frame and counts it processed; a failing  *)
(* handler adds an error on top.                                          *)
LEMMA DeliverCounts ==
  ASSUME NEW f, NEW cfg, Deliver(f, cfg)
  PROVE  handled' = handled + 1 /\ DeliverExit
<1>1. PICK out \in nanonet_process_application_logic(f, cfg) :
        /\ errors' = IF out[1] < 0 THEN errors + 1 ELSE errors
        /\ packets_processed' = packets_processed + 1
        /\ Hooked(f, "STOLEN", out[2])
        /\ UNCHANGED packets_bypassed
  BY DEF Deliver
<1>2. errors' \in {errors, errors + 1}
  BY <1>1
<1>3. QED
  BY <1>1, <1>2 DEF Hooked, DeliverExit

(* Every exit of the transport stage is one of the three.                 *)
LEMMA TransportCounts ==
  ASSUME NEW f, NEW cfg, TransportStage(f, cfg)
  PROVE  Exit
<1>1. CASE /\ Accept(f, packets_bypassed)
           /\ UNCHANGED <<packets_processed, responses_sent, errors, ctVars>>
  BY <1>1 DEF Accept, Hooked, Exit, BypassExit
<1>2. CASE \E r \in CT!TrackResults :
             /\ CT!nanonet_track_tcp_connection(KeyOf(f), f.syn, f.ack, r)
             /\ \/ /\ r # "ok"
                   /\ Accept(f, errors)
                   /\ UNCHANGED <<packets_processed, packets_bypassed, responses_sent>>
                \/ /\ r = "ok"
                   /\ Deliver(f, cfg)
  <2>1. PICK r \in CT!TrackResults :
          \/ /\ Accept(f, errors)
             /\ UNCHANGED <<packets_processed, packets_bypassed>>
          \/ Deliver(f, cfg)
    BY <1>2
  <2>2. CASE Accept(f, errors) /\ UNCHANGED <<packets_processed, packets_bypassed>>
    BY <2>2 DEF Accept, Hooked, Exit, ErrorExit
  <2>3. CASE Deliver(f, cfg)
    BY <2>3, DeliverCounts DEF Exit
  <2>4. QED
    BY <2>1, <2>2, <2>3
<1>3. CASE Deliver(f, cfg)
  BY <1>3, DeliverCounts DEF Exit
<1>4. QED
  BY <1>1, <1>2, <1>3 DEF TransportStage

(* Every exit of nanonet_hook counts the frame in exactly one of          *)
(* packets_processed and packets_bypassed, or in errors alone.            *)
LEMMA HookCounts ==
  ASSUME NEW f, NEW elapsed, nanonet_hook(f, elapsed)
  PROVE  Exit
<1>1. CASE Accept(f, packets_bypassed)
           /\ UNCHANGED <<packets_processed, responses_sent, errors, ctVars,
                          rl_printed>>
  BY <1>1 DEF Accept, Hooked, Exit, BypassExit
<1>2. CASE Accept(f, errors)
           /\ UNCHANGED <<packets_processed, packets_bypassed, responses_sent,
                          ctVars, rl_printed>>
  BY <1>2 DEF Accept, Hooked, Exit, ErrorExit
<1>3. CASE Accept(f, errors)
           /\ UNCHANGED <<packets_processed, packets_bypassed,
                          responses_sent, ctVars>>
  BY <1>3 DEF Accept, Hooked, Exit, ErrorExit
<1>4. CASE Accept(f, packets_bypassed)
           /\ UNCHANGED <<packets_processed, responses_sent, errors, ctVars>>
  BY <1>4 DEF Accept, Hooked, Exit, BypassExit
<1>5. CASE TransportStage(f, global_config)
  BY <1>5, TransportCounts
<1>6. QED
  BY <1>1, <1>2, <1>3, <1>4, <1>5 DEF nanonet_hook

-----------------------------------------------------------------------------
(* The accounting bounds hold together with the counters' type.           *)
IInv == Counters /\ FrameAccountingBounds

LEMMA InitIInv == Init => IInv
BY DEF Init, IInv, Counters, FrameAccountingBounds

LEMMA StepIInv == IInv /\ [Next]_vars => IInv'
<1> SUFFICES ASSUME IInv, [Next]_vars PROVE IInv'
  OBVIOUS
<1>1. ASSUME NEW f \in Frames, NEW elapsed \in BOOLEAN, nanonet_hook(f, elapsed)
      PROVE  IInv'
  <2>1. Exit
    BY <1>1, HookCounts
  <2>2. CASE BypassExit
    BY <2>1, <2>2 DEF Exit, BypassExit, IInv, Counters, FrameAccountingBounds
  <2>3. CASE ErrorExit
    BY <2>1, <2>3 DEF Exit, ErrorExit, IInv, Counters, FrameAccountingBounds
  <2>4. CASE DeliverExit
    <3>1. handled' = handled + 1
      BY <2>1 DEF Exit
    <3>2. CASE errors' = errors
      BY <2>4, <3>1, <3>2 DEF DeliverExit, IInv, Counters, FrameAccountingBounds
    <3>3. CASE errors' = errors + 1
      BY <2>4, <3>1, <3>3 DEF DeliverExit, IInv, Counters, FrameAccountingBounds
    <3>4. QED
      BY <2>4, <3>2, <3>3 DEF DeliverExit
  <2>5. QED
    BY <2>1, <2>2, <2>3, <2>4 DEF Exit
<1>2. ASSUME NEW u \in UserConfigs, NEW n \in CopyLengths, SetConfig(u, n)
      PROVE  IInv'
  BY <1>2 DEF SetConfig, IInv, Counters, FrameAccountingBounds
<1>3. CASE ResetStats
  BY <1>3 DEF ResetStats, IInv, Counters, FrameAccountingBounds
<1>4. CASE ClearConnections
  BY <1>4 DEF ClearConnections, IInv, Counters, FrameAccountingBounds
<1>5. CASE UNCHANGED vars
  BY <1>5 DEF vars, IInv, Counters, FrameAccountingBounds
<1>6. QED
  BY <1>1, <1>2, <1>3, <1>4, <1>5 DEF Next

(* Every exit path of nanonet_hook bumps exactly one of packets_processed *)
(* and packets_bypassed, or errors: between two RESET_STATS the first two *)
(* together never exceed the frames hooked, and with errors they cover    *)
(* them all, for every configuration the ioctls can install.              *)
THEOREM AccountingBounds == Spec => []FrameAccountingBounds
<1>1. IInv => FrameAccountingBounds
  BY DEF IInv
<1>2. QED
  BY <1>1, InitIInv, StepIInv, PTL DEF Spec

(* Only a hook invocation moves handled up by one: RESET_STATS sets it to *)
(* 0 and the other ioctls leave it alone.                                 *)
LEMMA HookStepIsHook ==
  ASSUME Counters, [Next]_vars, HookStep
  PROVE  \E f \in Frames, elapsed \in BOOLEAN : nanonet_hook(f, elapsed)
BY DEF Next, HookStep, Counters, SetConfig, ResetStats, ClearConnections, vars

(* nanonet_hook returns NF_STOLEN exactly on the paths that count the     *)
(* frame in packets_processed, and NF_ACCEPT on all the others.           *)
THEOREM StolenIffCounted == Spec => StolenIffProcessed
<1>1. ASSUME IInv, [Next]_vars
      PROVE  HookStep => (last'.verdict = "STOLEN" <=> packets_processed' = packets_processed + 1)
  <2> SUFFICES ASSUME HookStep
               PROVE  last'.verdict = "STOLEN" <=> packets_processed' = packets_processed + 1
    OBVIOUS
  <2>1. PICK f \in Frames, elapsed \in BOOLEAN : nanonet_hook(f, elapsed)
    BY <1>1, HookStepIsHook DEF IInv
  <2>2. Exit
    BY <2>1, HookCounts
  <2>3. QED
    BY <1>1, <2>2 DEF Exit, BypassExit, ErrorExit, DeliverExit, IInv, Counters
<1>2. IInv /\ [Next]_vars =>
        [HookStep => (last'.verdict = "STOLEN" <=> packets_processed' = packets_processed + 1)]_vars
  BY <1>1
<1>3. QED
  BY <1>2, InitIInv, StepIInv, PTL DEF Spec, StolenIffProcessed

-----------------------------------------------------------------------------
(* nanonet_process_application_logic never returns a positive value: the *)
(* handler's 1 is replaced by nanonet_send_response's 0 or error code.    *)
LEMMA AppResultNotPositive ==
  ASSUME NEW f \in Frames, NEW cfg, NEW out \in nanonet_process_application_logic(f, cfg)
  PROVE  out[1] \in Int /\ out[1] <= 0
<1>1. CASE f.payload = "none"
  BY <1>1 DEF nanonet_process_application_logic
<1>2. CASE f.payload # "none" /\ cfg.application_logic_type # 0
  BY <1>2 DEF nanonet_process_application_logic, EINVAL
<1>3. CASE f.payload # "none" /\ cfg.application_logic_type = 0
  <2>1. \/ \E r \in process_market_data(f.payload) \ {1} : out = <<r, FALSE>>
        \/ \E s \in nanonet_send_response(cfg) : out = <<s, s = 0>>
    BY <1>3 DEF nanonet_process_application_logic
  <2>2. \A r \in process_market_data(f.payload) \ {1} : r \in Int /\ r <= 0
    <3>1. f.payload \in {"short", "above", "below"}
      BY <1>3, ConstantsAssumption DEF Frame, PayloadKinds
    <3>2. CASE f.payload = "short"
      BY <3>2 DEF process_market_data, EINVAL
    <3>3. CASE f.payload = "above"
      BY <3>3 DEF process_market_data
    <3>4. CASE f.payload = "below"
      BY <3>4 DEF process_market_data, ENOMEM
    <3>5. QED
      BY <3>1, <3>2, <3>3, <3>4
  <2>3. \A s \in nanonet_send_response(cfg) : s \in Int /\ s <= 0
    BY DEF nanonet_send_response, ENOMEM, EIO
  <2>4. CASE \E r \in process_market_data(f.payload) \ {1} : out = <<r, FALSE>>
    <3>1. PICK r \in process_market_data(f.payload) \ {1} : out = <<r, FALSE>>
      BY <2>4
    <3>2. out[1] = r
      BY <3>1
    <3>3. QED
      BY <3>1, <3>2, <2>2
  <2>5. CASE \E s \in nanonet_send_response(cfg) : out = <<s, s = 0>>
    <3>1. PICK s \in nanonet_send_response(cfg) : out = <<s, s = 0>>
      BY <2>5
    <3>2. out[1] = s
      BY <3>1
    <3>3. QED
      BY <3>1, <3>2, <2>3
  <2>6. QED
    BY <2>1, <2>4, <2>5
<1>4. QED
  BY <1>1, <1>2, <1>3

(* The handler stage leaves responses_sent alone.                         *)
LEMMA DeliverKeepsResponses ==
  ASSUME NEW f \in Frames, NEW cfg, Deliver(f, cfg)
  PROVE  responses_sent' = responses_sent
<1>1. PICK out \in nanonet_process_application_logic(f, cfg) :
        responses_sent' = IF out[1] > 0 THEN responses_sent + 1 ELSE responses_sent
  BY DEF Deliver
<1>2. out[1] \in Int /\ out[1] <= 0
  BY AppResultNotPositive
<1>3. QED
  BY <1>1, <1>2

(* No exit of nanonet_hook changes responses_sent.                        *)
LEMMA HookKeepsResponses ==
  ASSUME NEW f \in Frames, NEW elapsed, nanonet_hook(f, elapsed)
  PROVE  responses_sent' = responses_sent
<1>1. CASE TransportStage(f, global_config)
  <2>1. CASE \E r \in CT!TrackResults :
               /\ CT!nanonet_track_tcp_connection(KeyOf(f), f.syn, f.ack, r)
               /\ r = "ok" /\ Deliver(f, global_config)
    BY <2>1, DeliverKeepsResponses
  <2>2. CASE Deliver(f, global_config)
    BY <2>2, DeliverKeepsResponses
  <2>3. QED
    BY <1>1, <2>1, <2>2 DEF TransportStage
<1>2. QED
  BY <1>1 DEF nanonet_hook

NoResponseCounted == responses_sent = 0

(* The bug at packet_processor.c:93 for every instance of the constants: *)
(* the responses_sent branch of nanonet.c:119-121 is dead, so the counter *)
(* stays 0 however many orders nanonet_send_response puts on the wire.    *)
THEOREM ResponsesNeverCounted == Spec => []NoResponseCounted
<1>1. Init => NoResponseCounted
  BY DEF Init, NoResponseCounted
<1>2. NoResponseCounted /\ [Next]_vars => NoResponseCounted'
  <2> SUFFICES ASSUME responses_sent = 0, [Next]_vars PROVE responses_sent' = 0
    BY DEF NoResponseCounted
  <2>1. ASSUME NEW f \in Frames, NEW elapsed \in BOOLEAN, nanonet_hook(f, elapsed)
        PROVE  responses_sent' = 0
    BY <2>1, HookKeepsResponses
  <2>2. QED
    BY <2>1 DEF Next, SetConfig, ResetStats, ClearConnections, vars
<1>3. QED
  BY <1>1, <1>2, PTL DEF Spec

-----------------------------------------------------------------------------
(***************************************************************************)
(* Type correctness.  The flow table's part is ConnTracker's TypeStep:    *)
(* every change the hook or an ioctl makes to the table is one step of    *)
(* ConnTracker's next-state relation.                                     *)
(***************************************************************************)
CTP == INSTANCE ConnTrackerProofs WITH IPs <- Addr

LEMMA CTTypeStep ==
  ASSUME CT!TypeOK, CT!Next \/ UNCHANGED ctVars
  PROVE  CT!TypeOK'
<1>1. MaxCount \in Nat /\ \A k \in CTP!Key : Hash(k) \in Buckets
  BY ConstantsAssumption DEF CTP!Key
<1>2. CT!TypeOK = CTP!TypeOK
  BY DEF CT!TypeOK, CTP!TypeOK, CT!Flows, CTP!Flows, CT!Conn, CTP!Conn, CT!Key, CTP!Key,
     CT!SynSent, CTP!SynSent, CT!Established, CTP!Established, CT!IsFiniteSet, CTP!IsFiniteSet
<1>4. CT!Next = CTP!Next
  BY DEF CT!Next, CTP!Next, CT!Key, CTP!Key, CT!TrackResults, CTP!TrackResults,
     CT!nanonet_track_tcp_connection, CTP!nanonet_track_tcp_connection,
     CT!Lookup, CTP!Lookup, CT!PureSyn, CTP!PureSyn, CT!RefreshFlow, CTP!RefreshFlow,
     CT!SegmentState, CTP!SegmentState, CT!InsertFlow, CTP!InsertFlow,
     CT!SynSent, CTP!SynSent, CT!Established, CTP!Established, CT!vars, CTP!vars,
     CT!nanonet_clear_tcp_connections, CTP!nanonet_clear_tcp_connections,
     CT!FlowCount, CTP!FlowCount, CT!Flows, CTP!Flows, CT!Cardinality, CTP!Cardinality,
     CT!ResetConnectionStats, CTP!ResetConnectionStats
<1>6. CT!TypeOK' = CTP!TypeOK'
  BY DEF CT!TypeOK, CTP!TypeOK, CT!Flows, CTP!Flows, CT!Conn, CTP!Conn, CT!Key, CTP!Key,
     CT!SynSent, CTP!SynSent, CT!Established, CTP!Established, CT!IsFiniteSet, CTP!IsFiniteSet
<1>7. CTP!TypeOK /\ [CTP!Next]_CTP!vars
  BY <1>2, <1>4 DEF ctVars, CTP!vars
<1>8. CTP!TypeOK'
  BY <1>1, <1>7, CTP!TypeStep
<1>3. QED
  BY <1>6, <1>8

(* The 4-tuple of a frame is a key of the table.                          *)
LEMMA KeyOfType ==
  ASSUME NEW f \in Frames
  PROVE  KeyOf(f) \in CT!Key
BY ConstantsAssumption DEF KeyOf, CT!Key, Frame, Addr

(* A prefix copy of a configuration is a configuration.                   *)
LEMMA CopiedConfigType ==
  ASSUME NEW u \in Config, NEW n \in CopyLengths
  PROVE  CopiedConfig(u, n) \in Config
<1> DEFINE c == CopiedConfig(u, n)
<1>1. DOMAIN u = {"enabled", "target_ip", "target_port", "protocol", "response_ip",
                     "response_port", "application_logic_type", "multicast",
                     "multicast_group"}
  BY DEF Config
<1>0. /\ u.enabled \in BOOLEAN /\ u.multicast \in BOOLEAN
      /\ u.target_ip \in Addr /\ u.response_ip \in Addr /\ u.multicast_group \in Addr
      /\ u.target_port \in PortVal /\ u.response_port \in PortVal
      /\ u.protocol \in Nat /\ u.application_logic_type \in Nat
  BY DEF Config
<1>2. \A fld \in DOMAIN u :
        c[fld] = IF \E i \in 1..n : ConfigFields[i] = fld THEN u[fld] ELSE ZeroConfig[fld]
  BY DEF CopiedConfig
<1>3. /\ ZeroConfig.enabled = FALSE /\ ZeroConfig.multicast = FALSE
      /\ ZeroConfig.target_ip = ZeroIP /\ ZeroConfig.response_ip = ZeroIP
      /\ ZeroConfig.multicast_group = ZeroIP /\ ZeroConfig.target_port = ZeroPort
      /\ ZeroConfig.response_port = ZeroPort /\ ZeroConfig.protocol = 0
      /\ ZeroConfig.application_logic_type = 0
  BY DEF ZeroConfig
<1>4. c.enabled \in BOOLEAN
  <2>0. c.enabled = IF \E i \in 1..n : ConfigFields[i] = "enabled" THEN u.enabled ELSE FALSE
    BY <1>1, <1>2, <1>3, Zenon
  <2>1. c.enabled \in {u.enabled, FALSE}
    BY <2>0, Zenon
  <2>2. QED
    BY <1>0, <2>1, Zenon
<1>5. c.target_ip \in Addr
  BY <1>0, <1>1, <1>2, <1>3 DEF Addr, PortVal
<1>6. c.target_port \in PortVal
  BY <1>0, <1>1, <1>2, <1>3 DEF Addr, PortVal
<1>7. c.protocol \in Nat
  BY <1>0, <1>1, <1>2, <1>3 DEF Addr, PortVal
<1>8. c.response_ip \in Addr
  BY <1>0, <1>1, <1>2, <1>3 DEF Addr, PortVal
<1>9. c.response_port \in PortVal
  BY <1>0, <1>1, <1>2, <1>3 DEF Addr, PortVal
<1>10. c.application_logic_type \in Nat
  BY <1>0, <1>1, <1>2, <1>3 DEF Addr, PortVal
<1>11. c.multicast \in BOOLEAN
  <2>0. c.multicast = IF \E i \in 1..n : ConfigFields[i] = "multicast" THEN u.multicast ELSE FALSE
    BY <1>1, <1>2, <1>3, Zenon
  <2>1. c.multicast \in {u.multicast, FALSE}
    BY <2>0, Zenon
  <2>2. QED
    BY <1>0, <2>1, Zenon
<1>12. c.multicast_group \in Addr
  BY <1>0, <1>1, <1>2, <1>3 DEF Addr, PortVal
<1>13. c = [enabled |-> c.enabled, target_ip |-> c.target_ip, target_port |-> c.target_port,
            protocol |-> c.protocol, response_ip |-> c.response_ip,
            response_port |-> c.response_port,
            application_logic_type |-> c.application_logic_type,
            multicast |-> c.multicast, multicast_group |-> c.multicast_group]
  BY <1>1 DEF CopiedConfig
<1>14. QED
  BY <1>4, <1>5, <1>6, <1>7, <1>8, <1>9, <1>10, <1>11, <1>12, <1>13 DEF Config

(* The window count nanonet_ratelimit keeps stays within its burst.       *)
LEMMA RateLimitType ==
  ASSUME rl_printed \in 0..Burst, NEW elapsed \in BOOLEAN
  PROVE  RateLimitAfter(elapsed) \in 0..Burst
BY ConstantsAssumption DEF RateLimitAfter

(* nanonet_process_application_logic says whether a frame went out.       *)
LEMMA AppSentBoolean ==
  ASSUME NEW f \in Frames, NEW cfg, NEW out \in nanonet_process_application_logic(f, cfg)
  PROVE  out[2] \in BOOLEAN
<1>1. CASE f.payload = "none"
  <2>1. out = <<0, FALSE>>
    BY <1>1, Zenon DEF nanonet_process_application_logic
  <2>2. QED
    BY <2>1, Zenon
<1>4. CASE f.payload # "none" /\ cfg.application_logic_type # 0
  <2>1. out = <<EINVAL, FALSE>>
    BY <1>4, Zenon DEF nanonet_process_application_logic
  <2>2. QED
    BY <2>1, Zenon
<1>2. CASE f.payload # "none" /\ cfg.application_logic_type = 0
  <2>1. \/ \E r \in process_market_data(f.payload) \ {1} : out = <<r, FALSE>>
        \/ \E s \in nanonet_send_response(cfg) : out = <<s, s = 0>>
    BY <1>2, Zenon DEF nanonet_process_application_logic
  <2>2. CASE \E r \in process_market_data(f.payload) \ {1} : out = <<r, FALSE>>
    <3>1. PICK r \in process_market_data(f.payload) \ {1} : out = <<r, FALSE>>
      BY <2>2
    <3>2. QED
      BY <3>1, Zenon
  <2>3. CASE \E s \in nanonet_send_response(cfg) : out = <<s, s = 0>>
    <3>1. PICK s \in nanonet_send_response(cfg) : out = <<s, s = 0>>
      BY <2>3
    <3>2. out[2] = (s = 0)
      BY <3>1
    <3>3. QED
      BY <3>2, Zenon
  <2>4. QED
    BY <2>1, <2>2, <2>3, Zenon
<1>3. QED
  BY <1>1, <1>2, <1>4

LastType == [frame : Frames, verdict : {"none", "ACCEPT", "STOLEN"}, sent : BOOLEAN]

(* What a hook invocation does to the state TypeOK constrains beyond the  *)
(* counters: it records a typed last frame, moves the rate limiter within *)
(* its burst, and takes at most one step of the flow table.               *)
LEMMA HookShape ==
  ASSUME TypeOK, NEW f \in Frames, NEW elapsed \in BOOLEAN, nanonet_hook(f, elapsed)
  PROVE  /\ last' \in LastType
         /\ rl_printed' \in 0..Burst
         /\ CT!Next \/ UNCHANGED ctVars
<1>1. ASSUME NEW cfg, Deliver(f, cfg) PROVE last' \in LastType
  <2>1. PICK out \in nanonet_process_application_logic(f, cfg) : Hooked(f, "STOLEN", out[2])
    BY <1>1 DEF Deliver
  <2>2. out[2] \in BOOLEAN
    BY AppSentBoolean
  <2>3. QED
    BY <2>1, <2>2 DEF Hooked, LastType
<1>2. [frame |-> f, verdict |-> "ACCEPT", sent |-> FALSE] \in LastType
  BY DEF LastType
<1>3. rl_printed' \in {rl_printed, RateLimitAfter(elapsed)}
  BY DEF nanonet_hook
<1>4. rl_printed' \in 0..Burst
  BY <1>3, RateLimitType DEF TypeOK
<1>5. ASSUME NEW r \in CT!TrackResults,
             CT!nanonet_track_tcp_connection(KeyOf(f), f.syn, f.ack, r)
      PROVE  CT!Next
  <2>1. f.syn \in BOOLEAN /\ f.ack \in BOOLEAN
    BY ConstantsAssumption DEF Frame
  <2>2. KeyOf(f) \in CT!Key
    BY KeyOfType
  <2>3. QED
    BY <1>5, <2>1, <2>2, Zenon DEF CT!Next
<1>6. CASE TransportStage(f, global_config)
  <2>1. CASE \E r \in CT!TrackResults :
               /\ CT!nanonet_track_tcp_connection(KeyOf(f), f.syn, f.ack, r)
               /\ \/ Accept(f, errors)
                  \/ Deliver(f, global_config)
    <3>1. PICK r \in CT!TrackResults :
               /\ CT!nanonet_track_tcp_connection(KeyOf(f), f.syn, f.ack, r)
               /\ \/ Accept(f, errors)
                  \/ Deliver(f, global_config)
      BY <2>1
    <3>2. CT!Next
      BY <3>1, <1>5
    <3>3. last' \in LastType
      <4>1. CASE Accept(f, errors)
        BY <4>1, <1>2 DEF Accept, Hooked
      <4>2. CASE Deliver(f, global_config)
        BY <4>2, <1>1, Zenon
      <4>3. QED
        BY <3>1, <4>1, <4>2
    <3>4. QED
      BY <3>2, <3>3, <1>4
  <2>2. CASE Accept(f, packets_bypassed) /\ UNCHANGED ctVars
    <3>1. last' \in LastType
      BY <2>2, <1>2 DEF Accept, Hooked
    <3>2. QED
      BY <2>2, <3>1, <1>4
  <2>3. CASE Deliver(f, global_config) /\ UNCHANGED ctVars
    <3>1. last' \in LastType
      BY <2>3, <1>1, Zenon
    <3>2. QED
      BY <2>3, <3>1, <1>4
  <2>4. QED
    BY <1>6, <2>1, <2>2, <2>3 DEF TransportStage
<1>7. CASE ~TransportStage(f, global_config)
  <2>1. last' = [frame |-> f, verdict |-> "ACCEPT", sent |-> FALSE] /\ UNCHANGED ctVars
    BY <1>7 DEF nanonet_hook, Accept, Hooked
  <2>2. QED
    BY <2>1, <1>2, <1>4
<1>8. QED
  BY <1>6, <1>7

(* The static initialiser of global_config is a configuration.            *)
LEMMA InitConfigType ==
  [ZeroConfig EXCEPT !.protocol = UDP] \in Config
<1>1. ZeroConfig \in Config
  BY ConstantsAssumption, Zenon DEF ZeroConfig, Config, Addr, PortVal
<1>2. QED
  BY <1>1 DEF Config, UDP

LEMMA CTTypeInit ==
  CT!Init => CT!TypeOK
<1>1. CT!Init = CTP!Init
  BY DEF CT!Init, CTP!Init
<1>2. CT!TypeOK = CTP!TypeOK
  BY DEF CT!TypeOK, CTP!TypeOK, CT!Flows, CTP!Flows, CT!Conn, CTP!Conn, CT!Key, CTP!Key,
     CT!SynSent, CTP!SynSent, CT!Established, CTP!Established, CT!IsFiniteSet, CTP!IsFiniteSet
<1>4. MaxCount \in Nat /\ \A k \in CTP!Key : Hash(k) \in Buckets
  BY ConstantsAssumption DEF CTP!Key
<1>3. QED
  BY <1>1, <1>2, <1>4, CTP!TypeInit

LEMMA TypeInit == Init => TypeOK
<1> SUFFICES ASSUME Init PROVE TypeOK
  OBVIOUS
<1>1. CT!TypeOK
  BY CTTypeInit DEF Init
<1>2. (CHOOSE f \in Frames : TRUE) \in Frames
  BY ConstantsAssumption
<1>3. last \in [frame : Frames, verdict : {"none", "ACCEPT", "STOLEN"}, sent : BOOLEAN]
  BY <1>2 DEF Init
<1>4. QED
  BY <1>1, <1>3, InitConfigType, ConstantsAssumption DEF Init, TypeOK

(* A hook invocation keeps the state typed.                               *)
LEMMA HookType ==
  ASSUME TypeOK, NEW f \in Frames, NEW elapsed \in BOOLEAN, nanonet_hook(f, elapsed)
  PROVE  TypeOK'
<1>1. Exit
  BY HookCounts
<1>2. /\ packets_processed' \in Nat /\ packets_bypassed' \in Nat /\ errors' \in Nat
      /\ handled' = handled + 1
  <2>1. CASE BypassExit
    BY <1>1, <2>1 DEF Exit, BypassExit, TypeOK
  <2>2. CASE ErrorExit
    BY <1>1, <2>2 DEF Exit, ErrorExit, TypeOK
  <2>3. CASE DeliverExit
    BY <1>1, <2>3 DEF Exit, DeliverExit, TypeOK
  <2>4. QED
    BY <1>1, <2>1, <2>2, <2>3 DEF Exit
<1>3. handled' \in 0..MaxFrames
  BY <1>2, ConstantsAssumption DEF nanonet_hook, TypeOK
<1>4. responses_sent' = responses_sent /\ global_config' = global_config
  BY HookKeepsResponses DEF nanonet_hook
<1>5. /\ last' \in LastType
      /\ rl_printed' \in 0..Burst
      /\ CT!Next \/ UNCHANGED ctVars
  BY HookShape
<1>6. CT!TypeOK'
  BY <1>5, CTTypeStep DEF TypeOK
<1>7. QED
  BY <1>2, <1>3, <1>4, <1>5, <1>6 DEF TypeOK, LastType

LEMMA TypeStep == TypeOK /\ [Next]_vars => TypeOK'
<1> SUFFICES ASSUME TypeOK, [Next]_vars PROVE TypeOK'
  OBVIOUS
<1>1. ASSUME NEW f \in Frames, NEW elapsed \in BOOLEAN, nanonet_hook(f, elapsed)
      PROVE  TypeOK'
  BY <1>1, HookType
<1>2. ASSUME NEW u \in UserConfigs, NEW n \in CopyLengths, SetConfig(u, n)
      PROVE  TypeOK'
  <2>1. CopiedConfig(u, n) \in Config
    BY CopiedConfigType, ConstantsAssumption
  <2>2. CT!TypeOK'
    BY <1>2, CTTypeStep DEF SetConfig, TypeOK
  <2>3. QED
    BY <1>2, <2>1, <2>2 DEF SetConfig, TypeOK
<1>3. CASE ResetStats
  <2>1. CT!TypeOK'
    BY <1>3, CTTypeStep DEF ResetStats, TypeOK, CT!Next
  <2>2. QED
    BY <1>3, <2>1, ConstantsAssumption DEF ResetStats, TypeOK
<1>4. CASE ClearConnections
  <2>1. CT!TypeOK'
    BY <1>4, CTTypeStep DEF ClearConnections, TypeOK, CT!Next
  <2>2. QED
    BY <1>4, <2>1 DEF ClearConnections, TypeOK
<1>5. CASE UNCHANGED vars
  <2>1. CT!TypeOK'
    BY <1>5, CTTypeStep DEF vars, ctVars, TypeOK
  <2>2. QED
    BY <1>5, <2>1 DEF vars, TypeOK
<1>6. QED
  BY <1>1, <1>2, <1>3, <1>4, <1>5 DEF Next

(* Every step of nanonet_hook and of the three ioctls keeps each variable *)
(* in its type: a SET_CONFIG that faults leaves a configuration, the rate *)
(* limiter's count stays within its burst, and handled within MaxFrames.  *)
THEOREM TypeCorrect == Spec => []TypeOK
BY TypeInit, TypeStep, PTL DEF Spec

=============================================================================
