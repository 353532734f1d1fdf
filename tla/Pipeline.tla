------------------------------ MODULE Pipeline ------------------------------
(***************************************************************************)
(* The ingress fast path of src/src/nanonet.c (nanonet_hook) with the     *)
(* components it calls, and the control ioctls of control_interface.c     *)
(* that change what it sees.                                              *)
(*                                                                         *)
(* One hook invocation is one step: everything it touches is either an    *)
(* atomic64 counter, the flow table under conn_hash_lock, or global       *)
(* configuration that no other hook writes in this model (the races on    *)
(* the latency scalars and on seq_num are the subject of their own        *)
(* modules).  A frame is abstracted to the fields the hook and its callees *)
(* branch on; the byte-level parser, the validator's tot_len test and the *)
(* payload decoding are reduced to the outcome they produce (parse,       *)
(* tot_len_ok, payload).                                                  *)
(***************************************************************************)
EXTENDS Integers, FiniteSets, Sequences

CONSTANTS
  IPs,          \* non-zero IPv4 addresses (model values)
  ZeroIP,       \* the address 0.0.0.0
  Ports,        \* non-zero port numbers (model values)
  ZeroPort,     \* port 0
  Buckets,      \* indices of connection_hash
  Hash(_),      \* its hash function
  UserConfigs,  \* the struct ull_config values a SET_CONFIG caller passes
  Frames,       \* the frames that arrive (a subset of Frame)
  CopyLengths,  \* numbers of leading fields copy_from_user may copy
  Burst,        \* burst of nanonet_ratelimit (20 in the code)
  MaxFrames,    \* bound on hook invocations between two RESET_STATS
  MaxCount      \* bound on connections_dropped

TCP == 6
UDP == 17

Addr == IPs \cup {ZeroIP}
PortVal == Ports \cup {ZeroPort}

(* Errno values the callees return (negated in the code).                 *)
EINVAL == -22
ENOMEM == -12
EIO == -5

(***************************************************************************)
(* A received frame: whether skb->dev is set, what ull_parse_packet       *)
(* returns for it, and the header fields read after a successful parse.   *)
(* payload is what the market-data handler makes of the payload: none    *)
(* (payload_len 0), short (fewer bytes than struct market_data), or a     *)
(* price that the code reads below or at/above its 10000 threshold.       *)
(***************************************************************************)
ParseResults == {"ok", "malformed", "unsupported"}
PayloadKinds == {"none", "short", "below", "above"}

Frame == [dev : BOOLEAN, parse : ParseResults, proto : {TCP, UDP},
          saddr : Addr, daddr : IPs, sport : Ports, dport : Ports,
          syn : BOOLEAN, ack : BOOLEAN, tot_len_ok : BOOLEAN,
          payload : PayloadKinds]

(***************************************************************************)
(* struct ull_config without seq_num (read only when a TCP response is    *)
(* built, and the subject of ResponsePath).  ConfigFields lists the       *)
(* fields in declaration order: copy_from_user copies a prefix of the     *)
(* struct and zero-fills the rest when it faults.                         *)
(***************************************************************************)
Config == [enabled : BOOLEAN, target_ip : Addr, target_port : PortVal,
           protocol : Nat, response_ip : Addr, response_port : PortVal,
           application_logic_type : Nat, multicast : BOOLEAN,
           multicast_group : Addr]

ConfigFields == <<"enabled", "target_ip", "target_port", "protocol",
                  "response_ip", "response_port", "application_logic_type",
                  "multicast", "multicast_group">>

ZeroConfig == [enabled |-> FALSE, target_ip |-> ZeroIP, target_port |-> ZeroPort,
               protocol |-> 0, response_ip |-> ZeroIP, response_port |-> ZeroPort,
               application_logic_type |-> 0, multicast |-> FALSE,
               multicast_group |-> ZeroIP]

ASSUME ConstantsAssumption ==
  /\ ZeroIP \notin IPs
  /\ ZeroPort \notin Ports
  /\ UserConfigs \subseteq Config
  /\ Frames \subseteq Frame /\ Frames # {}
  /\ CopyLengths \subseteq 0..Len(ConfigFields)
  /\ Burst \in Nat \ {0}
  /\ MaxFrames \in Nat
  /\ MaxCount \in Nat
  /\ \A k \in [src_ip : Addr, dst_ip : Addr, src_port : Ports, dst_port : Ports] :
       Hash(k) \in Buckets

VARIABLES
  global_config,       \* struct ull_config global_config
  packets_processed,   \* the atomic64 counters of global_stats
  packets_bypassed,
  responses_sent,
  errors,
  connection_hash,     \* the flow table (ConnTracker)
  connections_active,
  connections_dropped,
  rl_printed,          \* nanonet_ratelimit.printed: calls admitted in the window
  handled,             \* history: hook invocations since the last RESET_STATS
  last                 \* history: the last frame hooked and what became of it

vars == <<global_config, packets_processed, packets_bypassed, responses_sent,
          errors, connection_hash, connections_active, connections_dropped,
          rl_printed, handled, last>>

ctVars == <<connection_hash, connections_active, connections_dropped>>

CT == INSTANCE ConnTracker WITH IPs <- Addr

-----------------------------------------------------------------------------
(***************************************************************************)
(* __ratelimit(&nanonet_ratelimit): a window of 5*HZ admitting Burst      *)
(* calls.  elapsed says whether the window has expired before this call,  *)
(* which restarts it.                                                     *)
(***************************************************************************)
RateLimitAdmits(elapsed) == elapsed \/ rl_printed < Burst

(* Variant: the window admits one call more than its burst.               *)
RateLimitAfterOffByOne(elapsed) ==
  LET p == IF elapsed THEN 0 ELSE rl_printed
  IN  IF p <= Burst THEN p + 1 ELSE p

RateLimitAfter(elapsed) ==
  LET p == IF elapsed THEN 0 ELSE rl_printed
  IN  IF p < Burst THEN p + 1 ELSE p

(* nanonet_validate_packet without the rate limit: zero source or a       *)
(* tot_len the code reads as shorter than an IPv4 header.                 *)
PacketShapeOK(f) == f.saddr # ZeroIP /\ f.tot_len_ok

(* The destination test of lines 92-93.                                   *)
ForTarget(f, cfg) ==
  \/ f.daddr = cfg.target_ip
  \/ cfg.multicast /\ f.daddr = cfg.multicast_group

(* The 4-tuple nanonet_track_tcp_connection is called with.               *)
KeyOf(f) == [src_ip |-> f.saddr, dst_ip |-> f.daddr,
             src_port |-> f.sport, dst_port |-> f.dport]

(***************************************************************************)
(* process_market_data (packet_processor.c): the value it returns for a   *)
(* payload; below the threshold it allocates the order with kmalloc,      *)
(* which may fail.                                                        *)
(***************************************************************************)
process_market_data(payload) ==
  CASE payload = "short" -> {EINVAL}
    [] payload = "above" -> {0}
    [] payload = "below" -> {1, ENOMEM}

(***************************************************************************)
(* The results nanonet_send_response(NULL, order, len, cfg) can return.   *)
(* nanonet_create_response_packet fails (-ENOMEM) when response_ip or     *)
(* response_port is zero or the protocol is neither TCP nor UDP, and may  *)
(* fail when the pool is empty and alloc_skb fails or when "eth0" cannot  *)
(* be looked up; dev_queue_xmit may fail (-EIO); success returns 0.       *)
(***************************************************************************)
CanBuildResponse(cfg) ==
  /\ cfg.response_ip # ZeroIP
  /\ cfg.response_port # ZeroPort
  /\ cfg.protocol \in {TCP, UDP}

nanonet_send_response(cfg) ==
  {ENOMEM} \cup (IF CanBuildResponse(cfg) THEN {0, EIO} ELSE {})

(***************************************************************************)
(* nanonet_process_application_logic: pairs <<result, sent>> of the value *)
(* it returns and whether a response frame went onto the wire.  A         *)
(* positive handler result is replaced by what nanonet_send_response      *)
(* returns.                                                               *)
(***************************************************************************)
nanonet_process_application_logic(f, cfg) ==
  IF f.payload = "none" THEN {<<0, FALSE>>}
  ELSE IF cfg.application_logic_type # 0 THEN {<<EINVAL, FALSE>>}
  ELSE { <<r, FALSE>> : r \in process_market_data(f.payload) \ {1} }
       \cup (IF 1 \in process_market_data(f.payload)
               THEN { <<s, s = 0>> : s \in nanonet_send_response(cfg) }
               ELSE {})

-----------------------------------------------------------------------------
Init ==
  /\ global_config = [ZeroConfig EXCEPT !.protocol = UDP]
  /\ packets_processed = 0
  /\ packets_bypassed = 0
  /\ responses_sent = 0
  /\ errors = 0
  /\ CT!Init
  /\ rl_printed = 0
  /\ handled = 0
  /\ last = [frame |-> CHOOSE f \in Frames : TRUE, verdict |-> "none", sent |-> FALSE]

(* The record of a hook invocation that returned verdict v.               *)
Hooked(f, v, sent) ==
  /\ handled' = handled + 1
  /\ last' = [frame |-> f, verdict |-> v, sent |-> sent]

(* Variant: an exit of the hook that returns without its atomic64_inc.   *)
AcceptUncounted(f, counter) ==
  /\ counter' = counter
  /\ Hooked(f, "ACCEPT", FALSE)

(* A bypass or error exit of the hook that bumps one counter.             *)
Accept(f, counter) ==
  /\ counter' = counter + 1
  /\ Hooked(f, "ACCEPT", FALSE)

(* Variant: a failing handler hands the frame back after counting it.     *)
DeliverAcceptOnError(f, cfg) ==
  \E out \in nanonet_process_application_logic(f, cfg) :
    /\ errors' = IF out[1] < 0 THEN errors + 1 ELSE errors
    /\ responses_sent' = IF out[1] > 0 THEN responses_sent + 1 ELSE responses_sent
    /\ packets_processed' = packets_processed + 1
    /\ Hooked(f, IF out[1] < 0 THEN "ACCEPT" ELSE "STOLEN", out[2])
    /\ UNCHANGED packets_bypassed

(***************************************************************************)
(* Lines 115-123: the application handler runs, its result bumps errors  *)
(* (negative) or responses_sent (positive), and the frame is counted      *)
(* processed and stolen.                                                  *)
(***************************************************************************)
Deliver(f, cfg) ==
  \E out \in nanonet_process_application_logic(f, cfg) :
    /\ errors' = IF out[1] < 0 THEN errors + 1 ELSE errors
    /\ responses_sent' = IF out[1] > 0 THEN responses_sent + 1 ELSE responses_sent
    /\ packets_processed' = packets_processed + 1
    /\ Hooked(f, "STOLEN", out[2])
    /\ UNCHANGED packets_bypassed

(***************************************************************************)
(* Lines 98-113: a TCP segment under a TCP configuration must be for the  *)
(* target port and is tracked; a UDP datagram under a UDP configuration   *)
(* must be for the target port; any other frame goes on to the handler.   *)
(***************************************************************************)
TransportStage(f, cfg) ==
  LET tcp == cfg.protocol = TCP /\ f.proto = TCP
      udp == cfg.protocol = UDP /\ f.proto = UDP
  IN
  \/ /\ tcp \/ udp
     /\ f.dport # cfg.target_port
     /\ Accept(f, packets_bypassed)
     /\ UNCHANGED <<packets_processed, responses_sent, errors, ctVars>>
  \/ /\ tcp
     /\ f.dport = cfg.target_port
     /\ \E r \in CT!TrackResults :
          /\ CT!nanonet_track_tcp_connection(KeyOf(f), f.syn, f.ack, r)
          /\ \/ /\ r # "ok"
                /\ Accept(f, errors)
                /\ UNCHANGED <<packets_processed, packets_bypassed, responses_sent>>
             \/ /\ r = "ok"
                /\ Deliver(f, cfg)
  \/ /\ udp
     /\ f.dport = cfg.target_port
     /\ Deliver(f, cfg)
     /\ UNCHANGED ctVars
  \/ /\ ~tcp /\ ~udp
     /\ Deliver(f, cfg)
     /\ UNCHANGED ctVars

(***************************************************************************)
(* nanonet_hook for frame f, from the enabled test of line 73 to the      *)
(* NF_STOLEN return.  elapsed tells the rate limiter whether its window   *)
(* has run out; the latency bookkeeping of lines 125-141 writes nothing   *)
(* this module keeps.                                                     *)
(***************************************************************************)
nanonet_hook(f, elapsed) ==
  LET cfg == global_config IN
  /\ handled < MaxFrames
  /\ UNCHANGED global_config
  /\ \/ /\ ~cfg.enabled \/ ~f.dev
        /\ Accept(f, packets_bypassed)
        /\ UNCHANGED <<packets_processed, responses_sent, errors, ctVars,
                       rl_printed>>
     \/ /\ cfg.enabled /\ f.dev
        /\ f.parse # "ok"
        /\ Accept(f, errors)
        /\ UNCHANGED <<packets_processed, packets_bypassed, responses_sent,
                       ctVars, rl_printed>>
     \/ /\ cfg.enabled /\ f.dev
        /\ f.parse = "ok"
        /\ rl_printed' = RateLimitAfter(elapsed)
        /\ \/ /\ ~(RateLimitAdmits(elapsed) /\ PacketShapeOK(f))
              /\ Accept(f, errors)
              /\ UNCHANGED <<packets_processed, packets_bypassed,
                             responses_sent, ctVars>>
           \/ /\ RateLimitAdmits(elapsed) /\ PacketShapeOK(f)
              /\ ~ForTarget(f, cfg)
              /\ Accept(f, packets_bypassed)
              /\ UNCHANGED <<packets_processed, responses_sent, errors, ctVars>>
           \/ /\ RateLimitAdmits(elapsed) /\ PacketShapeOK(f)
              /\ ForTarget(f, cfg)
              /\ TransportStage(f, cfg)

(***************************************************************************)
(* nanonet_validate_config (security.c).                                  *)
(***************************************************************************)
nanonet_validate_config(cfg) ==
  /\ cfg.target_ip # ZeroIP
  /\ cfg.response_ip # ZeroIP
  /\ cfg.target_port # ZeroPort
  /\ cfg.response_port # ZeroPort
  /\ cfg.protocol \in {TCP, UDP}
  /\ cfg.multicast => cfg.multicast_group # ZeroIP

(* What copy_from_user leaves in global_config when it copies the first   *)
(* n fields of u: the rest of the struct is zero-filled.                  *)
CopiedConfig(u, n) ==
  [fld \in DOMAIN u |->
     IF \E i \in 1..n : ConfigFields[i] = fld THEN u[fld] ELSE ZeroConfig[fld]]

(***************************************************************************)
(* The SET_CONFIG ioctl with argument u.  copy_from_user writes straight  *)
(* into global_config: in full, or, when the user buffer faults, a prefix *)
(* of n fields and zeros behind it (-EFAULT).  nanonet_validate_config is *)
(* applied to what was copied and its verdict is only returned; the       *)
(* struct stays as copied either way.                                     *)
(***************************************************************************)
SetConfig(u, n) ==
  /\ global_config' = CopiedConfig(u, n)
  /\ UNCHANGED <<packets_processed, packets_bypassed, responses_sent, errors,
                 ctVars, rl_printed, handled, last>>

(***************************************************************************)
(* The RESET_STATS ioctl: every counter of global_stats, the two flow     *)
(* gauges included, is set to 0 (the latency scalars are LatencyStats').  *)
(***************************************************************************)
ResetStats ==
  /\ packets_processed' = 0
  /\ packets_bypassed' = 0
  /\ responses_sent' = 0
  /\ errors' = 0
  /\ CT!ResetConnectionStats
  /\ handled' = 0
  /\ UNCHANGED <<global_config, rl_printed, last>>

(* The CLEAR_CONNECTIONS ioctl.                                           *)
ClearConnections ==
  /\ CT!nanonet_clear_tcp_connections
  /\ UNCHANGED <<global_config, packets_processed, packets_bypassed,
                 responses_sent, errors, rl_printed, handled, last>>

Next ==
  \/ \E f \in Frames, elapsed \in BOOLEAN : nanonet_hook(f, elapsed)
  \/ \E u \in UserConfigs, n \in CopyLengths : SetConfig(u, n)
  \/ ResetStats
  \/ ClearConnections

Spec == Init /\ [][Next]_vars

-----------------------------------------------------------------------------
TypeOK ==
  /\ global_config \in Config
  /\ packets_processed \in Nat
  /\ packets_bypassed \in Nat
  /\ responses_sent \in Nat
  /\ errors \in Nat
  /\ CT!TypeOK
  /\ rl_printed \in 0..Burst
  /\ handled \in 0..MaxFrames
  /\ last \in [frame : Frames, verdict : {"none", "ACCEPT", "STOLEN"}, sent : BOOLEAN]

(* A step that is a hook invocation.                                      *)
HookStep == handled' = handled + 1

(***************************************************************************)
(* The endpoint of spec section 1 and property 8.2: the configured target *)
(* address or multicast group, the configured port and the configured     *)
(* transport protocol.                                                    *)
(***************************************************************************)
OnEndpoint(f, cfg) ==
  /\ ForTarget(f, cfg)
  /\ f.proto = cfg.protocol
  /\ f.dport = cfg.target_port

(***************************************************************************)
(* Every hooked frame is counted exactly once by packets_processed or     *)
(* packets_bypassed, or else by errors: none is counted in both of the    *)
(* first two and none escapes all three.  Each exit path of nanonet_hook  *)
(* must bump the right counter before returning.                          *)
(***************************************************************************)
FrameAccountingBounds ==
  /\ packets_processed + packets_bypassed <= handled
  /\ handled <= packets_processed + packets_bypassed + errors

(***************************************************************************)
(* The hook steals a frame (NF_STOLEN, the core keeps the skb) exactly    *)
(* when it counts it processed; every other exit hands it back with       *)
(* NF_ACCEPT.                                                             *)
(***************************************************************************)
StolenIffProcessed ==
  [][HookStep =>
       (last'.verdict = "STOLEN" <=> packets_processed' = packets_processed + 1)]_vars

(***************************************************************************)
(* Spec property 8.2: a frame that does not match the configured endpoint *)
(* never causes a response.                                               *)
(***************************************************************************)
NoResponseOffEndpoint ==
  [][HookStep /\ last'.sent => OnEndpoint(last'.frame, global_config)]_vars

(***************************************************************************)
(* Spec sections 3 and 6: while the fast path is enabled the published    *)
(* configuration satisfies nanonet_validate_config; SET_CONFIG rejects an *)
(* invalid one.                                                           *)
(***************************************************************************)
ConfigValidWhenEnabled ==
  global_config.enabled => nanonet_validate_config(global_config)

(* The state without the history variable last, which no action reads.  *)
StateView == <<global_config, packets_processed, packets_bypassed, responses_sent,
               errors, ctVars, rl_printed, handled>>

=============================================================================
