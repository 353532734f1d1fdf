---------------------------- MODULE MCPipeline ----------------------------
(***************************************************************************)
(* A target t, a host h, ports p and q and two buckets.  Fields the hook     *)
(* never reads on a frame's path are fixed (a frame without a device or   *)
(* that fails to parse carries default headers; a UDP datagram no TCP     *)
(* flags), which leaves every path of nanonet_hook reachable.             *)
(***************************************************************************)
EXTENDS Pipeline

CONSTANTS t, h, p, q, zero, zport

MCIPs == {t, h}
MCPorts == {p, q}
MCBuckets == {0, 1}
MCHash(k) == IF k.src_ip = h THEN 0 ELSE 1

Base == [enabled |-> TRUE, target_ip |-> t, target_port |-> p, protocol |-> UDP,
         response_ip |-> h, response_port |-> p, application_logic_type |-> 0,
         multicast |-> FALSE, multicast_group |-> zero]

(* A UDP and a TCP endpoint, a multicast one, one with a zero response   *)
(* address that nanonet_validate_config rejects, an unknown handler type *)
(* and a disabled one.                                                    *)
MCUserConfigs ==
  { Base,
    [Base EXCEPT !.protocol = TCP],
    [Base EXCEPT !.multicast = TRUE, !.multicast_group = h],
    [Base EXCEPT !.protocol = TCP, !.response_ip = zero],
    [Base EXCEPT !.application_logic_type = 1],
    [Base EXCEPT !.enabled = FALSE] }

Canonical(f) ==
  /\ (~f.dev \/ f.parse # "ok") =>
        f = [f EXCEPT !.proto = UDP, !.saddr = h, !.daddr = t, !.syn = FALSE,
                      !.ack = FALSE, !.tot_len_ok = TRUE, !.payload = "none"]
  /\ f.proto = UDP => ~f.syn /\ ~f.ack

MCFrames == {f \in Frame : Canonical(f)}

(***************************************************************************)
(* A hand-picked set of frames that still takes every exit of the hook:   *)
(* no device, malformed, unsupported, bad shape, zero source, off-target, *)
(* off-port, each TCP flag combination the tracker tells apart and each   *)
(* payload class of the market-data handler, and the target's SYN-ACK    *)
(* answering a SYN of h.                                                 *)
(***************************************************************************)
Fr(proto, s, d, dp, syn, ack, pl) ==
  [dev |-> TRUE, parse |-> "ok", proto |-> proto, saddr |-> s, daddr |-> d,
   sport |-> p, dport |-> dp, syn |-> syn, ack |-> ack, tot_len_ok |-> TRUE,
   payload |-> pl]

Default == Fr(UDP, h, t, p, FALSE, FALSE, "none")

MCSmallFrames ==
  { [Default EXCEPT !.dev = FALSE],
    [Default EXCEPT !.parse = "malformed"],
    [Default EXCEPT !.parse = "unsupported"],
    [Default EXCEPT !.tot_len_ok = FALSE],
    Fr(UDP, zero, t, p, FALSE, FALSE, "below"),
    Fr(UDP, h, h, p, FALSE, FALSE, "below"),
    Fr(UDP, h, t, q, FALSE, FALSE, "below"),
    Fr(UDP, h, t, p, FALSE, FALSE, "below"),
    Fr(UDP, h, t, p, FALSE, FALSE, "above"),
    Fr(UDP, h, t, p, FALSE, FALSE, "short"),
    Default,
    Fr(TCP, h, t, p, TRUE, FALSE, "below"),
    Fr(TCP, h, t, p, TRUE, TRUE, "none"),
    Fr(TCP, h, t, p, FALSE, TRUE, "below"),
    Fr(TCP, h, t, q, TRUE, FALSE, "none"),
    Fr(TCP, t, h, p, TRUE, TRUE, "none") }
=============================================================================
