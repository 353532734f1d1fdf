--------------------------- MODULE MCConnTracker ---------------------------
(* Two addresses, one port and two buckets: four keys, two of which share *)
(* each bucket, so chains hold colliding flows.                           *)
EXTENDS ConnTracker

CONSTANTS a, t, p

MCIPs == {a, t}
MCPorts == {p}
MCBuckets == {0, 1}
MCHash(k) == IF k.src_ip = a THEN 0 ELSE 1
=============================================================================
