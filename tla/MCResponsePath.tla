--------------------------- MODULE MCResponsePath ---------------------------
(* Two CPUs, a pool of three skbs (two served before misses start) and    *)
(* two skbs alloc_skb can return, so that both sources of an skb and the  *)
(* fallback's exhaustion are reached within four sends.                   *)
EXTENDS ResponsePath

CONSTANTS c1, c2

MCCPUs == {c1, c2}
=============================================================================
