--------------------------- MODULE MCLatencyStats ---------------------------
(* The constants of the TLC runs of LatencyStats.                         *)
EXTENDS LatencyStats

CONSTANTS c1, c2

(* A uniprocessor, and a machine with two CPUs.                           *)
MCOneCPU == {c1}
MCTwoCPUs == {c1, c2}

=============================================================================
