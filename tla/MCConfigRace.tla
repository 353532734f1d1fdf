---------------------------- MODULE MCConfigRace ----------------------------
(* One hook CPU, two endpoints that differ in every field the hook reads, *)
(* and frames addressed to each of them.                                  *)
EXTENDS ConfigRace

CONSTANTS c1, t, u, zero, p, q, zport

MCAddr == {t, u, zero}
MCPorts == {p, q, zport}

(* A TCP endpoint t:p with the market-data handler, and a UDP endpoint    *)
(* u:q that also listens on the multicast group t with an unknown handler *)
(* type.                                                                  *)
MCUserConfigs ==
  { [enabled |-> TRUE, target_ip |-> t, target_port |-> p, protocol |-> TCP,
     application_logic_type |-> 0, multicast |-> FALSE, multicast_group |-> zero],
    [enabled |-> TRUE, target_ip |-> u, target_port |-> q, protocol |-> UDP,
     application_logic_type |-> 1, multicast |-> TRUE, multicast_group |-> t] }

MCFrames ==
  { [daddr |-> t, proto |-> TCP, dport |-> p],
    [daddr |-> t, proto |-> UDP, dport |-> p],
    [daddr |-> u, proto |-> UDP, dport |-> q] }
=============================================================================
