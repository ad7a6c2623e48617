--------------------------- MODULE MCTopologyMap ---------------------------
(***************************************************************************)
(* A small instance of TopologyMap: a firewall, a switch and a router, in   *)
(* that order, with the API's answer before and after a link changed.       *)
(***************************************************************************)
EXTENDS TopologyMap

Three     == 1..3
ThreeTypes == [n \in Device |-> CASE n = 1 -> "firewall" [] n = 2 -> "switch" [] OTHER -> "router"]

Chain     == [nodes |-> Three, links |-> {<<1, 2>>, <<2, 3>>}]
Cut       == [nodes |-> Three, links |-> {<<2, 3>>}]
Removed   == [nodes |-> {1, 2}, links |-> {<<1, 2>>}]
Answers   == {Chain, Cut, Removed}
Traces    == {{}, {2, 3}}
=============================================================================
