------------------------ MODULE MCAutonomyControls ------------------------
(* A small instance of AutonomyControls: two decisions for one action and  *)
(* one for another, promotion after two consecutive successes.              *)
EXTENDS AutonomyControls

CONSTANTS d1, d2, d3, reroute, split

MCDecisions == {d1, d2, d3}
MCActions == {reroute, split}
MCActionOf == [d \in MCDecisions |-> IF d = d3 THEN split ELSE reroute]
=============================================================================
