---------------------- MODULE MCAutonomyTransactions ----------------------
(* Two threads, two decisions for one action, promotion after one success.  *)
EXTENDS AutonomyTransactions, TLC

CONSTANTS d1, d2, reroute, t1, t2, t3

MCDecisions == {d1, d2}
MCActions == {reroute}
MCActionOf == [d \in MCDecisions |-> reroute]
MCCallers == {t1, t2}
MCThreeCallers == {t1, t2, t3}
CallerSymmetry == Permutations(MCThreeCallers)
=============================================================================
