------------------------ MODULE MCOutcomeVerification ------------------------
(* A small instance of OutcomeVerification: one gateway thread and two      *)
(* verifiers, on a decision of any action class.                            *)
EXTENDS OutcomeVerification, TLC

CONSTANTS t1, v1, v2, d1, d2, d3, o1, here, there, standard, express, alice

MCThreads == {t1}
MCRequesters == {alice}
MCRequestedBy == [t \in MCThreads |-> alice]
MCVerifiers == {v1, v2}
VerifierSymmetry == Permutations(MCVerifiers)
MCOrders == {o1}
MCLocations == {here, there}
MCServices == {standard, express}

ContextOf(order, action) ==
  [order |-> order, action |-> action,
   current_fulfilment_location |-> here,
   alternative_location_id |-> there,
   current_carrier_service |-> standard,
   upgraded_carrier_service |-> express]

MCDecisions == {d1, d2, d3}
MCContext == [d \in MCDecisions |-> ContextOf(o1,
  CASE d = d1 -> "REROUTE" [] d = d2 -> "CARRIER_UPGRADE" [] d = d3 -> "SPLIT_SHIPMENT")]
=============================================================================
