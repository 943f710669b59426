-------------------------- MODULE MCActionGateway --------------------------
(* Small instances of ActionGateway.  MCContext has a reroute and two       *)
(* decisions to upgrade the carrier of one order; RetryContext, for the     *)
(* runs with two threads of one requester, a reroute and a split shipment.  *)
EXTENDS ActionGateway, TLC

CONSTANTS t1, t2, d1, d2, d3, o1, o2, here, there, standard,
          express, alice, bob

MCThreads == {t1, t2}
MCRequesters == {alice, bob}
MCRequestedBy == [t \in MCThreads |-> IF t = t1 THEN alice ELSE bob]
SameRequester == [t \in MCThreads |-> alice]
MCOrders == {o1, o2}
MCLocations == {here, there}
MCServices == {standard, express}

ContextOf(order, action) ==
  [order |-> order, action |-> action,
   current_fulfilment_location |-> here,
   alternative_location_id |-> there,
   current_carrier_service |-> standard,
   upgraded_carrier_service |-> express]

MCDecisions == {d1, d2, d3}
MCContext == [d \in MCDecisions |->
  CASE d = d1 -> ContextOf(o1, "REROUTE")
    [] d = d2 -> ContextOf(o2, "CARRIER_UPGRADE")
    [] d = d3 -> ContextOf(o2, "CARRIER_UPGRADE")]

RetryDecisions == {d1, d2}
RetryContext ==
  [d \in RetryDecisions |->
     IF d = d1 THEN MCContext[d1] ELSE ContextOf(o2, "SPLIT_SHIPMENT")]
=============================================================================
