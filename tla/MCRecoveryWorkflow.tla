------------------------ MODULE MCRecoveryWorkflow ------------------------
(* A small instance of RecoveryWorkflow: an event that is worth a reroute;  *)
(* a second version of it, from another source, about another order, with a *)
(* restricted product; and a replay of the first version with another       *)
(* payload, in which the reroute gains exactly nothing.                     *)
EXTENDS SyntheticBacktest, TLC

CONSTANTS t1, t2, oms, marketplace, first, restricted, conflicting,
          analyst, manager

MCThreads == {t1, t2}
SymmetricThreads == Permutations(MCThreads)

Directory == [a \in {analyst, manager} |->
                IF a = analyst THEN "OPERATIONS_ANALYST" ELSE "OPERATIONS_MANAGER"]
LocalIdentity == INSTANCE Identity WITH Actors <- {analyst, manager}, Strict <- TRUE
MCMayClaim == LocalIdentity!ClaimableRoles

FirstOrder ==
  [order_id |-> "order-1", data_freshness_minutes |-> 5,
   restricted_product |-> FALSE,
   hours_to_promise |-> 48, hours_since_expected_scan |-> 1500,
   inventory_reserved |-> TRUE, inventory_available |-> FALSE,
   inventory_confidence |-> 9500, gross_margin |-> 6001, failure_cost |-> 2500,
   cost |-> [REROUTE |-> 800, CARRIER_UPGRADE |-> 1500, SPLIT_SHIPMENT |-> 0],
   on_time_probability |->
     [REROUTE |-> 9000, CARRIER_UPGRADE |-> 7000, SPLIT_SHIPMENT |-> 0],
   carrier_on_time_probability |-> 8900,
   alternative_location_available |-> TRUE, alternative_location_id |-> TRUE,
   split_shipment_possible |-> FALSE]

RestrictedOrder ==
  [FirstOrder EXCEPT !.order_id = "order-2", !.restricted_product = TRUE]

TiedOrder ==
  [FirstOrder EXCEPT !.inventory_available = TRUE, !.hours_since_expected_scan = 0,
     !.carrier_on_time_probability = 9000, !.cost.REROUTE = 0]

First == [source |-> oms, event |-> "e1", version |-> 1,
          mode |-> "BOUNDED_AUTONOMY", order |-> FirstOrder]

MCPayload ==
  first :> First
  @@ restricted :> [First EXCEPT !.source = marketplace, !.version = 2,
                                 !.order = RestrictedOrder]
  @@ conflicting :> [First EXCEPT !.order = TiedOrder]
============================================================================
