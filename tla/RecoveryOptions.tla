-------------------------- MODULE RecoveryOptions --------------------------
(***************************************************************************)
(* What the pipeline computes of an order, without state: the risk score   *)
(* of risk.py, the counterfactual options of simulator.py, the selection   *)
(* of optimizer.py and the thresholds of policy.py and workflow.py.        *)
(*                                                                         *)
(* Money is in cents, a probability in basis points (the code rounds every *)
(* one it stores to four places), the delay of a scan in hundredths of an  *)
(* hour.                                                                   *)
(***************************************************************************)
EXTENDS Integers

Executable == {"REROUTE", "CARRIER_UPGRADE", "SPLIT_SHIPMENT"}
RecoveryActions == {"TAKE_NO_ACTION"} \cup Executable

One == 10000
Probability == 0 .. One

(* OrderContext with what its validators guarantee; alternative_location_id *)
(* is told by whether there is one.  failure_cost stands for the sum of     *)
(* cancellation_cost and support_cost, which is all that is used of them.   *)
OrderFields ==
  [order_id : STRING, data_freshness_minutes : Nat, restricted_product : BOOLEAN,
   hours_to_promise : Nat \ {0}, hours_since_expected_scan : Nat,
   inventory_reserved : BOOLEAN, inventory_available : BOOLEAN,
   inventory_confidence : Probability,
   gross_margin : Nat, failure_cost : Nat, cost : [Executable -> Nat],
   on_time_probability : [Executable -> Probability],
   carrier_on_time_probability : Probability,
   alternative_location_available : BOOLEAN,
   alternative_location_id : BOOLEAN, split_shipment_possible : BOOLEAN]

OrderContexts ==
  {o \in OrderFields :
     o.split_shipment_possible => o.on_time_probability.SPLIT_SHIPMENT > 0}

----------------------------------------------------------------------------
(* Rounding                                                                 *)

Smaller(a, b) == IF a < b THEN a ELSE b

Clipped(x, least, most) == IF x < least THEN least ELSE Smaller(x, most)

(* x units of 1/unit, rounded to whole ones, halves away from zero.         *)
Rounded(x, unit) ==
  IF x < 0 THEN - ((2 * (- x) + unit) \div (2 * unit))
           ELSE (2 * x + unit) \div (2 * unit)

----------------------------------------------------------------------------
(* DeterministicRiskScorer.score, summed in sixtieths of a basis point so   *)
(* that only the end result is rounded                                      *)

Sixtieths(points) == 60 * points

UnavailableStock(o) ==
  IF o.inventory_reserved /\ ~ o.inventory_available THEN Sixtieths(4500) ELSE 0

LowConfidence(o) ==
  IF o.inventory_confidence < 8000
  THEN Smaller(Sixtieths(1800), 36 * (8000 - o.inventory_confidence)) ELSE 0

MissingScan(o) ==
  IF o.hours_since_expected_scan >= 200
  THEN Smaller(Sixtieths(2500), 125 * o.hours_since_expected_scan) ELSE 0

TightWindow(o) == IF o.hours_to_promise <= 24 THEN Sixtieths(800) ELSE 0

failure_probability(o) ==
  LET sum == Sixtieths(One - o.carrier_on_time_probability) + UnavailableStock(o)
               + LowConfidence(o) + MissingScan(o) + TightWindow(o) IN
  Clipped(Rounded(sum, 60), 100, 9900)

Stale(o) == o.data_freshness_minutes > 15

(* The same for every option: the simulator takes the smaller of it and the *)
(* confidence in the inventory, which bounds it already.                    *)
confidence(o) ==
  LET most == Smaller(o.inventory_confidence, 9800) IN
  IF Stale(o) THEN Smaller(most, 4500) ELSE most

----------------------------------------------------------------------------
(* RecoverySimulator.simulate                                               *)

Feasible(o) ==
  {"TAKE_NO_ACTION", "CARRIER_UPGRADE"}
    \cup {a \in {"REROUTE"} :
            o.alternative_location_available /\ o.alternative_location_id}
    \cup {a \in {"SPLIT_SHIPMENT"} : o.split_shipment_possible}

intervention_cost(o, a) == IF a \in Executable THEN o.cost[a] ELSE 0

(* Mutant: the risk is taken for its complement.                            *)
RiskAsSuccess(o, a) ==
  IF a \in Executable THEN o.on_time_probability[a] ELSE failure_probability(o)

on_time_probability(o, a) ==
  IF a \in Executable THEN o.on_time_probability[a] ELSE One - failure_probability(o)

(* The margin and the cost of a failure are rounded before they are netted. *)
expected_net_value(o, a) ==
  LET success == on_time_probability(o, a) IN
  Rounded(o.gross_margin * success, One)
    - Rounded(o.failure_cost * (One - success), One) - intervention_cost(o, a)

----------------------------------------------------------------------------
(* DecisionOptimizer.select: the highest value, ties by a fixed priority    *)

Priority == [TAKE_NO_ACTION |-> 0, REROUTE |-> 1, CARRIER_UPGRADE |-> 2,
             SPLIT_SHIPMENT |-> 3]

(* Mutant: the priority is not negated.                                     *)
OutranksByPriority(value, a, b) ==
  \/ value[a] > value[b]
  \/ value[a] = value[b] /\ Priority[a] > Priority[b]

Outranks(value, a, b) ==
  \/ value[a] > value[b]
  \/ value[a] = value[b] /\ Priority[a] < Priority[b]

Values(o) == [a \in Feasible(o) |-> expected_net_value(o, a)]

Selection(o) ==
  LET value == Values(o) IN
  CHOOSE a \in Feasible(o) : \A b \in Feasible(o) \ {a} : Outranks(value, a, b)

incremental_value(o, a) == expected_net_value(o, a) - expected_net_value(o, "TAKE_NO_ACTION")

----------------------------------------------------------------------------
(* Thresholds                                                               *)

(* The conditions of PolicyGateway for an action on its own; every option   *)
(* of the simulator is reversible.                                          *)
Bounded(o, a) ==
  /\ intervention_cost(o, a) <= 1000
  /\ incremental_value(o, a) >= 500
  /\ confidence(o) >= 8500

(* The delegated cost limit of an analyst                                   *)
Delegated(o, a) == intervention_cost(o, a) <= 2000
=============================================================================
