------------------------- MODULE SyntheticBacktest -------------------------
(***************************************************************************)
(* The value of what the pipeline selects, measured against a synthetic    *)
(* truth: the counterfactual outcomes of synthetic.py and the comparison   *)
(* of value_evaluation.py, for the decisions of the ledger.                *)
(*                                                                         *)
(* The truth of an order differs from what the pipeline assumes of it in   *)
(* one thing, the probability that it fails when it is left alone.         *)
(***************************************************************************)
EXTENDS RecoveryWorkflow

(* _one: signals weigh otherwise than the risk score believes.              *)
true_failure_probability(o) ==
  LET unavailable == IF o.inventory_reserved /\ ~ o.inventory_available
                     THEN Sixtieths(4800) ELSE 0
      inventory == IF o.inventory_confidence < 7800
                   THEN 33 * (7800 - o.inventory_confidence) ELSE 0
      scan == Smaller(Sixtieths(2500), 150 * o.hours_since_expected_scan)
      window == IF o.hours_to_promise <= 18 THEN Sixtieths(900) ELSE 0
      sum == Sixtieths(One - o.carrier_on_time_probability)
               + unavailable + inventory + scan + window IN
  Clipped(Rounded(sum, 60), 100, 9900)

_ground_truth_probability(o, a) ==
  IF a \in Executable THEN o.on_time_probability[a]
                      ELSE Clipped(One - true_failure_probability(o), 100, 9900)

(* Rounded once, where the simulator rounds two amounts and nets them.      *)
_ground_truth_value(o, a) ==
  LET success == _ground_truth_probability(o, a) IN
  Rounded(o.gross_margin * success - o.failure_cost * (One - success)
            - One * intervention_cost(o, a), One)

TrulyFeasible(o) ==
  {"TAKE_NO_ACTION", "CARRIER_UPGRADE"}
    \cup {a \in {"REROUTE"} : o.alternative_location_available}
    \cup {a \in {"SPLIT_SHIPMENT"} : o.split_shipment_possible}

(* Ties go to the last action in the order of the alphabet.                 *)
Alphabet == [CARRIER_UPGRADE |-> 1, REROUTE |-> 2, SPLIT_SHIPMENT |-> 3,
             TAKE_NO_ACTION |-> 4]

_optimal_action(o) ==
  LET value == [a \in TrulyFeasible(o) |-> _ground_truth_value(o, a)] IN
  CHOOSE a \in TrulyFeasible(o) :
    \A b \in TrulyFeasible(o) \ {a} :
      \/ value[a] > value[b]
      \/ value[a] = value[b] /\ Alphabet[a] > Alphabet[b]

Larger(a, b) == IF a > b THEN a ELSE b

Regret(o) ==
  Larger(0, _ground_truth_value(o, _optimal_action(o))
              - _ground_truth_value(o, Selection(o)))

----------------------------------------------------------------------------
(* Properties                                                               *)

Distance(a, b) == Larger(a - b, b - a)

RiskError(o) ==
  Distance(One - failure_probability(o), _ground_truth_probability(o, "TAKE_NO_ACTION"))

(* An order whose reroute has a location, or is not offered at all.         *)
Generated(o) == o.alternative_location_available <=> o.alternative_location_id

RegretBounded(o) ==
  Generated(o) =>
    One * Regret(o) <= RiskError(o) * (o.gross_margin + o.failure_cost) + 3 * One

BoundedRegret == {r \in Requests : RegretBounded(Payload[r].order)}

(* What a decision loses against the best one is what the risk score gets   *)
(* wrong, times what is at stake in the order, and never more than three    *)
(* cents beside: the simulator rounds otherwise than the truth, and both    *)
(* break ties in their own way (simulate, select, _optimal_action).         *)
RegretIsRiskError == \A d \in ledger : d.request \in BoundedRegret
=============================================================================
