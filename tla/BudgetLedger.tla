---------------------------- MODULE BudgetLedger ----------------------------
(***************************************************************************)
(* What the OpenAI budget promises, told by the run rows alone: a run is   *)
(* reserved only if everything spent or reserved so far leaves room for    *)
(* it, it is settled once, for no more than was reserved, and the limit is *)
(* never set below what is already committed.  OpenAIBudget.tla implements *)
(* it with two running totals and no look at the other rows.               *)
(***************************************************************************)
EXTENDS Integers, Functions

CONSTANTS Runs, EstimatedCost(_), Limits

VARIABLES limit, runs

Settled == {"COMPLETED", "REJECTED", "FAILED"}
NoRun == [status |-> "NONE", actual_cost |-> 0]

(* What a run may have cost: its reservation until its cost is known.       *)
Cost(r) == CASE runs[r].status = "NONE"     -> 0
             [] runs[r].status = "RESERVED" -> EstimatedCost(r)
             [] runs[r].status \in Settled  -> runs[r].actual_cost

Costs == [r \in Runs |-> Cost(r)]
Exposure == SumFunctionOnSet(Costs, Runs)

Init ==
  /\ limit \in Limits
  /\ runs = [r \in Runs |-> NoRun]

Open == {r \in Runs : runs[r].status = "RESERVED"}

(* A reservation that was given up is charged in full.                      *)
Charged(abandoned) ==
  [r \in Runs |-> IF r \in abandoned
                  THEN [status |-> "FAILED", actual_cost |-> EstimatedCost(r)]
                  ELSE runs[r]]

Charge(abandoned) ==
  /\ runs' = Charged(abandoned)
  /\ limit' \in {l \in Limits : l = limit \/ l >= Exposure}

Reserve(r, abandoned) ==
  /\ runs[r].status = "NONE"
  /\ Exposure + EstimatedCost(r) <= limit
  /\ runs' = [Charged(abandoned) EXCEPT ![r] = [status |-> "RESERVED", actual_cost |-> 0]]
  /\ UNCHANGED limit

Settle(r) ==
  /\ \E status \in Settled, actual_cost \in 0 .. EstimatedCost(r) :
       runs' = [runs EXCEPT ![r] = [status |-> status, actual_cost |-> actual_cost]]
  /\ UNCHANGED limit

Next ==
  \/ \E abandoned \in SUBSET Open : Charge(abandoned)
  \/ \E r \in Runs, abandoned \in SUBSET Open : Reserve(r, abandoned)
  \/ \E r \in Open : Settle(r)

Spec == Init /\ [][Next]_<<limit, runs>>
=============================================================================
