----------------------------- MODULE OpenAICost -----------------------------
(***************************************************************************)
(* openai_cost.py: what a call of the provider costs, in steps of a        *)
(* millionth of a dollar, and the estimate that is reserved for it.        *)
(***************************************************************************)
EXTENDS Integers

CONSTANTS
  InputPrice, CachedPrice, OutputPrice,  \* per thousand tokens, in the steps
  MaxOutputTokens                        \* ceiling of a call

ASSUME PriceAssumption ==
  /\ {InputPrice, CachedPrice, OutputPrice, MaxOutputTokens} \subseteq Nat
  /\ CachedPrice <= InputPrice

(* AgentTokenUsage of an answer that is no longer than its ceiling, to an   *)
(* input of at most so many tokens; the total is not used.                  *)
Usages(most) ==
  {u \in [input : 0 .. most, cached : 0 .. most, output : 0 .. MaxOutputTokens] :
     u.cached <= u.input}

(* ROUND_UP to the step                                                     *)
Quantised(amount) == (amount + 999) \div 1000

cost_for_usage(usage) ==
  Quantised((usage.input - usage.cached) * InputPrice
              + usage.cached * CachedPrice + usage.output * OutputPrice)

(* A token for every three bytes, none of them cached, and all the output   *)
(* the ceiling lets through.                                                *)
conservative_token_estimate(bytes) == IF bytes = 0 THEN 1 ELSE (bytes + 2) \div 3

estimated_run_cost(bytes) ==
  cost_for_usage([input |-> conservative_token_estimate(bytes), cached |-> 0,
                  output |-> MaxOutputTokens])
=============================================================================
