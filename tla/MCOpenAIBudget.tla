--------------------------- MODULE MCOpenAIBudget ---------------------------
(* Two threads, a cheap and a dear request and one beyond the limit per     *)
(* run, and a budget that holds either a few runs or hardly more than one.  *)
(* The decision of the dear request is blocked, the others may be advanced. *)
EXTENDS ReviewAgent, OpenAICost, TLC

CONSTANTS t1, t2, cheap, dear, excessive

MCThreads == {t1, t2}
MCRequests == {cheap, dear, excessive}
ThreadSymmetry == Permutations(MCThreads)

Bytes == cheap :> 1 @@ dear :> 6 @@ excessive :> 12
MCEstimate == [q \in MCRequests |-> estimated_run_cost(Bytes[q])]
MCLimits == {2, 4}

MCDisposition ==
  cheap :> "AUTO_EXECUTE" @@ dear :> "BLOCK" @@ excessive :> "REQUEST_APPROVAL"

Cheap ==
  [decision_id |-> cheap, action_matches |-> TRUE,
   policy_disposition |-> "AUTO_EXECUTE", next_step |-> "SUBMIT_DECISION",
   rationale_codes |-> {"BOUNDED_AUTONOMY_ALLOWED", "HIGHEST_EXPECTED_VALUE"},
   evidence_allowed |-> TRUE, requires_human_attention |-> FALSE]

Dear ==
  [Cheap EXCEPT !.decision_id = dear, !.policy_disposition = "BLOCK",
     !.next_step = "NO_ACTION", !.rationale_codes = {"POLICY_BLOCKED"},
     !.requires_human_attention = TRUE]

MCReviews ==
  { Cheap, Dear,
    [Cheap EXCEPT !.rationale_codes = {"HIGHEST_EXPECTED_VALUE"}],
    [Cheap EXCEPT !.next_step = "WAIT_FOR_HUMAN"],
    [Cheap EXCEPT !.evidence_allowed = FALSE],
    [Dear EXCEPT !.next_step = "SUBMIT_DECISION"],
    [Dear EXCEPT !.policy_disposition = "AUTO_EXECUTE"],
    [Dear EXCEPT !.action_matches = FALSE],
    [Dear EXCEPT !.requires_human_attention = FALSE] }
=============================================================================
