---------------------------- MODULE ReviewAgent ----------------------------
(***************************************************************************)
(* OpenAIAgentService of promiseguard/openai_agent.py: a model reviews a   *)
(* decision of the ledger, its answer is held against the decision, and a  *)
(* review that agrees is stored and may hand the decision to the workflow. *)
(*                                                                         *)
(* A request of the budget stands for one decision, whose trace never      *)
(* changes: one model and one prompt are in use, and the context is made   *)
(* of the trace alone.                                                     *)
(***************************************************************************)
EXTENDS OpenAIBudget

CONSTANTS
  Disposition,     \* [Requests -> Dispositions]: policy of each decision
  Reviews          \* answers the model may give

Dispositions == {"AUTO_EXECUTE", "REQUEST_APPROVAL", "ESCALATE", "BLOCK",
                 "TAKE_NO_ACTION"}
NextSteps == {"SUBMIT_DECISION", "WAIT_FOR_HUMAN", "ESCALATE", "NO_ACTION"}
RationaleCodes == {"HIGHEST_EXPECTED_VALUE", "BOUNDED_AUTONOMY_ALLOWED",
                   "APPROVAL_REQUIRED", "HUMAN_ESCALATION", "POLICY_BLOCKED",
                   "NO_POSITIVE_VALUE"}

(* AgentDecisionReview: whether the action is the one the optimiser chose   *)
(* and the evidence is among what the context offers; the codes that no     *)
(* disposition requires are one.                                            *)
AgentDecisionReview ==
  [decision_id : Requests, action_matches : BOOLEAN,
   policy_disposition : Dispositions, next_step : NextSteps,
   rationale_codes : SUBSET RationaleCodes, evidence_allowed : BOOLEAN,
   requires_human_attention : BOOLEAN]

ASSUME ReviewAssumption ==
  Disposition \in [Requests -> Dispositions] /\ Reviews \subseteq AgentDecisionReview

VARIABLES
  wanted,     \* advance_workflow of the call of each thread
  reply,      \* the review each thread works with
  review,     \* review column of the run rows
  submitted   \* decisions that were handed to workflow.submit

agent == <<wanted, reply, review, submitted>>
agentVars == <<vars, agent>>

NoReview == [decision_id |-> NoRequest]

AgentInit ==
  /\ Init
  /\ wanted = [t \in Threads |-> FALSE]
  /\ reply = [t \in Threads |-> NoReview]
  /\ review = [r \in Runs |-> NoReview]
  /\ submitted = {}

----------------------------------------------------------------------------
(* _validate                                                                *)

ExpectedNext(disposition) ==
  CASE disposition \in {"AUTO_EXECUTE", "REQUEST_APPROVAL"} -> "SUBMIT_DECISION"
    [] disposition = "ESCALATE" -> "ESCALATE"
    [] OTHER -> "NO_ACTION"

HumanRequired(disposition) ==
  disposition \in {"REQUEST_APPROVAL", "ESCALATE", "BLOCK"}

RequiredCode(disposition) ==
  CASE disposition = "AUTO_EXECUTE" -> "BOUNDED_AUTONOMY_ALLOWED"
    [] disposition = "REQUEST_APPROVAL" -> "APPROVAL_REQUIRED"
    [] disposition = "ESCALATE" -> "HUMAN_ESCALATION"
    [] disposition = "BLOCK" -> "POLICY_BLOCKED"
    [] disposition = "TAKE_NO_ACTION" -> "NO_POSITIVE_VALUE"

(* Mutant: the next step is left to the model.                              *)
AnyNextStep(answered, q) ==
  /\ answered.decision_id = q
  /\ answered.action_matches
  /\ answered.policy_disposition = Disposition[q]
  /\ answered.requires_human_attention = HumanRequired(Disposition[q])
  /\ answered.evidence_allowed
  /\ RequiredCode(Disposition[q]) \in answered.rationale_codes

Agrees(answered, q) ==
  /\ answered.decision_id = q
  /\ answered.action_matches
  /\ answered.policy_disposition = Disposition[q]
  /\ answered.next_step = ExpectedNext(Disposition[q])
  /\ answered.requires_human_attention = HumanRequired(Disposition[q])
  /\ answered.evidence_allowed
  /\ RequiredCode(Disposition[q]) \in answered.rationale_codes

----------------------------------------------------------------------------
(* run, along the steps of the budget                                       *)

RequestReview(t, q, advance_workflow) ==
  /\ Call(t, q)
  /\ wanted' = [wanted EXCEPT ![t] = advance_workflow]
  /\ UNCHANGED <<reply, review, submitted>>

(* A thread that returns forgets what it worked with.                       *)
Forget(t) ==
  IF pc'[t] = "idle"
  THEN /\ wanted' = [wanted EXCEPT ![t] = FALSE]
       /\ reply' = [reply EXCEPT ![t] = NoReview]
  ELSE UNCHANGED <<wanted, reply>>

(* Of several completed runs the one that was created last, by a clock that *)
(* is read before the budget is locked: any of them.                        *)
CompletedRuns(q) == {r \in Runs : r[1] = q /\ runs[r].status = "COMPLETED"}

ReuseReview(t) ==
  /\ FindCompleted(t)
  /\ \/ /\ pc'[t] = "advance"
        /\ \E r \in CompletedRuns(run[t][1]) :
             reply' = [reply EXCEPT ![t] = review[r]]
        /\ UNCHANGED wanted
     \/ pc'[t] # "advance" /\ Forget(t)
  /\ UNCHANGED <<review, submitted>>

(* A rejected answer is not kept, only its errors are.                      *)
Reviewed(t) ==
  /\ ParseReview(t)
  /\ \/ /\ answer'[t].status = "FAILED"
        /\ UNCHANGED reply
     \/ \E answered \in Reviews :
          /\ answer'[t].status =
               IF Agrees(answered, run[t][1]) THEN "COMPLETED" ELSE "REJECTED"
          /\ reply' = [reply EXCEPT
               ![t] = IF Agrees(answered, run[t][1]) THEN answered ELSE NoReview]
  /\ UNCHANGED <<wanted, review, submitted>>

SettleReview(t) ==
  /\ Finalise(t)
  /\ review' = IF runs' # runs THEN [review EXCEPT ![run[t]] = reply[t]] ELSE review
  /\ Forget(t)
  /\ UNCHANGED submitted

(* _advance_if_requested; only submit can raise.                            *)
AdvanceIfRequested(t) ==
  LET q == run[t][1]
      submits == wanted[t] /\ reply[t].next_step = "SUBMIT_DECISION" IN
  /\ Advance(t)
  /\ submits \/ pc'[t] = "state"
  /\ submitted' = IF submits THEN submitted \cup {q} ELSE submitted
  /\ Forget(t)
  /\ UNCHANGED review

(* The other steps know nothing of reviews.                                 *)
OtherStep(t) ==
  /\ Reserve(t) \/ GetRun(t) \/ State(t) \/ Inspect(t)
  /\ Forget(t)
  /\ UNCHANGED <<review, submitted>>

AgentRestart(l) ==
  /\ Restart(l)
  /\ wanted' = [t \in Threads |-> FALSE]
  /\ reply' = [t \in Threads |-> NoReview]
  /\ UNCHANGED <<review, submitted>>

AgentNext ==
  \/ \E t \in Threads, q \in Requests, advance_workflow \in BOOLEAN :
       RequestReview(t, q, advance_workflow)
  \/ \E t \in Threads :
       \/ ReuseReview(t) \/ Reviewed(t) \/ SettleReview(t)
       \/ AdvanceIfRequested(t) \/ OtherStep(t)
  \/ \E r \in Runs : Expire(r) /\ UNCHANGED agent
  \/ \E l \in Limits : AgentRestart(l)

AgentSpec == AgentInit /\ [][AgentNext]_agentVars

----------------------------------------------------------------------------
(* Properties                                                               *)

AgentTypeOK ==
  /\ TypeOK
  /\ wanted \in [Threads -> BOOLEAN]
  /\ reply \in [Threads -> Reviews \cup {NoReview}]
  /\ review \in [Runs -> Reviews \cup {NoReview}]
  /\ submitted \subseteq Requests

(* The agent hands over nothing but decisions that ask for it, and with a   *)
(* review of this very decision in the run rows that says so, whether it    *)
(* was made in this call or found (run, _advance_if_requested, _validate).  *)
AdvancedWithReview ==
  \A q \in submitted :
    /\ Disposition[q] \in {"AUTO_EXECUTE", "REQUEST_APPROVAL"}
    /\ \E a \in Attempts :
         /\ runs[<<q, a>>].status = "COMPLETED"
         /\ review[<<q, a>>].decision_id = q
         /\ review[<<q, a>>].next_step = "SUBMIT_DECISION"

(* Threads that look for a completed review before any of them has one each *)
(* pay for their own, and after that nobody pays again (reserve).           *)
PaidOncePerThread ==
  \A q \in Requests :
    Cardinality({a \in Attempts : runs[<<q, a>>].status = "COMPLETED"})
      <= Cardinality(Threads)
=============================================================================
