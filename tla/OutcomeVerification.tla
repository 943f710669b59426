------------------------ MODULE OutcomeVerification ------------------------
(***************************************************************************)
(* OutcomeVerificationService.verify of promiseguard/verification.py, run  *)
(* by threads of its own beside the gateway's: an action row is read, the  *)
(* sandbox is brought back to what the row says, the postcondition is      *)
(* judged, the outcome is stored once, and becomes autonomy evidence.      *)
(***************************************************************************)
EXTENDS ActionGateway

CONSTANTS
  Verifiers,       \* threads that serve calls of verify
  Deliveries,      \* values delivered_on_time is observed with
  NoObservation,   \* no delivery observation
  MaxActions       \* bound: decisions executed in a behaviour

ASSUME ObservationAssumption == NoObservation \notin Deliveries
ASSUME MaxActionsAssumption == MaxActions \in Nat

VARIABLES
  delivered,  \* delivery outcome of every order, in the sandbox's memory
  outcome,    \* the outcome row of every decision
  step,       \* next step of each verifier
  known       \* what each verifier has read, or is about to store

outcomeVars == <<delivered, outcome, step, known>>
allVars == <<vars, outcomeVars>>

Observations == Deliveries \cup {NoObservation}

NoOutcome == [status |-> "NONE"]
Nothing == [decision |-> NoDecision]

VerificationInit ==
  /\ Init
  /\ delivered = [o \in Orders |-> NoObservation]
  /\ outcome = [d \in Decisions |-> NoOutcome]
  /\ step = [v \in Verifiers |-> "idle"]
  /\ known = [v \in Verifiers |-> Nothing]

Proceed(v, next, knowledge) ==
  /\ step' = [step EXCEPT ![v] = next]
  /\ known' = [known EXCEPT ![v] = knowledge]

End(v) == Proceed(v, "idle", Nothing)

----------------------------------------------------------------------------

(* A decision without an action row has nothing to verify.                  *)
CallVerify(v, d, observation) ==
  /\ step[v] = "idle"
  /\ status[d] # "NONE"
  /\ Proceed(v, "hydrate",
       [decision |-> d, observation |-> observation, execution_status |-> status[d]])
  /\ UNCHANGED <<vars, delivered, outcome>>

Observed(v) ==
  IF known[v].observation = NoObservation THEN delivered
  ELSE [delivered EXCEPT ![Order(known[v].decision)] = known[v].observation]

(* Mutant: no write is brought back.                                        *)
NeverRestored(v) == FALSE

(* Only the writes of a succeeded action are brought back.                  *)
Restored(v) == known[v].execution_status = "SUCCEEDED"

(* The observation is stored, then hydrate_from_durable_action.             *)
Hydrate(v) ==
  LET d == known[v].decision
      o == Order(d)
      seededLocation == SetDefault(location, o, Context[d].current_fulfilment_location)
      seededService == SetDefault(service, o, Context[d].current_carrier_service)
      brings(a) == Restored(v) /\ Action(d) = a IN
  /\ step[v] = "hydrate"
  /\ delivered' = Observed(v)
  /\ location' = IF brings("REROUTE")
                 THEN [location EXCEPT ![o] = Context[d].alternative_location_id]
                 ELSE seededLocation
  /\ service' = IF brings("CARRIER_UPGRADE")
                THEN [service EXCEPT ![o] = Context[d].upgraded_carrier_service]
                ELSE seededService
  /\ splits' = IF brings("SPLIT_SHIPMENT") THEN splits \cup {o} ELSE splits
  /\ reservations' = IF brings("REROUTE") THEN reservations \cup {Reservation(d)}
                     ELSE reservations
  /\ Proceed(v, "judge", known[v])
  /\ UNCHANGED <<autonomyRows, status, claimant, pc, command, result, faults, outcome>>

(* Mutant: a delivery is success enough.                                    *)
VerdictOfDelivery(execution_status, holds, delivery) ==
  CASE execution_status = "COMPENSATED" -> "FAILED"
    [] delivery = NoObservation -> "MANUAL_REVIEW_REQUIRED"
    [] OTHER -> "VERIFIED"

Verdict(execution_status, holds, delivery) ==
  CASE execution_status = "COMPENSATED" \/ ~ holds -> "FAILED"
    [] delivery = NoObservation -> "MANUAL_REVIEW_REQUIRED"
    [] OTHER -> "VERIFIED"

(* The postcondition and the delivery are read one after the other; nothing *)
(* that is written between them changes the first.                          *)
Judge(v) ==
  LET d == known[v].decision
      delivery == delivered[Order(d)] IN
  /\ step[v] = "judge"
  /\ Proceed(v, "record",
       [decision |-> d,
        status |-> Verdict(known[v].execution_status, PostconditionHolds(d), delivery),
        on_time_delivery_observed |-> delivery,
        execution_status |-> known[v].execution_status])
  /\ UNCHANGED <<vars, delivered, outcome>>

OutcomeOf(v) == [status |-> known[v].status,
                 on_time_delivery_observed |-> known[v].on_time_delivery_observed,
                 execution_status |-> known[v].execution_status]

(* Mutant: a conflicting outcome is kept for the evidence.                  *)
RecordAndGoOn(v) ==
  LET d == known[v].decision IN
  /\ step[v] = "record"
  /\ outcome' = IF outcome[d] = NoOutcome
                THEN [outcome EXCEPT ![d] = OutcomeOf(v)] ELSE outcome
  /\ Proceed(v, "evidence", known[v])
  /\ UNCHANGED <<vars, delivered>>

(* An outcome is stored once.  Another one of the same decision has another *)
(* time of verification, so that it is a conflict whatever it says.         *)
RecordOutcome(v) ==
  LET d == known[v].decision IN
  /\ step[v] = "record"
  /\ \/ /\ outcome[d] = NoOutcome
        /\ outcome' = [outcome EXCEPT ![d] = OutcomeOf(v)]
        /\ Proceed(v, "evidence", known[v])
     \/ outcome[d] # NoOutcome /\ UNCHANGED outcome /\ End(v)
  /\ UNCHANGED <<vars, delivered>>

RecordEvidence(v) ==
  /\ step[v] = "evidence"
  /\ Autonomy!RecordOutcome(known[v].decision, known[v].status)
  /\ End(v)
  /\ UNCHANGED <<status, claimant, external, pc, command, result, faults,
                 delivered, outcome>>

(* A database error in one of the transactions of verify.                   *)
LoseVerifier(v) ==
  /\ faults < MaxFaults
  /\ step[v] \in {"record", "evidence"}
  /\ faults' = faults + 1
  /\ End(v)
  /\ UNCHANGED <<autonomyRows, status, claimant, external, pc, command, result,
                 delivered, outcome>>

RestartAll ==
  /\ Restart
  /\ delivered' = [o \in Orders |-> NoObservation]
  /\ step' = [v \in Verifiers |-> "idle"]
  /\ known' = [v \in Verifiers |-> Nothing]
  /\ UNCHANGED outcome

Executed == {e \in Decisions : status[e] # "NONE" \/ \E t \in Threads : command[t] = e}

GatewayStep ==
  /\ \/ \E t \in Threads, d \in Decisions :
          Call(t, d) /\ Cardinality(Executed \cup {d}) <= MaxActions
     \/ \E t \in Threads : Step(t) \/ LoseThread(t)
     \/ \E active \in BOOLEAN : SetKillSwitch(active)
  /\ UNCHANGED outcomeVars

VerifyStep(v) == Hydrate(v) \/ Judge(v) \/ RecordOutcome(v) \/ RecordEvidence(v)

VerificationNext ==
  \/ GatewayStep
  \/ \E v \in Verifiers, d \in Decisions, observation \in Observations :
       CallVerify(v, d, observation)
  \/ \E v \in Verifiers : VerifyStep(v) \/ LoseVerifier(v)
  \/ RestartAll

VerificationSpec == VerificationInit /\ [][VerificationNext]_allVars

----------------------------------------------------------------------------
(* Properties                                                               *)

OutcomeRows == [status : {"VERIFIED", "FAILED", "MANUAL_REVIEW_REQUIRED"},
                on_time_delivery_observed : Observations,
                execution_status : Terminal \cup {"EXECUTING"}]

VerificationTypeOK ==
  /\ TypeOK
  /\ delivered \in [Orders -> Observations]
  /\ \A d \in Decisions : outcome[d] \in OutcomeRows \cup {NoOutcome}
  /\ \A v \in Verifiers :
       /\ step[v] \in {"idle", "hydrate", "judge", "record", "evidence"}
       /\ step[v] = "idle" <=> known[v] = Nothing
       /\ step[v] \in {"record", "evidence"} => OutcomeOf(v) \in OutcomeRows

OutcomeId(d) == [kind |-> "outcome", decision |-> d]

(* What the autonomy controls count of an outcome is what is stored of it,  *)
(* whichever of two verifications came first: evidence says what the stored *)
(* outcome says, and a stored outcome that is evidence gets counted unless  *)
(* its thread is lost (verify, OutcomeRepository.record).                   *)
OutcomeEvidence ==
  /\ \A row \in evidence : row.id.kind = "outcome" =>
       outcome[row.id.decision].status = IF row.successful THEN "VERIFIED" ELSE "FAILED"
  /\ \A d \in Decisions : outcome[d].status \in {"VERIFIED", "FAILED"} =>
       \/ Autonomy!Recorded(OutcomeId(d))
       \/ \E v \in Verifiers : step[v] = "evidence" /\ known[v].decision = d
       \/ faults > 0

(* Autonomy is earned with verified outcomes and nothing else: a profile    *)
(* has no more verified successes than its action has decisions whose       *)
(* stored outcome is verified, and exactly as many once the evidence of     *)
(* every stored outcome is in and no thread has been lost (verify,          *)
(* OutcomeRepository.record, record_execution, record_outcome).             *)
EarnedByOutcomes ==
  \A a \in Actions :
    LET verified == {d \in Decisions : Action(d) = a /\ outcome[d].status = "VERIFIED"} IN
    /\ profile[a].verified_successes <= Cardinality(verified)
    /\ faults = 0 /\ (\A v \in Verifiers : step[v] # "evidence") =>
         profile[a].verified_successes = Cardinality(verified)

(* An action that had succeeded when it was verified is not reported as     *)
(* failed, whatever a restart has emptied (hydrate_from_durable_action).    *)
SucceededNotFailed ==
  \A d \in Decisions :
    Sole(d) /\ Changes(d) /\ outcome[d] # NoOutcome
      /\ outcome[d].execution_status = "SUCCEEDED" => outcome[d].status # "FAILED"

(* Of the actions that were over when they were verified only those that    *)
(* had succeeded count as verified, however the delivery turned out.        *)
VerifiedSucceeded ==
  \A d \in Decisions :
    Sole(d) /\ Changes(d) /\ outcome[d].status = "VERIFIED"
      /\ outcome[d].execution_status \in Terminal => status[d] = "SUCCEEDED"
=============================================================================
