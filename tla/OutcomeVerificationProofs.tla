--------------------- MODULE OutcomeVerificationProofs ---------------------
(* Theorems about outcome verification beside the gateway, for every number *)
(* of gateway threads, verifiers, decisions and orders and every bound on   *)
(* faults.  They rest on what ActionGatewayProofs shows of the gateway: its *)
(* inductive invariants hold in the composition as well.                    *)
EXTENDS OutcomeVerification, ActionGatewayProofs, FiniteSetTheorems

USE ObservationAssumption

----------------------------------------------------------------------------
(* Types                                                                    *)

Verdicts == {"VERIFIED", "FAILED", "MANUAL_REVIEW_REQUIRED"}
Claimed == Terminal \cup {"EXECUTING"}

(* What a verifier knows at every step, and that what it goes on to count   *)
(* is what is stored.                                                       *)
KnownOK(v) ==
  /\ step[v] \in {"idle", "hydrate", "judge", "record", "evidence"}
  /\ step[v] = "idle" <=> known[v] = Nothing
  /\ step[v] \in {"hydrate", "judge"} =>
       known[v] \in [decision : Decisions, observation : Observations,
                     execution_status : Claimed]
  /\ step[v] \in {"record", "evidence"} =>
       known[v] \in [decision : Decisions, status : Verdicts,
                     on_time_delivery_observed : Observations,
                     execution_status : Claimed]
  /\ step[v] = "evidence" => outcome[known[v].decision] = OutcomeOf(v)

OutcomesOK ==
  /\ DOMAIN outcome = Decisions
  /\ \A d \in Decisions : outcome[d] \in OutcomeRows \cup {NoOutcome}

VerifiersOK ==
  /\ DOMAIN step = Verifiers /\ DOMAIN known = Verifiers
  /\ \A v \in Verifiers : KnownOK(v)

GatewayOK == TypeOK /\ CallsOK

TypedInv ==
  /\ GatewayOK
  /\ delivered \in [Orders -> Observations]
  /\ OutcomesOK
  /\ VerifiersOK

LEMMA TypedType == TypedInv => VerificationTypeOK
BY DEF TypedInv, GatewayOK, OutcomesOK, VerifiersOK, KnownOK, VerificationTypeOK,
       OutcomeOf, OutcomeRows, Verdicts, Claimed

LEMMA TypedInit == VerificationInit => TypedInv
BY TypeInit
   DEF VerificationInit, TypedInv, GatewayOK, OutcomesOK, VerifiersOK, KnownOK, Observations

(* What an outcome does to the autonomy tables keeps their types.           *)
LEMMA OutcomeType ==
  ASSUME Autonomy!TypeOK, NEW d \in Decisions, NEW s \in Verdicts,
         Autonomy!RecordOutcome(d, s)
  PROVE  Autonomy!TypeOK'
<1> DEFINE id == [kind |-> "outcome", decision |-> d]
           row == profile[Context[d].action]
<1>1. row \in Autonomy!Profiles /\ Context[d].action \in Actions
  BY ContextType DEF Autonomy!TypeOK, Action
<1>2. CASE UNCHANGED <<killSwitch, profile, evidence>>
  BY <1>2 DEF Autonomy!TypeOK
<1>3. ASSUME NEW c \in BOOLEAN,
             evidence' = evidence \cup {Autonomy!EvidenceRow(id, c, FALSE)},
             profile' = [profile EXCEPT ![Context[d].action] =
                           IF c THEN Autonomy!AfterSuccess(@) ELSE Autonomy!AfterFailure(@, FALSE)],
             killSwitch' = killSwitch
      PROVE  Autonomy!TypeOK'
  <2>1. Autonomy!EvidenceRow(id, c, FALSE) \in Autonomy!EvidenceRows
    BY <1>1 DEF Autonomy!EvidenceRow, Autonomy!EvidenceRows, Autonomy!EvidenceIds
  <2>2. /\ Autonomy!AfterFailure(row, FALSE) \in Autonomy!Profiles
        /\ Autonomy!AfterSuccess(row) \in Autonomy!Profiles
    <3>1. /\ row.level \in Autonomy!Levels
          /\ row.verified_successes \in Nat
          /\ row.consecutive_verified_successes \in Nat
          /\ row.compensation_count \in Nat
          /\ row.failure_count \in Nat
          /\ row.version \in Nat
      BY <1>1 DEF Autonomy!Profiles
    <3>2. /\ row.failure_count + 1 \in Nat /\ row.version + 1 \in Nat
          /\ row.verified_successes + 1 \in Nat
          /\ row.consecutive_verified_successes + 1 \in Nat
          /\ Autonomy!LevelAfterFailure(row.level) \in Autonomy!Levels
      BY <3>1 DEF Autonomy!LevelAfterFailure, Autonomy!Levels
    <3>3. Autonomy!AfterFailure(row, FALSE) \in Autonomy!Profiles
      BY <1>1, <3>1, <3>2 DEF Autonomy!AfterFailure, Autonomy!Profiles
    <3>4. Autonomy!AfterSuccess(row) \in Autonomy!Profiles
      BY <1>1, <3>1, <3>2 DEF Autonomy!AfterSuccess, Autonomy!Profiles
    <3> QED
      BY <3>3, <3>4
  <2> QED
    BY <1>1, <1>3, <2>1, <2>2 DEF Autonomy!TypeOK
<1>4. (s = "VERIFIED") \in BOOLEAN
  OBVIOUS
<1> QED
  BY <1>2, <1>3, <1>4
     DEF Autonomy!RecordOutcome, Autonomy!RecordEvidence, Autonomy!autonomyVars

(* What a step of a verifier leaves alone.                                  *)
LEMMA VerifierStep ==
  ASSUME TypedInv, NEW v \in Verifiers, NEW next, NEW knowledge, Proceed(v, next, knowledge),
         GatewayOK', delivered' \in [Orders -> Observations], OutcomesOK',
         \A d \in Decisions : outcome[d] # NoOutcome => outcome'[d] = outcome[d],
         KnownOK(v)'
  PROVE  TypedInv'
<1>1. /\ DOMAIN step' = Verifiers /\ DOMAIN known' = Verifiers
      /\ \A u \in Verifiers \ {v} : step'[u] = step[u] /\ known'[u] = known[u]
  BY DEF TypedInv, VerifiersOK, Proceed
<1>2. ASSUME NEW u \in Verifiers \ {v} PROVE KnownOK(u)'
  <2>1. KnownOK(u) /\ step'[u] = step[u] /\ known'[u] = known[u]
    BY <1>1 DEF TypedInv, VerifiersOK
  <2>2. OutcomeOf(u)' = OutcomeOf(u)
    BY <2>1 DEF OutcomeOf
  <2>3. step[u] = "evidence" =>
          known[u].decision \in Decisions /\ outcome[known[u].decision] # NoOutcome
    BY <2>1 DEF KnownOK, OutcomeOf, NoOutcome, Verdicts
  <2> QED
    BY <2>1, <2>2, <2>3 DEF KnownOK
<1> QED
  BY <1>1, <1>2 DEF TypedInv, VerifiersOK


LEMMA SameVerifiers ==
  ASSUME TypedInv, GatewayOK', UNCHANGED outcomeVars PROVE TypedInv'
BY DEF TypedInv, outcomeVars, OutcomesOK, VerifiersOK, KnownOK, OutcomeOf

(* A verifier that ends knows nothing.                                      *)
LEMMA EndOK ==
  ASSUME TypedInv, NEW v \in Verifiers, End(v), GatewayOK',
         delivered' \in [Orders -> Observations], UNCHANGED outcome
  PROVE  TypedInv'
<1>1. step'[v] = "idle" /\ known'[v] = Nothing
  BY DEF TypedInv, VerifiersOK, End, Proceed
<1>2. KnownOK(v)'
  BY <1>1 DEF KnownOK
<1>3. OutcomesOK'
  BY DEF TypedInv, OutcomesOK
<1> QED
  BY <1>2, <1>3, VerifierStep DEF End

(* The tables of the gateway hydrate leaves alone.                          *)
LEMMA HydrateType ==
  ASSUME TypedInv, NEW v \in Verifiers, Hydrate(v) PROVE GatewayOK'
<1>1. PICK d \in Decisions : d = known[v].decision
  BY DEF TypedInv, VerifiersOK, KnownOK, Hydrate
<1>2. /\ location' \in [Orders -> Locations \cup {NotSeeded}]
      /\ service' \in [Orders -> Services \cup {NotSeeded}]
      /\ splits' \subseteq Orders
      /\ reservations' \subseteq Orders \X Locations
  BY <1>1, ContextType DEF Hydrate, SetDefault, Reservation, TypedInv, GatewayOK, TypeOK
<1>3. UNCHANGED <<autonomyRows, status, claimant, pc, command, result, faults>>
  BY DEF Hydrate
<1>4. TypeOK'
  BY <1>2, <1>3 DEF TypedInv, GatewayOK, TypeOK, Autonomy!TypeOK, autonomyRows
<1>5. CallsOK'
  BY <1>3 DEF TypedInv, GatewayOK, CallsOK, CallOK, InSaga
<1> QED
  BY <1>4, <1>5 DEF GatewayOK

LEMMA TypedStep == TypedInv /\ [VerificationNext]_allVars => TypedInv'
<1> SUFFICES ASSUME TypedInv, [VerificationNext]_allVars PROVE TypedInv'
  OBVIOUS
<1>0. /\ GatewayOK /\ delivered \in [Orders -> Observations]
      /\ DOMAIN step = Verifiers /\ DOMAIN known = Verifiers
      /\ \A v \in Verifiers : KnownOK(v)
      /\ OutcomesOK
  BY DEF TypedInv, VerifiersOK
<1>1. UNCHANGED vars => GatewayOK'
  BY <1>0, TypeStep DEF GatewayOK
<1>2. CASE GatewayStep
  <2>1. Next
    BY <1>2 DEF GatewayStep, Next
  <2> QED
    BY <1>0, <1>2, <2>1, TypeStep, SameVerifiers DEF GatewayStep, GatewayOK
<1>3. ASSUME NEW v \in Verifiers, NEW d \in Decisions, NEW observation \in Observations,
             CallVerify(v, d, observation)
      PROVE  TypedInv'
  <2> DEFINE knowledge ==
        [decision |-> d, observation |-> observation, execution_status |-> status[d]]
  <2>1. Proceed(v, "hydrate", knowledge) /\ UNCHANGED <<vars, delivered, outcome>>
    BY <1>3 DEF CallVerify
  <2>2. step'[v] = "hydrate" /\ known'[v] = knowledge
    BY <1>0, <2>1 DEF Proceed
  <2>3. status[d] \in Claimed
    BY <1>0, <1>3 DEF CallVerify, GatewayOK, TypeOK, Statuses, Claimed, Terminal
  <2>4. KnownOK(v)'
    BY <2>2, <2>3 DEF KnownOK, Nothing
  <2>5. OutcomesOK'
    BY <1>0, <2>1 DEF OutcomesOK
  <2> HIDE DEF knowledge
  <2> QED
    BY <1>0, <1>1, <2>1, <2>4, <2>5, VerifierStep
<1>4. ASSUME NEW v \in Verifiers, Hydrate(v) PROVE TypedInv'
  <2>1. step[v] = "hydrate" /\ Proceed(v, "judge", known[v]) /\ UNCHANGED outcome
    BY <1>4 DEF Hydrate
  <2>2. step'[v] = "judge" /\ known'[v] = known[v]
    BY <1>0, <2>1 DEF Proceed
  <2>3. KnownOK(v)'
    BY <1>0, <2>1, <2>2 DEF KnownOK
  <2>4. delivered' \in [Orders -> Observations]
    <3>1. known[v].observation \in Observations
      BY <1>0, <2>1 DEF KnownOK
    <3> QED
      BY <1>0, <1>4, <3>1 DEF Hydrate, Observed
  <2>5. OutcomesOK'
    BY <1>0, <2>1 DEF OutcomesOK
  <2> QED
    BY <1>4, <2>1, <2>3, <2>4, <2>5, HydrateType, VerifierStep
<1>5. ASSUME NEW v \in Verifiers, Judge(v) PROVE TypedInv'
  <2>1. /\ step[v] = "judge" /\ UNCHANGED <<vars, delivered, outcome>>
        /\ \E verdict \in Verdicts :
             Proceed(v, "record",
               [decision |-> known[v].decision, status |-> verdict,
                on_time_delivery_observed |-> delivered[Order(known[v].decision)],
                execution_status |-> known[v].execution_status])
    BY <1>5 DEF Judge, Verdict, Verdicts
  <2>2. PICK knowledge :
          /\ \E verdict \in Verdicts :
               knowledge =
                 [decision |-> known[v].decision, status |-> verdict,
                  on_time_delivery_observed |-> delivered[Order(known[v].decision)],
                  execution_status |-> known[v].execution_status]
          /\ Proceed(v, "record", knowledge)
    BY <2>1
  <2>3. step'[v] = "record" /\ known'[v] = knowledge
    BY <1>0, <2>2 DEF Proceed
  <2>4. known[v].decision \in Decisions /\ known[v].execution_status \in Claimed
    BY <1>0, <2>1 DEF KnownOK
  <2>5. delivered[Order(known[v].decision)] \in Observations
    BY <1>0, <2>4, ContextType
  <2>6. KnownOK(v)'
    BY <2>2, <2>3, <2>4, <2>5 DEF KnownOK, Nothing
  <2>7. OutcomesOK'
    BY <1>0, <2>1 DEF OutcomesOK
  <2> QED
    BY <1>0, <1>1, <2>1, <2>2, <2>6, <2>7, VerifierStep
<1>6. ASSUME NEW v \in Verifiers, RecordOutcome(v) PROVE TypedInv'
  <2>1. step[v] = "record" /\ UNCHANGED <<vars, delivered>>
    BY <1>6 DEF RecordOutcome
  <2>2. CASE UNCHANGED outcome /\ End(v)
    BY <1>0, <1>1, <2>1, <2>2, EndOK
  <2>3. ASSUME outcome[known[v].decision] = NoOutcome,
               outcome' = [outcome EXCEPT ![known[v].decision] = OutcomeOf(v)],
               Proceed(v, "evidence", known[v])
        PROVE  TypedInv'
    <3>1. step'[v] = "evidence" /\ known'[v] = known[v]
      BY <1>0, <2>3 DEF Proceed
    <3>2. OutcomeOf(v)' = OutcomeOf(v)
      BY <3>1 DEF OutcomeOf
    <3>3. known[v].decision \in Decisions /\ OutcomeOf(v) \in OutcomeRows
      BY <1>0, <2>1 DEF KnownOK, OutcomeOf, OutcomeRows, Verdicts, Claimed
    <3>4. OutcomesOK' /\ outcome'[known[v].decision] = OutcomeOf(v)
      BY <1>0, <2>3, <3>3 DEF OutcomesOK
    <3>5. KnownOK(v)'
      BY <1>0, <2>1, <3>1, <3>2, <3>4 DEF KnownOK
    <3>6. \A d \in Decisions : outcome[d] # NoOutcome => outcome'[d] = outcome[d]
      BY <1>0, <2>3 DEF OutcomesOK
    <3> QED
      BY <1>0, <1>1, <2>1, <2>3, <3>4, <3>5, <3>6, VerifierStep
  <2> QED
    BY <1>6, <2>2, <2>3 DEF RecordOutcome
<1>7. ASSUME NEW v \in Verifiers, RecordEvidence(v) PROVE TypedInv'
  <2>1. /\ step[v] = "evidence" /\ End(v)
        /\ Autonomy!RecordOutcome(known[v].decision, known[v].status)
        /\ UNCHANGED <<status, claimant, external, pc, command, result, faults,
                       delivered, outcome>>
    BY <1>7 DEF RecordEvidence
  <2>2. known[v].decision \in Decisions /\ known[v].status \in Verdicts
    BY <1>0, <2>1 DEF KnownOK
  <2>3. Autonomy!TypeOK'
    BY <1>0, <2>1, <2>2, OutcomeType DEF GatewayOK, TypeOK
  <2>4. GatewayOK'
    BY <1>0, <2>1, <2>3 DEF GatewayOK, TypeOK, CallsOK, CallOK, InSaga, external
  <2> QED
    BY <1>0, <2>1, <2>4, EndOK
<1>8. ASSUME NEW v \in Verifiers, LoseVerifier(v) PROVE TypedInv'
  <2>1. GatewayOK'
    BY <1>0, <1>8 DEF LoseVerifier, GatewayOK, TypeOK, Autonomy!TypeOK, CallsOK, CallOK,
                      InSaga, external, autonomyRows
  <2> QED
    BY <1>0, <1>8, <2>1, EndOK DEF LoseVerifier
<1>9. CASE RestartAll
  <2>1. GatewayOK'
    BY <1>0, <1>9, TypeStep DEF RestartAll, Next, GatewayOK
  <2>2. delivered' \in [Orders -> Observations] /\ UNCHANGED outcome
    BY <1>9 DEF RestartAll, Observations
  <2>3. VerifiersOK' /\ OutcomesOK'
    BY <1>0, <1>9 DEF RestartAll, VerifiersOK, KnownOK, OutcomesOK
  <2> QED
    BY <2>1, <2>2, <2>3 DEF TypedInv
<1>10. CASE UNCHANGED allVars
  BY <1>1, <1>10, SameVerifiers DEF allVars
<1> QED
  BY <1>2, <1>3, <1>4, <1>5, <1>6, <1>7, <1>8, <1>9, <1>10 DEF VerificationNext, VerifyStep

LEMMA TypedInvariant == VerificationSpec => []TypedInv
BY TypedInit, TypedStep, PTL DEF VerificationSpec

(* Outcomes, and what verifiers are about to store, keep their types beside *)
(* a gateway in any state.                                                  *)
THEOREM VerificationTypeCorrect == VerificationSpec => []VerificationTypeOK
BY TypedInvariant, TypedType, PTL

----------------------------------------------------------------------------
(* Evidence of outcomes                                                     *)

LEMMA GatewayEvidence ==
  ASSUME GatewayOK, [Next]_vars
  PROVE  /\ evidence \subseteq evidence'
         /\ \A row \in evidence' \ evidence : row.id.kind = "execution"
<1>1. ASSUME NEW t \in Threads, RecordExecution(t)
      PROVE  /\ evidence \subseteq evidence'
             /\ \A row \in evidence' \ evidence : row.id.kind = "execution"
  BY <1>1 DEF RecordExecution, Autonomy!RecordExecution, Autonomy!RecordEvidence,
              Autonomy!EvidenceRow, Autonomy!autonomyVars
<1>2. ASSUME NEW t \in Threads, Step(t), ~ RecordExecution(t) PROVE UNCHANGED evidence
  BY <1>2, OnlyRecordExecutionWritesEvidence
<1>3. ASSUME NEW t \in Threads, NEW d \in Decisions, Call(t, d) PROVE UNCHANGED evidence
  BY <1>3 DEF Call, autonomyRows
<1>4. ASSUME NEW active \in BOOLEAN, SetKillSwitch(active) PROVE UNCHANGED evidence
  BY <1>4 DEF SetKillSwitch, Autonomy!SetKillSwitch
<1>5. ASSUME NEW t \in Threads, LoseThread(t) PROVE UNCHANGED evidence
  BY <1>5 DEF LoseThread, autonomyRows
<1>6. CASE Restart
  BY <1>6 DEF Restart, autonomyRows
<1>7. CASE UNCHANGED vars
  BY <1>7 DEF vars
<1> QED
  BY <1>1, <1>2, <1>3, <1>4, <1>5, <1>6, <1>7 DEF Next

(* The two halves of OutcomeEvidence, for one row and for one decision.     *)
RowSays(row) ==
  row.id.kind = "outcome" =>
    outcome[row.id.decision].status = IF row.successful THEN "VERIFIED" ELSE "FAILED"

Counted(d) ==
  outcome[d].status \in {"VERIFIED", "FAILED"} =>
    \/ Autonomy!Recorded(OutcomeId(d))
    \/ \E v \in Verifiers : step[v] = "evidence" /\ known[v].decision = d
    \/ faults > 0

EvidenceInv ==
  /\ \A row \in evidence : row.id.kind = "outcome" => row.id.decision \in Decisions
  /\ \A row \in evidence : RowSays(row)
  /\ \A d \in Decisions : Counted(d)

(* A step that stores no outcome, adds no evidence of one, and ends no call *)
(* that is about to.                                                        *)
LEMMA NoOutcomeStep ==
  ASSUME EvidenceInv, UNCHANGED outcome, evidence \subseteq evidence',
         \A row \in evidence' \ evidence : row.id.kind = "execution",
         \/ faults' > 0
         \/ /\ faults' = faults
            /\ \A v \in Verifiers :
                 step[v] = "evidence" =>
                   step'[v] = "evidence" /\ known'[v].decision = known[v].decision
  PROVE  EvidenceInv'
<1>1. ASSUME NEW row \in evidence'
      PROVE  RowSays(row)' /\ (row.id.kind = "outcome" => row.id.decision \in Decisions)
  BY DEF EvidenceInv, RowSays
<1>2. ASSUME NEW d \in Decisions PROVE Counted(d)'
  <2>1. Counted(d) /\ (Autonomy!Recorded(OutcomeId(d)) => Autonomy!Recorded(OutcomeId(d))')
    BY DEF EvidenceInv, Autonomy!Recorded, OutcomeId
  <2> QED
    BY <2>1 DEF Counted
<1> QED
  BY <1>1, <1>2 DEF EvidenceInv

(* The row an outcome becomes.                                              *)
LEMMA OutcomeRow ==
  ASSUME NEW d \in Decisions, NEW s \in Verdicts, Autonomy!RecordOutcome(d, s)
  PROVE  /\ evidence \subseteq evidence'
         /\ \A row \in evidence' \ evidence :
              /\ row.id = OutcomeId(d)
              /\ s = "VERIFIED" => row.successful
              /\ s # "VERIFIED" => s = "FAILED" /\ ~ row.successful
         /\ s # "MANUAL_REVIEW_REQUIRED" => Autonomy!Recorded(OutcomeId(d))'
<1>1. CASE UNCHANGED evidence /\ (s = "MANUAL_REVIEW_REQUIRED" \/ Autonomy!Recorded(OutcomeId(d)))
  BY <1>1 DEF Autonomy!Recorded
<1>2. ASSUME s # "MANUAL_REVIEW_REQUIRED",
             evidence' = evidence \cup {Autonomy!EvidenceRow(OutcomeId(d), s = "VERIFIED", FALSE)}
      PROVE  /\ evidence \subseteq evidence'
             /\ \A row \in evidence' \ evidence :
                  /\ row.id = OutcomeId(d)
                  /\ s = "VERIFIED" => row.successful
                  /\ s # "VERIFIED" => s = "FAILED" /\ ~ row.successful
             /\ s # "MANUAL_REVIEW_REQUIRED" => Autonomy!Recorded(OutcomeId(d))'
  <2>1. PICK new : new = Autonomy!EvidenceRow(OutcomeId(d), s = "VERIFIED", FALSE)
    OBVIOUS
  <2>2. new.id = OutcomeId(d) /\ new.successful = (s = "VERIFIED")
    BY <2>1 DEF Autonomy!EvidenceRow
  <2>3. evidence' = evidence \cup {new}
    BY <1>2, <2>1
  <2>4. s # "VERIFIED" => s = "FAILED"
    BY <1>2 DEF Verdicts
  <2>5. Autonomy!Recorded(OutcomeId(d))'
    BY <2>2, <2>3 DEF Autonomy!Recorded, OutcomeId
  <2> QED
    BY <2>2, <2>3, <2>4, <2>5
<1>3. \/ UNCHANGED evidence /\ (s = "MANUAL_REVIEW_REQUIRED" \/ Autonomy!Recorded(OutcomeId(d)))
      \/ /\ s # "MANUAL_REVIEW_REQUIRED"
         /\ evidence' = evidence \cup {Autonomy!EvidenceRow(OutcomeId(d), s = "VERIFIED", FALSE)}
  BY DEF Autonomy!RecordOutcome, Autonomy!RecordEvidence, Autonomy!autonomyVars, OutcomeId
<1> QED
  BY <1>1, <1>2, <1>3

LEMMA OutcomeEvidenceStep == TypedInv /\ EvidenceInv /\ [VerificationNext]_allVars => EvidenceInv'
<1> SUFFICES ASSUME TypedInv, EvidenceInv, [VerificationNext]_allVars PROVE EvidenceInv'
  OBVIOUS
<1>0. /\ GatewayOK /\ OutcomesOK
      /\ DOMAIN step = Verifiers /\ DOMAIN known = Verifiers /\ faults \in Nat
      /\ \A v \in Verifiers : KnownOK(v)
  BY DEF TypedInv, VerifiersOK, GatewayOK, TypeOK
<1>1. ASSUME NEW v \in Verifiers, NEW next, NEW knowledge, Proceed(v, next, knowledge)
      PROVE  /\ step'[v] = next /\ known'[v] = knowledge
             /\ \A u \in Verifiers \ {v} : step'[u] = step[u] /\ known'[u] = known[u]
  BY <1>0, <1>1 DEF Proceed
<1>2. ASSUME GatewayStep PROVE EvidenceInv'
  <2>1. [Next]_vars /\ UNCHANGED outcomeVars
    BY <1>2 DEF GatewayStep, Next
  <2>2. faults' = faults \/ faults' > 0
    <3>1. \A t \in Threads, d \in Decisions : Call(t, d) => faults' = faults
      BY DEF Call
    <3>2. \A t \in Threads : Step(t) => faults' = faults
      BY <1>0, StepIsLocal DEF GatewayOK
    <3>3. \A t \in Threads : LoseThread(t) => faults' > 0
      BY <1>0 DEF LoseThread
    <3>4. \A active \in BOOLEAN : SetKillSwitch(active) => faults' = faults
      BY DEF SetKillSwitch
    <3> QED
      BY <1>2, <3>1, <3>2, <3>3, <3>4 DEF GatewayStep
  <2> QED
    BY <1>0, <2>1, <2>2, GatewayEvidence, NoOutcomeStep DEF outcomeVars
<1>3. ASSUME NEW v \in Verifiers, step[v] # "evidence", NEW next, NEW knowledge,
             Proceed(v, next, knowledge), UNCHANGED <<outcome, evidence, faults>>
      PROVE  EvidenceInv'
  <2>1. \A u \in Verifiers : step[u] = "evidence" =>
          step'[u] = "evidence" /\ known'[u].decision = known[u].decision
    BY <1>1, <1>3
  <2> QED
    BY <1>3, <2>1, NoOutcomeStep
<1>4. ASSUME NEW v \in Verifiers,
             \/ \E d \in Decisions, observation \in Observations : CallVerify(v, d, observation)
             \/ Hydrate(v) \/ Judge(v)
      PROVE  EvidenceInv'
  <2>1. step[v] # "evidence" /\ UNCHANGED <<outcome, evidence, faults>>
    BY <1>4 DEF CallVerify, Hydrate, Judge, vars, autonomyRows
  <2>2. \E next, knowledge : Proceed(v, next, knowledge)
    BY <1>4 DEF CallVerify, Hydrate, Judge
  <2> QED
    BY <1>3, <2>1, <2>2
<1>5. ASSUME NEW v \in Verifiers, RecordOutcome(v) PROVE EvidenceInv'
  <2>1. step[v] = "record" /\ UNCHANGED <<evidence, faults>>
    BY <1>5 DEF RecordOutcome, vars
  <2>2. CASE UNCHANGED outcome /\ End(v)
    BY <1>3, <2>1, <2>2 DEF End
  <2>3. ASSUME outcome[known[v].decision] = NoOutcome,
               outcome' = [outcome EXCEPT ![known[v].decision] = OutcomeOf(v)],
               Proceed(v, "evidence", known[v])
        PROVE  EvidenceInv'
    <3>1. PICK e \in Decisions : e = known[v].decision
      BY <1>0, <2>1 DEF KnownOK
    <3>2. \A d \in Decisions : d # e => outcome'[d] = outcome[d]
      BY <1>0, <2>3, <3>1 DEF OutcomesOK
    <3>3. /\ step'[v] = "evidence" /\ known'[v].decision = e
          /\ \A u \in Verifiers \ {v} : step'[u] = step[u] /\ known'[u] = known[u]
      BY <1>1, <2>3, <3>1
    <3>4. ASSUME NEW row \in evidence', row.id.kind = "outcome"
          PROVE  RowSays(row)' /\ row.id.decision \in Decisions
      <4>1. row.id.decision \in Decisions /\ RowSays(row)
        BY <2>1, <3>4 DEF EvidenceInv
      <4>2. row.id.decision # e
        BY <2>3, <3>1, <3>4, <4>1 DEF RowSays, NoOutcome
      <4> QED
        BY <3>2, <4>1, <4>2 DEF RowSays
    <3>5. ASSUME NEW d \in Decisions PROVE Counted(d)'
      <4>1. CASE d = e
        BY <3>3, <4>1 DEF Counted
      <4>2. CASE d # e
        <5>1. Counted(d) /\ Autonomy!Recorded(OutcomeId(d))' = Autonomy!Recorded(OutcomeId(d))
          BY <2>1 DEF EvidenceInv, Autonomy!Recorded, OutcomeId
        <5>2. outcome'[d] = outcome[d]
          BY <3>2, <4>2
        <5>3. \A u \in Verifiers : step[u] = "evidence" => step'[u] = "evidence" /\ known'[u] = known[u]
          BY <2>1, <3>3
        <5> QED
          BY <2>1, <5>1, <5>2, <5>3 DEF Counted
      <4> QED
        BY <4>1, <4>2
    <3>6. \A row \in evidence' : row.id.kind # "outcome" => RowSays(row)'
      BY DEF RowSays
    <3> QED
      BY <3>4, <3>5, <3>6 DEF EvidenceInv
  <2> QED
    BY <1>5, <2>2, <2>3 DEF RecordOutcome
<1>6. ASSUME NEW v \in Verifiers, RecordEvidence(v) PROVE EvidenceInv'
  <2>0. /\ step[v] = "evidence" /\ known[v].decision \in Decisions /\ known[v].status \in Verdicts
        /\ outcome[known[v].decision] = OutcomeOf(v)
        /\ Autonomy!RecordOutcome(known[v].decision, known[v].status)
    BY <1>0, <1>6 DEF RecordEvidence, KnownOK
  <2>1. PICK e \in Decisions, verdict \in Verdicts :
          /\ e = known[v].decision /\ verdict = known[v].status
          /\ outcome[e].status = verdict
          /\ Autonomy!RecordOutcome(e, verdict)
    BY <2>0 DEF OutcomeOf
  <2>2. /\ UNCHANGED <<outcome, faults>>
        /\ \A u \in Verifiers \ {v} : step'[u] = step[u] /\ known'[u] = known[u]
    BY <1>1, <1>6 DEF RecordEvidence, End
  <2>3. /\ evidence \subseteq evidence'
        /\ \A row \in evidence' \ evidence :
             /\ row.id = OutcomeId(e)
             /\ verdict = "VERIFIED" => row.successful
             /\ verdict # "VERIFIED" => verdict = "FAILED" /\ ~ row.successful
        /\ verdict # "MANUAL_REVIEW_REQUIRED" => Autonomy!Recorded(OutcomeId(e))'
    BY <2>1, OutcomeRow
  <2>4. ASSUME NEW row \in evidence'
        PROVE  RowSays(row)' /\ (row.id.kind = "outcome" => row.id.decision \in Decisions)
    <3>1. CASE row \in evidence
      BY <2>2, <3>1 DEF EvidenceInv, RowSays
    <3>2. CASE row \notin evidence
      <4>1. row.id.decision = e /\ row \in evidence' \ evidence /\ outcome'[e].status = verdict
        BY <2>1, <2>2, <2>3, <3>2 DEF OutcomeId
      <4>2. CASE verdict = "VERIFIED"
        BY <2>3, <4>1, <4>2 DEF RowSays
      <4>3. CASE verdict # "VERIFIED"
        BY <2>3, <4>1, <4>3 DEF RowSays
      <4> QED
        BY <4>2, <4>3
    <3> QED
      BY <3>1, <3>2
  <2>5. ASSUME NEW d \in Decisions PROVE Counted(d)'
    <3>1. CASE d = e
      BY <2>1, <2>2, <2>3, <3>1 DEF Counted
    <3>2. CASE d # e
      <4>1. Counted(d) /\ (Autonomy!Recorded(OutcomeId(d)) => Autonomy!Recorded(OutcomeId(d))')
        BY <2>3 DEF EvidenceInv, Autonomy!Recorded, OutcomeId
      <4>2. \A u \in Verifiers : step[u] = "evidence" /\ known[u].decision = d =>
              step'[u] = "evidence" /\ known'[u].decision = d
        BY <2>1, <2>2, <3>2
      <4> QED
        BY <2>2, <4>1, <4>2 DEF Counted
    <3> QED
      BY <3>1, <3>2
  <2> QED
    BY <2>4, <2>5 DEF EvidenceInv
<1>7. ASSUME NEW v \in Verifiers, LoseVerifier(v) PROVE EvidenceInv'
  BY <1>0, <1>7, NoOutcomeStep DEF LoseVerifier, autonomyRows
<1>8. CASE RestartAll
  BY <1>0, <1>8, NoOutcomeStep DEF RestartAll, Restart, autonomyRows
<1>9. CASE UNCHANGED allVars
  BY <1>9, NoOutcomeStep DEF allVars, vars, outcomeVars
<1> QED
  BY <1>2, <1>4, <1>5, <1>6, <1>7, <1>8, <1>9 DEF VerificationNext, VerifyStep

(* The autonomy controls count an outcome exactly as it is stored, whatever *)
(* verifications race, unless the thread that stored it is lost (verify,    *)
(* OutcomeRepository.record, record_outcome).                               *)
THEOREM OutcomeEvidenceHolds == VerificationSpec => []OutcomeEvidence
<1>1. VerificationInit => EvidenceInv
  BY DEF VerificationInit, Init, Autonomy!Init, EvidenceInv, Counted, NoOutcome
<1>2. EvidenceInv => OutcomeEvidence
  BY DEF EvidenceInv, RowSays, Counted, OutcomeEvidence
<1> QED
  BY <1>1, <1>2, TypedInvariant, OutcomeEvidenceStep, PTL DEF VerificationSpec

----------------------------------------------------------------------------
(* What a profile is earned with.  The counter is that of the evidence rows *)
(* of successes (CountInv), the composition of what AutonomyControlsProofs  *)
(* shows of the controls alone with the threads of this module; the rows    *)
(* are those of the verified outcomes, one for each, by EvidenceInv.        *)

Successes(a) == Autonomy!EvidenceOf(a, TRUE)

RowOK(row) ==
  /\ row.id.decision \in Decisions
  /\ row.action = Action(row.id.decision)
  /\ row.successful \in BOOLEAN
  /\ row.successful => row.id = OutcomeId(row.id.decision)

CountInv ==
  /\ IsFiniteSet(evidence)
  /\ \A row \in evidence : RowOK(row)
  /\ \A r, s \in evidence : r.id = s.id => r = s
  /\ \A a \in Actions : profile[a].verified_successes = Cardinality(Successes(a))

(* Evidence that is not there yet is counted once, if it is of a success.   *)
LEMMA RecordedCounts ==
  ASSUME TypeOK, CountInv, NEW d \in Decisions, NEW id, id.decision = d,
         NEW s \in BOOLEAN, NEW c \in BOOLEAN, s => id = OutcomeId(d),
         Autonomy!RecordEvidence(id, s, c)
  PROVE  CountInv'
<1> DEFINE new == Autonomy!EvidenceRow(id, s, c)
<1>1. CASE UNCHANGED <<profile, evidence>>
  BY <1>1 DEF CountInv, RowOK, Successes, Autonomy!EvidenceOf
<1>2. CASE /\ ~ Autonomy!Recorded(id)
           /\ evidence' = evidence \cup {new}
           /\ profile' = [profile EXCEPT ![Action(d)] =
                            IF s THEN Autonomy!AfterSuccess(@)
                                 ELSE Autonomy!AfterFailure(@, c)]
  <2>1. new.id = id /\ new.action = Action(d) /\ new.successful = s
    BY DEF Autonomy!EvidenceRow, Action
  <2> HIDE DEF new
  <2>2. \A row \in evidence : row.id # id
    BY <1>2 DEF Autonomy!Recorded
  <2>3. IsFiniteSet(evidence')
    BY <1>2, FS_AddElement DEF CountInv
  <2>4. RowOK(new)
    BY <2>1 DEF RowOK
  <2>5. \A row \in evidence' : RowOK(row)'
    BY <1>2, <2>4 DEF CountInv, RowOK, OutcomeId
  <2>6. \A q, r \in evidence' : q.id = r.id => q = r
    BY <1>2, <2>1, <2>2 DEF CountInv
  <2>7. ASSUME NEW a \in Actions
        PROVE  profile'[a].verified_successes = Cardinality(Successes(a)')
    <3> DEFINE S == Successes(a)
               T == Successes(a)'
    <3>1. S \subseteq evidence /\ new \notin S
      BY <2>1, <2>2 DEF Successes, Autonomy!EvidenceOf
    <3>2. T = IF a = Action(d) /\ s THEN S \cup {new} ELSE S
      BY <1>2, <2>1 DEF Successes, Autonomy!EvidenceOf
    <3>3. profile[a].verified_successes = Cardinality(S) /\ IsFiniteSet(S)
      BY <3>1, FS_Subset DEF CountInv
    <3>4. profile[a] \in Autonomy!Profiles
      BY DEF TypeOK, Autonomy!TypeOK
    <3> HIDE DEF S, T
    <3>5. CASE a = Action(d) /\ s
      <4>1. profile'[a].verified_successes = profile[a].verified_successes + 1
        <5>1. profile'[a] = Autonomy!AfterSuccess(profile[a])
          BY <1>2, <3>5 DEF TypeOK, Autonomy!TypeOK
        <5> QED
          BY <3>4, <5>1 DEF Autonomy!AfterSuccess, Autonomy!Profiles
      <4>2. Cardinality(S \cup {new}) = Cardinality(S) + 1
        BY <3>1, <3>3, FS_AddElement
      <4> QED
        BY <3>2, <3>3, <3>5, <4>1, <4>2 DEF T
    <3>6. CASE ~ (a = Action(d) /\ s)
      <4>1. profile'[a].verified_successes = profile[a].verified_successes
        <5>1. \/ profile'[a] = profile[a]
              \/ profile'[a] = Autonomy!AfterFailure(profile[a], c)
          BY <1>2, <3>6 DEF TypeOK, Autonomy!TypeOK
        <5> QED
          BY <3>4, <5>1 DEF Autonomy!AfterFailure, Autonomy!Profiles
      <4> QED
        BY <3>2, <3>3, <3>6, <4>1 DEF T
    <3> QED
      BY <3>5, <3>6
  <2> QED
    BY <2>3, <2>5, <2>6, <2>7 DEF CountInv
<1>3. Autonomy!RecordEvidence(id, s, c) =>
        \/ UNCHANGED <<profile, evidence>>
        \/ /\ ~ Autonomy!Recorded(id)
           /\ evidence' = evidence \cup {new}
           /\ profile' = [profile EXCEPT ![Action(d)] =
                            IF s THEN Autonomy!AfterSuccess(@)
                                 ELSE Autonomy!AfterFailure(@, c)]
  BY DEF Autonomy!RecordEvidence, Autonomy!autonomyVars, Action
<1> QED
  BY <1>1, <1>2, <1>3

LEMMA CountFrame == ASSUME CountInv, UNCHANGED <<profile, evidence>> PROVE CountInv'
BY DEF CountInv, RowOK, Successes, Autonomy!EvidenceOf

LEMMA OnlyRecordExecutionCounts ==
  ASSUME NEW t \in Threads, Step(t)
  PROVE  UNCHANGED <<profile, evidence>> \/ RecordExecution(t)
BY DEF Step, autonomyRows, CheckKillSwitch, GetByDecision, FindByKey, RecordExecuting,
       SeedOrder, ReserveAlternative, ChangeLocation, VerifyChange, RestoreLocation,
       ReleaseAlternative, UpgradeCarrier, CreateSplit, VerifyAmbiguous, VerifyFailed,
       RestoreCarrier, CancelSplit, Update

LEMMA CountStep == TypedInv /\ CountInv /\ [VerificationNext]_allVars => CountInv'
<1> SUFFICES ASSUME TypedInv, CountInv, [VerificationNext]_allVars PROVE CountInv'
  OBVIOUS
<1>0. TypeOK /\ CallsOK /\ \A v \in Verifiers : KnownOK(v)
  BY DEF TypedInv, GatewayOK, VerifiersOK
<1>1. ASSUME NEW t \in Threads, RecordExecution(t) PROVE CountInv'
  <2>1. PICK d \in Decisions : d = command[t]
    BY <1>0, <1>1 DEF RecordExecution, CallsOK, CallOK
  <2>2. Autonomy!RecordExecution(d, result[t])
    BY <1>1, <2>1 DEF RecordExecution
  <2>3. CASE result[t] \in {"COMPENSATED", "FAILED"}
    <3> DEFINE id == [kind |-> "execution", decision |-> d]
    <3>1. id.decision = d
      OBVIOUS
    <3>2. Autonomy!RecordEvidence(id, FALSE, result[t] = "COMPENSATED")
      BY <2>2, <2>3 DEF Autonomy!RecordExecution
    <3>3. PICK c \in BOOLEAN : c = (result[t] = "COMPENSATED")
      OBVIOUS
    <3> HIDE DEF id
    <3> QED
      BY <1>0, <3>1, <3>2, <3>3, RecordedCounts
  <2>4. CASE result[t] \notin {"COMPENSATED", "FAILED"}
    BY <2>2, <2>4, CountFrame DEF Autonomy!RecordExecution, Autonomy!autonomyVars
  <2> QED
    BY <2>3, <2>4
<1>2. ASSUME NEW v \in Verifiers, RecordEvidence(v) PROVE CountInv'
  <2>1. PICK d \in Decisions, verdict \in Verdicts :
          d = known[v].decision /\ verdict = known[v].status
            /\ Autonomy!RecordOutcome(d, verdict)
    BY <1>0, <1>2 DEF RecordEvidence, KnownOK
  <2>2. CASE verdict = "MANUAL_REVIEW_REQUIRED"
    BY <2>1, <2>2, CountFrame
       DEF Autonomy!RecordOutcome, Autonomy!RecordEvidence, Autonomy!autonomyVars
  <2>3. CASE verdict # "MANUAL_REVIEW_REQUIRED"
    <3>1. OutcomeId(d).decision = d
      BY DEF OutcomeId
    <3>2. Autonomy!RecordEvidence(OutcomeId(d), verdict = "VERIFIED", FALSE)
      BY <2>1, <2>3 DEF Autonomy!RecordOutcome, OutcomeId
    <3>3. PICK s \in BOOLEAN : s = (verdict = "VERIFIED")
      OBVIOUS
    <3> QED
      BY <1>0, <3>1, <3>2, <3>3, RecordedCounts
  <2> QED
    BY <2>2, <2>3
<1>3. CASE GatewayStep
  <2>1. ASSUME NEW t \in Threads, Step(t) \/ LoseThread(t) PROVE CountInv'
    BY <1>1, <2>1, OnlyRecordExecutionCounts, CountFrame DEF LoseThread, autonomyRows
  <2>2. ASSUME NEW t \in Threads, NEW d \in Decisions, Call(t, d) PROVE CountInv'
    BY <2>2, CountFrame DEF Call, autonomyRows
  <2>3. ASSUME NEW active \in BOOLEAN, SetKillSwitch(active) PROVE CountInv'
    BY <2>3, CountFrame DEF SetKillSwitch, Autonomy!SetKillSwitch
  <2> QED
    BY <1>3, <2>1, <2>2, <2>3 DEF GatewayStep
<1>4. ASSUME NEW v \in Verifiers,
             \/ \E d \in Decisions, observation \in Observations : CallVerify(v, d, observation)
             \/ Hydrate(v) \/ Judge(v) \/ RecordOutcome(v) \/ LoseVerifier(v)
      PROVE  CountInv'
  BY <1>4, CountFrame
     DEF CallVerify, Hydrate, Judge, RecordOutcome, LoseVerifier, vars, autonomyRows
<1>5. CASE RestartAll \/ UNCHANGED allVars
  BY <1>5, CountFrame DEF RestartAll, Restart, autonomyRows, allVars, vars
<1> QED
  BY <1>2, <1>3, <1>4, <1>5 DEF VerificationNext, VerifyStep

(* Each evidence row of a success stands for one verified outcome.          *)
LEMMA SuccessesAreOutcomes ==
  ASSUME IsFiniteSet(Decisions), EvidenceInv, CountInv, NEW a \in Actions,
         NEW T, T = {d \in Decisions : Action(d) = a /\ outcome[d].status = "VERIFIED"}
  PROVE  /\ Cardinality(Successes(a)) <= Cardinality(T)
         /\ faults = 0 /\ (\A v \in Verifiers : step[v] # "evidence")
              => Cardinality(Successes(a)) = Cardinality(T)
<1> DEFINE S == Successes(a)
           decided == [row \in S |-> row.id.decision]
<1>1. \A row \in S : /\ row \in evidence /\ row.action = a /\ row.successful
                     /\ row.id.decision \in Decisions
                     /\ row.id = OutcomeId(row.id.decision)
                     /\ Action(row.id.decision) = a
  BY DEF Successes, Autonomy!EvidenceOf, CountInv, RowOK
<1>2. \A row \in S : row.id.kind = "outcome"
  <2>1. \A d : OutcomeId(d).kind = "outcome"
    BY DEF OutcomeId
  <2> HIDE DEF S
  <2> QED
    BY <1>1, <2>1
<1>3. \A row \in S : row.id.decision \in T
  BY <1>1, <1>2 DEF EvidenceInv, RowSays
<1>4. \A q, r \in S : decided[q] = decided[r] => q = r
  BY <1>1 DEF CountInv
<1>5. decided \in Injection(S, T)
  BY <1>3, <1>4 DEF Injection, IsInjective
<1>6. IsFiniteSet(T)
  BY FS_Subset
<1>7. Cardinality(S) <= Cardinality(T)
        /\ (Cardinality(S) = Cardinality(T) <=> decided \in Surjection(S, T))
  BY <1>5, <1>6, FS_Injection
<1>8. ASSUME faults = 0, \A v \in Verifiers : step[v] # "evidence"
      PROVE  decided \in Surjection(S, T)
  <2>1. ASSUME NEW d \in T PROVE \E row \in S : decided[row] = d
    <3>1. Counted(d) /\ outcome[d].status = "VERIFIED" /\ Action(d) = a
      BY DEF EvidenceInv
    <3>2. PICK row \in evidence : row.id = OutcomeId(d)
      BY <1>8, <3>1 DEF Counted, Autonomy!Recorded
    <3>3. row.id.kind = "outcome" /\ row.id.decision = d
      BY <3>2 DEF OutcomeId
    <3>4. row.successful
      BY <3>1, <3>3 DEF EvidenceInv, RowSays
    <3>5. row.action = a /\ row.successful = TRUE
      BY <3>1, <3>3, <3>4 DEF CountInv, RowOK
    <3> QED
      BY <3>3, <3>5 DEF Successes, Autonomy!EvidenceOf
  <2> QED
    BY <1>3, <2>1 DEF Surjection
<1> QED
  BY <1>7, <1>8

(* Whatever verifications, executions, lost threads and restarts interleave, *)
(* a profile has its verified successes from verified outcomes of decisions *)
(* for its action, one from each (verify, _record_evidence).                *)
THEOREM AutonomyIsEarned ==
  ASSUME IsFiniteSet(Decisions) PROVE VerificationSpec => []EarnedByOutcomes
<1>1. VerificationInit => CountInv /\ EvidenceInv
  BY FS_EmptySet
     DEF VerificationInit, Init, Autonomy!Init, Autonomy!BootstrapProfile, CountInv, Successes,
         Autonomy!EvidenceOf, EvidenceInv, Counted, NoOutcome
<1>2. EvidenceInv /\ CountInv => EarnedByOutcomes
  BY SuccessesAreOutcomes DEF EarnedByOutcomes, CountInv
<1> QED
  BY <1>1, <1>2, TypedInvariant, OutcomeEvidenceStep, CountStep, PTL DEF VerificationSpec

----------------------------------------------------------------------------
(* What an outcome says of its action.  A final status never changes, so    *)
(* what a verifier has read of one stays true.  It brings back the writes   *)
(* of succeeded actions only, and for these the gateway's own invariant     *)
(* says that they are in force anyway, so that invariant holds beside any   *)
(* number of verifiers; a success that was brought back stays in force      *)
(* until it is judged, because no thread is in the saga of its decision.    *)

(* What is known, or stored, of a decision: its status, and the judgement.  *)
ReadOnce(d, k) == k.execution_status \in Terminal => status[d] = k.execution_status

Judged(d, k) ==
  Owned(d) =>
    /\ k.execution_status = "SUCCEEDED" => k.status # "FAILED"
    /\ k.status = "VERIFIED" /\ k.execution_status \in Terminal =>
         k.execution_status = "SUCCEEDED"

VerifierTruth(v) ==
  \A d \in Decisions :
    step[v] # "idle" /\ known[v].decision = d =>
      /\ ReadOnce(d, known[v])
      /\ step[v] = "judge" /\ known[v].execution_status = "SUCCEEDED" /\ Owned(d) =>
           PostconditionHolds(d)
      /\ step[v] \in {"record", "evidence"} => Judged(d, known[v])

OutcomeTruth(d) ==
  outcome[d] # NoOutcome => ReadOnce(d, outcome[d]) /\ Judged(d, outcome[d])

TruthInv ==
  /\ SystemsInv
  /\ \A v \in Verifiers : VerifierTruth(v)
  /\ \A d \in Decisions : OutcomeTruth(d)

(* What every step keeps of actions that are over.                          *)
Kept ==
  \A d \in Decisions :
    /\ status[d] \in Terminal => status'[d] = status[d]
    /\ Owned(d) /\ status[d] = "SUCCEEDED" /\ PostconditionHolds(d) => PostconditionHolds(d)'

LEMMA GatewayKeeps == ASSUME SystemsInv, GatewayStep PROVE Kept
<1>0. /\ TypeOK /\ CallsOK /\ FirstClaims /\ SagaExclusive
  BY DEF SystemsInv, SagaInv
<1>1. CASE UNCHANGED <<status, external>>
  BY <1>1, ExternalDecides DEF Kept
<1>2. ASSUME NEW t \in Threads, Step(t) PROVE Kept
  <2>1. ASSUME NEW d \in Decisions, status[d] \in Terminal PROVE status'[d] = status[d]
    <3>1. CASE RecordExecuting(t)
      BY <1>0, <2>1, <3>1 DEF RecordExecuting, Insertable, TypeOK, Terminal
    <3>2. CASE Update(t)
      <4>1. status[command[t]] = "EXECUTING" /\ command[t] \in Decisions
        BY <1>0, <3>2 DEF Update, SagaExclusive, InSaga, SagaSteps, CallsOK, CallOK
      <4> QED
        BY <1>0, <2>1, <3>2, <4>1 DEF Update, TypeOK, Terminal
    <3>3. CASE Quiet(t)
      BY <3>3 DEF Quiet
    <3> QED
      BY <1>0, <1>2, <3>1, <3>2, <3>3, StepIsQuiet
  <2>2. ASSUME NEW d \in Decisions, Owned(d), status[d] = "SUCCEEDED", PostconditionHolds(d)
        PROVE  PostconditionHolds(d)'
    <3>1. CASE command[t] # d
      BY <1>0, <1>2, <2>2, <3>1, OthersUntouched
    <3>2. CASE command[t] = d
      <4>1. ~ InSaga(t)
        BY <1>0, <2>2, <3>2 DEF SagaExclusive
      <4> QED
        BY <1>0, <1>2, <2>2, <4>1, SagaOnlyWrites, ExternalDecides
    <3> QED
      BY <3>1, <3>2
  <2> QED
    BY <2>1, <2>2 DEF Kept
<1>3. ASSUME NEW t \in Threads, NEW d \in Decisions, Call(t, d) PROVE Kept
  BY <1>1, <1>3 DEF Call, external
<1>4. ASSUME NEW t \in Threads, LoseThread(t) PROVE Kept
  BY <1>1, <1>4 DEF LoseThread, external
<1>5. ASSUME NEW active \in BOOLEAN, SetKillSwitch(active) PROVE Kept
  BY <1>1, <1>5 DEF SetKillSwitch, external
<1> QED
  BY <1>2, <1>3, <1>4, <1>5 DEF GatewayStep

(* The gateway's invariant outlives what verifiers do to the sandbox.       *)
LEMMA SystemsFrame ==
  ASSUME SystemsInv, GatewayOK', UNCHANGED <<status, claimant, pc, command, result>>,
         faults' = 0 => faults = 0,
         \A d \in Decisions : Owned(d) =>
           \/ /\ PostconditionHolds(d)' <=> PostconditionHolds(d)
              /\ Reserved(d)' <=> Reserved(d)
           \/ status[d] = "SUCCEEDED" /\ InForce(d)'
  PROVE  SystemsInv'
<1>0. /\ TypeOK /\ CallsOK /\ FirstClaims /\ SagaExclusive /\ Persisted
      /\ \A t \in Threads : ThreadMatches(t)
      /\ \A d \in Decisions : RowMatches(d)
  BY DEF SystemsInv, SagaInv
<1>1. SagaInv'
  BY <1>0 DEF GatewayOK, SagaInv, FirstClaims, SagaExclusive, Persisted, InSaga
<1>2. ASSUME NEW t \in Threads, InSaga(t)', Owned(command[t])' PROVE ThreadMatches(t)'
  <2>1. PICK d \in Decisions : d = command[t]
    BY <1>0, <1>2 DEF InSaga, SagaSteps, CallsOK, CallOK
  <2>2. InSaga(t) /\ Owned(d) /\ status[d] = "EXECUTING"
    BY <1>0, <1>2, <2>1 DEF InSaga, Owned, Sole, Changes, SagaExclusive
  <2>3. /\ PostconditionHolds(d)' <=> PostconditionHolds(d)
        /\ Reserved(d)' <=> Reserved(d)
    BY <2>2
  <2> QED
    BY <1>0, <2>1, <2>2, <2>3 DEF ThreadMatches, InSaga, Clean, Matches, InForce
<1>3. ASSUME NEW d \in Decisions, Owned(d)' PROVE RowMatches(d)'
  <2>1. Owned(d) /\ RowMatches(d) /\ status' = status
    BY <1>0, <1>3 DEF Owned, Sole, Changes
  <2>2. CASE status[d] = "SUCCEEDED" /\ InForce(d)'
    BY <2>1, <2>2 DEF RowMatches
  <2>3. CASE /\ PostconditionHolds(d)' <=> PostconditionHolds(d)
             /\ Reserved(d)' <=> Reserved(d)
    BY <2>1, <2>3 DEF RowMatches, Clean, InForce
  <2> QED
    BY <2>1, <2>2, <2>3
<1>4. (\A t \in Threads : ThreadMatches(t)') /\ (\A d \in Decisions : RowMatches(d)')
  BY <1>2, <1>3 DEF ThreadMatches, RowMatches
<1> QED
  BY <1>1, <1>4 DEF SystemsInv

(* Hydration touches only the order and kind of write of its decision, and  *)
(* that only of a success.                                                  *)
LEMMA HydrateWrites ==
  ASSUME TypedInv, TruthInv, NEW v \in Verifiers, Hydrate(v), NEW e \in Decisions, Owned(e)
  PROVE  \/ /\ PostconditionHolds(e)' <=> PostconditionHolds(e)
            /\ Reserved(e)' <=> Reserved(e)
         \/ status[e] = "SUCCEEDED" /\ InForce(e)'
<1>1. PICK d \in Decisions : d = known[v].decision
  BY DEF TypedInv, VerifiersOK, KnownOK, Hydrate
<1>2. /\ location \in [Orders -> Locations \cup {NotSeeded}]
      /\ service \in [Orders -> Services \cup {NotSeeded}]
      /\ Order(d) \in Orders /\ Order(e) \in Orders
      /\ Action(d) \in Actions /\ Action(e) \in Actions
      /\ Context[e].alternative_location_id # NotSeeded
      /\ Context[e].upgraded_carrier_service # NotSeeded
  <2>1. Context[e].alternative_location_id # NotSeeded
    BY ContextType, NotSeededAssumption
  <2>2. Context[e].upgraded_carrier_service # NotSeeded
    BY ContextType, NotSeededAssumption
  <2> QED
    BY <2>1, <2>2, ContextType DEF TypedInv, GatewayOK, TypeOK
<1>3. /\ Context[e].alternative_location_id # Context[e].current_fulfilment_location
      /\ Context[e].upgraded_carrier_service # Context[e].current_carrier_service
      /\ Order(d) = Order(e) =>
           /\ Context[d].current_fulfilment_location = Context[e].current_fulfilment_location
           /\ Context[d].current_carrier_service = Context[e].current_carrier_service
           /\ d # e => Action(d) # Action(e)
  BY DEF Owned, Sole, Changes
<1>4. CASE d = e /\ Restored(v)
  <2>1. status[e] = "SUCCEEDED"
    BY <1>1, <1>4 DEF TruthInv, VerifierTruth, ReadOnce, Restored, Terminal, Hydrate
  <2>2. CASE Action(e) = "REROUTE"
    BY <1>1, <1>2, <1>4, <2>1, <2>2 DEF Hydrate, InForce, PostconditionHolds, Reserved
  <2>3. CASE Action(e) = "CARRIER_UPGRADE"
    BY <1>1, <1>2, <1>4, <2>1, <2>3 DEF Hydrate, InForce, PostconditionHolds
  <2>4. CASE Action(e) = "SPLIT_SHIPMENT"
    BY <1>1, <1>2, <1>4, <2>1, <2>4 DEF Hydrate, InForce, PostconditionHolds
  <2> QED
    BY <1>2, <2>2, <2>3, <2>4 DEF Actions
<1>5. CASE ~ (d = e /\ Restored(v))
  <2>1. Action(e) = "REROUTE" =>
          /\ location'[Order(e)] = Context[e].alternative_location_id
               <=> location[Order(e)] = Context[e].alternative_location_id
          /\ Reservation(e) \in reservations' <=> Reservation(e) \in reservations
    <3> SUFFICES ASSUME Action(e) = "REROUTE"
                 PROVE  /\ location'[Order(e)] = Context[e].alternative_location_id
                             <=> location[Order(e)] = Context[e].alternative_location_id
                        /\ Reservation(e) \in reservations' <=> Reservation(e) \in reservations
      OBVIOUS
    <3>1. CASE Restored(v) /\ Action(d) = "REROUTE"
      <4>1. Order(d) # Order(e)
        BY <1>3, <1>5, <3>1
      <4> QED
        BY <1>1, <1>2, <3>1, <4>1 DEF Hydrate, Reservation
    <3>2. CASE ~ (Restored(v) /\ Action(d) = "REROUTE")
      <4>1. location' = SetDefault(location, Order(d), Context[d].current_fulfilment_location)
            /\ reservations' = reservations
        BY <1>1, <3>2 DEF Hydrate
      <4> QED
        BY <1>2, <1>3, <4>1 DEF SetDefault
    <3> QED
      BY <3>1, <3>2
  <2>2. Action(e) = "CARRIER_UPGRADE" =>
          (service'[Order(e)] = Context[e].upgraded_carrier_service
             <=> service[Order(e)] = Context[e].upgraded_carrier_service)
    <3> SUFFICES ASSUME Action(e) = "CARRIER_UPGRADE"
                 PROVE  service'[Order(e)] = Context[e].upgraded_carrier_service
                          <=> service[Order(e)] = Context[e].upgraded_carrier_service
      OBVIOUS
    <3>1. CASE Restored(v) /\ Action(d) = "CARRIER_UPGRADE"
      <4>1. Order(d) # Order(e)
        BY <1>3, <1>5, <3>1
      <4> QED
        BY <1>1, <1>2, <3>1, <4>1 DEF Hydrate
    <3>2. CASE ~ (Restored(v) /\ Action(d) = "CARRIER_UPGRADE")
      <4>1. service' = SetDefault(service, Order(d), Context[d].current_carrier_service)
        BY <1>1, <3>2 DEF Hydrate
      <4> QED
        BY <1>2, <1>3, <4>1 DEF SetDefault
    <3> QED
      BY <3>1, <3>2
  <2>3. Action(e) = "SPLIT_SHIPMENT" => (Order(e) \in splits' <=> Order(e) \in splits)
    BY <1>1, <1>3, <1>5 DEF Hydrate
  <2> QED
    BY <2>1, <2>2, <2>3 DEF PostconditionHolds, Reserved
<1> QED
  BY <1>4, <1>5

(* A verifier that does nothing.                                            *)
LEMMA VerifierWaits ==
  ASSUME Kept, NEW v \in Verifiers, VerifierTruth(v),
         \/ step'[v] = "idle"
         \/ step'[v] = step[v] /\ known'[v] = known[v]
  PROVE  VerifierTruth(v)'
<1>1. CASE step'[v] = "idle"
  BY <1>1 DEF VerifierTruth
<1>2. ASSUME step'[v] = step[v], known'[v] = known[v], NEW d \in Decisions,
             step[v] # "idle", known[v].decision = d
      PROVE  /\ ReadOnce(d, known[v])'
             /\ step[v] = "judge" /\ known[v].execution_status = "SUCCEEDED" /\ Owned(d)' =>
                  PostconditionHolds(d)'
             /\ step[v] \in {"record", "evidence"} => Judged(d, known[v])'
  <2>1. ReadOnce(d, known[v])'
    BY <1>2 DEF VerifierTruth, ReadOnce, Kept
  <2>2. ASSUME step[v] = "judge", known[v].execution_status = "SUCCEEDED", Owned(d)'
        PROVE  PostconditionHolds(d)'
    <3>1. Owned(d)
      BY <2>2 DEF Owned, Sole, Changes
    <3>2. PostconditionHolds(d) /\ status[d] = "SUCCEEDED"
      BY <1>2, <2>2, <3>1 DEF VerifierTruth, ReadOnce, Terminal
    <3> QED
      BY <3>1, <3>2 DEF Kept
  <2>3. step[v] \in {"record", "evidence"} => Judged(d, known[v])'
    BY <1>2 DEF VerifierTruth, Judged, Owned, Sole, Changes
  <2> QED
    BY <2>1, <2>2, <2>3
<1> QED
  BY <1>1, <1>2 DEF VerifierTruth

LEMMA OutcomeStays ==
  ASSUME Kept, NEW d \in Decisions, OutcomeTruth(d), outcome'[d] = outcome[d]
  PROVE  OutcomeTruth(d)'
<1>1. Owned(d)' <=> Owned(d)
  BY DEF Owned, Sole, Changes
<1> QED
  BY <1>1 DEF OutcomeTruth, ReadOnce, Judged, Kept

(* A step of a verifier: what is left to show of it is what it then knows.  *)
LEMMA VerifierMoves ==
  ASSUME TypedInv, TruthInv, SystemsInv', Kept, UNCHANGED outcome,
         NEW v \in Verifiers, NEW next, NEW knowledge, Proceed(v, next, knowledge),
         VerifierTruth(v)'
  PROVE  TruthInv'
<1>1. \A u \in Verifiers \ {v} : step'[u] = step[u] /\ known'[u] = known[u]
  BY DEF TypedInv, VerifiersOK, Proceed
<1>2. \A u \in Verifiers \ {v} : VerifierTruth(u)'
  BY <1>1, VerifierWaits DEF TruthInv
<1>3. \A d \in Decisions : OutcomeTruth(d)'
  BY OutcomeStays DEF TruthInv
<1> QED
  BY <1>2, <1>3 DEF TruthInv

(* The tables and the sandbox stay as they are.                             *)
LEMMA VerifierOnly ==
  ASSUME TypedInv, TruthInv, TypedInv', UNCHANGED <<status, claimant, external, pc, command, result>>,
         faults' = 0 => faults = 0
  PROVE  SystemsInv' /\ Kept
<1>1. \A d \in Decisions : /\ PostconditionHolds(d)' <=> PostconditionHolds(d)
                           /\ Reserved(d)' <=> Reserved(d)
  BY ExternalDecides
<1>2. GatewayOK' /\ SystemsInv
  BY DEF TypedInv, TruthInv
<1>3. Kept
  BY <1>1 DEF Kept
<1> QED
  BY <1>1, <1>2, <1>3, SystemsFrame

LEMMA TruthInit == VerificationInit => TruthInv
BY SystemsInit DEF VerificationInit, TruthInv, VerifierTruth, OutcomeTruth

LEMMA TruthStep ==
  ASSUME DistinctRequesters
  PROVE  TypedInv /\ TypedInv' /\ TruthInv /\ [VerificationNext]_allVars => TruthInv'
<1> SUFFICES ASSUME TypedInv, TypedInv', TruthInv, [VerificationNext]_allVars PROVE TruthInv'
  OBVIOUS
<1>0. /\ GatewayOK /\ OutcomesOK /\ SystemsInv /\ TypeOK
      /\ \A v \in Verifiers : KnownOK(v)
      /\ DOMAIN step = Verifiers /\ DOMAIN known = Verifiers
  BY DEF TypedInv, VerifiersOK, TruthInv, GatewayOK
<1>1. ASSUME NEW v \in Verifiers, NEW next, NEW knowledge, Proceed(v, next, knowledge)
      PROVE  step'[v] = next /\ known'[v] = knowledge
  BY <1>0, <1>1 DEF Proceed
<1>2. CASE GatewayStep
  <2>1. Next /\ UNCHANGED outcomeVars
    BY <1>2 DEF GatewayStep, Next
  <2>2. SystemsInv' /\ Kept
    BY <1>0, <1>2, <2>1, SystemsStep, GatewayKeeps
  <2> QED
    BY <2>1, <2>2, VerifierWaits, OutcomeStays DEF outcomeVars, TruthInv
<1>3. ASSUME NEW v \in Verifiers, NEW d \in Decisions, NEW observation \in Observations,
             CallVerify(v, d, observation)
      PROVE  TruthInv'
  <2>1. PICK knowledge :
          knowledge = [decision |-> d, observation |-> observation, execution_status |-> status[d]]
    OBVIOUS
  <2>2. Proceed(v, "hydrate", knowledge) /\ UNCHANGED <<vars, delivered, outcome>>
    BY <1>3, <2>1 DEF CallVerify
  <2>3. SystemsInv' /\ Kept
    BY <2>2, VerifierOnly DEF vars, external
  <2>4. step'[v] = "hydrate" /\ known'[v] = knowledge
    BY <1>1, <2>2
  <2>5. VerifierTruth(v)'
    BY <2>1, <2>2, <2>4 DEF VerifierTruth, ReadOnce, vars
  <2> QED
    BY <2>2, <2>3, <2>5, VerifierMoves
<1>4. ASSUME NEW v \in Verifiers, Hydrate(v) PROVE TruthInv'
  <2>1. /\ step[v] = "hydrate" /\ Proceed(v, "judge", known[v])
        /\ UNCHANGED <<status, claimant, pc, command, result, faults, outcome>>
    BY <1>4 DEF Hydrate
  <2>2. \A e \in Decisions : Owned(e) =>
          \/ /\ PostconditionHolds(e)' <=> PostconditionHolds(e)
             /\ Reserved(e)' <=> Reserved(e)
          \/ status[e] = "SUCCEEDED" /\ InForce(e)'
    BY <1>4, HydrateWrites
  <2>3. SystemsInv' /\ Kept
    <3>1. SystemsInv'
      BY <1>0, <2>1, <2>2, SystemsFrame DEF TypedInv
    <3>2. Kept
      BY <2>1, <2>2 DEF Kept, InForce
    <3> QED
      BY <3>1, <3>2
  <2>4. step'[v] = "judge" /\ known'[v] = known[v]
    BY <1>1, <2>1
  <2>5. ASSUME NEW d \in Decisions, known[v].decision = d
        PROVE  /\ ReadOnce(d, known[v])'
               /\ known[v].execution_status = "SUCCEEDED" => PostconditionHolds(d)'
    <3>1. ReadOnce(d, known[v])'
      BY <2>1, <2>4, <2>5 DEF TruthInv, VerifierTruth, ReadOnce
    <3>2. ASSUME known[v].execution_status = "SUCCEEDED" PROVE PostconditionHolds(d)'
      <4>1. Restored(v) /\ Action(d) \in Actions /\ Order(d) \in Orders
        BY <3>2, ContextType DEF Restored
      <4>2. /\ location \in [Orders -> Locations \cup {NotSeeded}]
            /\ service \in [Orders -> Services \cup {NotSeeded}]
        BY <1>0 DEF TypeOK
      <4>3. CASE Action(d) = "REROUTE"
        BY <1>4, <2>5, <4>1, <4>2, <4>3 DEF Hydrate, PostconditionHolds
      <4>4. CASE Action(d) = "CARRIER_UPGRADE"
        BY <1>4, <2>5, <4>1, <4>2, <4>4 DEF Hydrate, PostconditionHolds
      <4>5. CASE Action(d) = "SPLIT_SHIPMENT"
        BY <1>4, <2>5, <4>1, <4>2, <4>5 DEF Hydrate, PostconditionHolds
      <4> QED
        BY <4>1, <4>3, <4>4, <4>5 DEF Actions
    <3> QED
      BY <3>1, <3>2
  <2>6. VerifierTruth(v)'
    BY <2>4, <2>5 DEF VerifierTruth
  <2> QED
    BY <2>1, <2>3, <2>6, VerifierMoves
<1>5. ASSUME NEW v \in Verifiers, Judge(v) PROVE TruthInv'
  <2>1. step[v] = "judge" /\ UNCHANGED <<vars, delivered, outcome>>
    BY <1>5 DEF Judge
  <2>2. PICK d \in Decisions : d = known[v].decision
    BY <1>0, <2>1 DEF KnownOK
  <2>3. PICK k :
          /\ k = [decision |-> d,
                  status |-> Verdict(known[v].execution_status, PostconditionHolds(d),
                                     delivered[Order(d)]),
                  on_time_delivery_observed |-> delivered[Order(d)],
                  execution_status |-> known[v].execution_status]
          /\ Proceed(v, "record", k)
    BY <1>5, <2>2 DEF Judge
  <2>4. SystemsInv' /\ Kept
    BY <2>1, VerifierOnly DEF vars, external
  <2>5. step'[v] = "record" /\ known'[v] = k /\ k.decision = d
    BY <1>1, <2>3
  <2>6. /\ k.execution_status = known[v].execution_status
        /\ k.status = Verdict(k.execution_status, PostconditionHolds(d), delivered[Order(d)])
    BY <2>3
  <2>7. ReadOnce(d, k)
    BY <2>1, <2>2, <2>6 DEF TruthInv, VerifierTruth, ReadOnce
  <2>8. ASSUME Owned(d)
        PROVE  /\ k.execution_status = "SUCCEEDED" => k.status # "FAILED"
               /\ k.status = "VERIFIED" /\ k.execution_status \in Terminal =>
                    k.execution_status = "SUCCEEDED"
    <3>1. k.execution_status = "SUCCEEDED" => PostconditionHolds(d)
      BY <2>1, <2>2, <2>6, <2>8 DEF TruthInv, VerifierTruth
    <3>2. k.execution_status = "FAILED" => ~ PostconditionHolds(d)
      BY <1>0, <2>7, <2>8 DEF ReadOnce, Terminal, SystemsInv, RowMatches
    <3> QED
      BY <2>6, <3>1, <3>2 DEF Verdict, Terminal
  <2>9. VerifierTruth(v)'
    <3>1. ReadOnce(d, k)' /\ Judged(d, k)'
      BY <2>1, <2>7, <2>8 DEF ReadOnce, Judged, vars, Owned, Sole, Changes
    <3> QED
      BY <2>5, <3>1 DEF VerifierTruth, ReadOnce, Judged, Owned, Sole, Changes
  <2> QED
    BY <2>1, <2>3, <2>4, <2>9, VerifierMoves
<1>6. ASSUME NEW v \in Verifiers, RecordOutcome(v) PROVE TruthInv'
  <2>1. step[v] = "record" /\ UNCHANGED <<vars, delivered>>
    BY <1>6 DEF RecordOutcome
  <2>2. SystemsInv' /\ Kept
    BY <2>1, VerifierOnly DEF vars, external
  <2>3. PICK e \in Decisions : e = known[v].decision
    BY <1>0, <2>1 DEF KnownOK
  <2>4. CASE UNCHANGED outcome /\ End(v)
    <3>1. step'[v] = "idle"
      BY <1>1, <2>4 DEF End
    <3> QED
      BY <2>2, <2>4, <3>1, VerifierMoves, VerifierWaits DEF End, TruthInv
  <2>5. ASSUME outcome[e] = NoOutcome,
               outcome' = [outcome EXCEPT ![e] = OutcomeOf(v)],
               Proceed(v, "evidence", known[v])
        PROVE  TruthInv'
    <3>1. /\ step'[v] = "evidence" /\ known'[v] = known[v]
          /\ \A u \in Verifiers \ {v} : step'[u] = step[u] /\ known'[u] = known[u]
      BY <1>0, <2>5 DEF Proceed
    <3>2. ReadOnce(e, known[v])' /\ Judged(e, known[v])'
      BY <2>1, <2>3, <3>1 DEF TruthInv, VerifierTruth, ReadOnce, Judged, vars, Owned, Sole, Changes
    <3>3. VerifierTruth(v)'
      BY <2>3, <3>1, <3>2 DEF VerifierTruth
    <3>4. \A d \in Decisions : d # e => outcome'[d] = outcome[d]
      BY <1>0, <2>5 DEF OutcomesOK
    <3>5. /\ outcome'[e].status = known[v].status
          /\ outcome'[e].execution_status = known[v].execution_status
      BY <1>0, <2>5 DEF OutcomesOK, OutcomeOf
    <3>6. OutcomeTruth(e)'
      BY <3>1, <3>2, <3>5 DEF OutcomeTruth, ReadOnce, Judged, Owned, Sole, Changes
    <3>7. \A d \in Decisions : OutcomeTruth(d)'
      BY <2>2, <3>4, <3>6, OutcomeStays DEF TruthInv
    <3>8. \A u \in Verifiers : VerifierTruth(u)'
      BY <2>2, <3>1, <3>3, VerifierWaits DEF TruthInv
    <3> QED
      BY <2>2, <3>7, <3>8 DEF TruthInv
  <2> QED
    BY <1>6, <2>3, <2>4, <2>5 DEF RecordOutcome
<1>7. ASSUME NEW v \in Verifiers, RecordEvidence(v) \/ LoseVerifier(v) PROVE TruthInv'
  <2>1. /\ UNCHANGED <<status, claimant, external, pc, command, result, outcome>>
        /\ End(v)
        /\ faults' = 0 => faults = 0
    BY <1>0, <1>7 DEF RecordEvidence, LoseVerifier, TypeOK
  <2>2. SystemsInv' /\ Kept
    BY <2>1, VerifierOnly
  <2>3. step'[v] = "idle"
    BY <1>1, <2>1 DEF End
  <2> QED
    BY <2>1, <2>2, <2>3, VerifierMoves, VerifierWaits DEF End, TruthInv
<1>8. CASE RestartAll
  <2>1. Next /\ UNCHANGED <<status, outcome>>
    BY <1>8 DEF RestartAll, Restart, Next
  <2>2. SystemsInv'
    BY <1>0, <2>1, SystemsStep
  <2>3. \A v \in Verifiers : VerifierTruth(v)'
    BY <1>8 DEF RestartAll, VerifierTruth
  <2>4. \A d \in Decisions : OutcomeTruth(d)'
    BY <2>1 DEF TruthInv, OutcomeTruth, ReadOnce, Judged, Owned, Sole, Changes
  <2> QED
    BY <2>2, <2>3, <2>4 DEF TruthInv
<1>9. CASE UNCHANGED allVars
  <2>1. UNCHANGED vars /\ UNCHANGED outcomeVars
    BY <1>9 DEF allVars
  <2>2. SystemsInv' /\ Kept
    BY <2>1, VerifierOnly DEF vars, external
  <2> QED
    BY <2>1, <2>2, VerifierWaits, OutcomeStays DEF outcomeVars, TruthInv
<1> QED
  BY <1>2, <1>3, <1>4, <1>5, <1>6, <1>7, <1>8, <1>9 DEF VerificationNext, VerifyStep

LEMMA TruthInvariant == ASSUME DistinctRequesters PROVE VerificationSpec => []TruthInv
BY TruthInit, TruthStep, TypedInvariant, PTL DEF VerificationSpec

(* An action that had succeeded when it was verified is not reported as     *)
(* failed, whatever restarts have emptied and however many verifications    *)
(* bring it back (verify, hydrate_from_durable_action).                     *)
THEOREM SucceededIsNotFailed ==
  ASSUME DistinctRequesters PROVE VerificationSpec => []SucceededNotFailed
<1>1. TruthInv => SucceededNotFailed
  BY DEF TruthInv, OutcomeTruth, Judged, Owned, SucceededNotFailed
<1> QED
  BY <1>1, TruthInvariant, PTL

(* Of the actions that were over when they were verified only those that    *)
(* had succeeded, and so still say so, count as verified (verify).          *)
THEOREM VerifiedHasSucceeded ==
  ASSUME DistinctRequesters PROVE VerificationSpec => []VerifiedSucceeded
<1>1. TruthInv /\ TypedInv => VerifiedSucceeded
  BY DEF TruthInv, OutcomeTruth, ReadOnce, Judged, Owned, VerifiedSucceeded, NoOutcome
<1> QED
  BY <1>1, TruthInvariant, TypedInvariant, PTL

============================================================================
