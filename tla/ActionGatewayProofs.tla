------------------------ MODULE ActionGatewayProofs ------------------------
(* Theorems about ActionGateway, for every number of threads, decisions and *)
(* orders and every bound on faults.                                        *)
EXTENDS ActionGateway, TLAPS

USE ContextAssumption, NotSeededAssumption, NoDecisionAssumption,
    RequesterAssumption, GatewayBoundsAssumption

(* What a thread knows of its call: a busy thread has a decision, in a saga  *)
(* the decision has a row, the steps are those of its action class, and in   *)
(* the end there is a final status to persist.                               *)
CallOK(t) ==
  /\ pc[t] # "idle" => command[t] \in Decisions
  /\ InSaga(t) => status[command[t]] # "NONE"
  /\ pc[t] \in {"update", "record_execution"} => result[t] \in Terminal
  /\ pc[t] \in {"reserve_alternative", "change_location", "verify_change",
                "restore_location", "release_alternative"} =>
       Action(command[t]) = "REROUTE"
  /\ pc[t] = "upgrade_carrier" => Action(command[t]) = "CARRIER_UPGRADE"
  /\ pc[t] = "create_split" => Action(command[t]) = "SPLIT_SHIPMENT"
  /\ pc[t] \in {"verify_ambiguous", "verify_failed", "undo"} =>
       Action(command[t]) \in {"CARRIER_UPGRADE", "SPLIT_SHIPMENT"}

CallsOK == \A t \in Threads : CallOK(t)

----------------------------------------------------------------------------
(* Type correctness                                                         *)

(* A context has an order, an action class, two locations and two services. *)
LEMMA ContextType ==
  ASSUME NEW d \in Decisions
  PROVE  /\ Order(d) \in Orders
         /\ Action(d) \in Actions
         /\ Context[d].current_fulfilment_location \in Locations
         /\ Context[d].alternative_location_id \in Locations
         /\ Context[d].current_carrier_service \in Services
         /\ Context[d].upgraded_carrier_service \in Services
  BY DEF Contexts, Order, Action

(* What the gateway does to the autonomy tables keeps their types.          *)
LEMMA AutonomyType ==
  ASSUME Autonomy!TypeOK, NEW d \in Decisions, NEW s \in Terminal,
         Autonomy!RecordExecution(d, s)
  PROVE  Autonomy!TypeOK'
<1> DEFINE id == [kind |-> "execution", decision |-> d]
           row == profile[Context[d].action]
<1>1. /\ row \in Autonomy!Profiles
      /\ Context[d].action \in Actions
  BY ContextType DEF Autonomy!TypeOK, Action
<1>2. CASE UNCHANGED <<killSwitch, profile, evidence>>
  BY <1>2 DEF Autonomy!TypeOK
<1>3. ASSUME NEW c \in BOOLEAN,
             evidence' = evidence \cup {Autonomy!EvidenceRow(id, FALSE, c)},
             profile' = [profile EXCEPT ![Context[d].action] =
                           Autonomy!AfterFailure(@, c)],
             killSwitch' = killSwitch
      PROVE  Autonomy!TypeOK'
  <2>1. Autonomy!EvidenceRow(id, FALSE, c) \in Autonomy!EvidenceRows
    BY <1>1 DEF Autonomy!EvidenceRow, Autonomy!EvidenceRows, Autonomy!EvidenceIds
  <2>2. Autonomy!AfterFailure(row, c) \in Autonomy!Profiles
    <3>1. /\ row.level \in Autonomy!Levels
          /\ row.verified_successes \in Nat
          /\ row.consecutive_verified_successes \in Nat
          /\ row.compensation_count \in Nat
          /\ row.failure_count \in Nat
          /\ row.version \in Nat
      BY <1>1 DEF Autonomy!Profiles
    <3>2. /\ row.failure_count + 1 \in Nat
          /\ (IF c THEN row.compensation_count + 1
                   ELSE row.compensation_count) \in Nat
          /\ Autonomy!LevelAfterFailure(row.level) \in Autonomy!Levels
          /\ row.version + 1 \in Nat
      BY <3>1 DEF Autonomy!LevelAfterFailure, Autonomy!Levels
    <3> QED
      BY <1>1, <3>1, <3>2 DEF Autonomy!AfterFailure, Autonomy!Profiles
  <2> QED
    BY <1>1, <1>3, <2>1, <2>2 DEF Autonomy!TypeOK
<1> QED
  <2>1. \/ UNCHANGED <<killSwitch, profile, evidence>>
        \/ \E c \in BOOLEAN :
             /\ evidence' = evidence \cup {Autonomy!EvidenceRow(id, FALSE, c)}
             /\ profile' = [profile EXCEPT ![Context[d].action] =
                              Autonomy!AfterFailure(@, c)]
             /\ killSwitch' = killSwitch
    BY DEF Autonomy!RecordExecution, Autonomy!RecordEvidence, Autonomy!autonomyVars
  <2> QED
    BY <1>2, <1>3, <2>1

LEMMA TypeInit == Init => TypeOK /\ CallsOK
  BY DEF Init, TypeOK, CallsOK, CallOK, InSaga, SagaSteps, Statuses, Terminal, Steps, NotKnown,
         Autonomy!Init, Autonomy!TypeOK, Autonomy!BootstrapProfile,
         Autonomy!Profiles, Autonomy!Levels

LEMMA TypeStep == TypeOK /\ CallsOK /\ [Next]_vars => TypeOK' /\ CallsOK'
<1> SUFFICES ASSUME TypeOK, CallsOK, [Next]_vars PROVE TypeOK' /\ CallsOK'
  OBVIOUS
<1> USE DEF TypeOK, CallsOK, CallOK, InSaga, Goto, Continue, Finish, Return, Steps,
            ClaimSteps, SagaSteps, Terminal, Statuses, Actions
<1>0. ASSUME UNCHANGED autonomyRows PROVE Autonomy!TypeOK'
  BY <1>0 DEF autonomyRows, Autonomy!TypeOK
<1>1. ASSUME NEW t \in Threads, NEW d \in Decisions, Call(t, d)
      PROVE  TypeOK' /\ CallsOK'
  BY <1>0, <1>1 DEF Call, external
<1>2. ASSUME NEW t \in Threads, CheckKillSwitch(t) PROVE TypeOK' /\ CallsOK'
  BY <1>0, <1>2 DEF CheckKillSwitch, external
<1>3. ASSUME NEW t \in Threads, GetByDecision(t) PROVE TypeOK' /\ CallsOK'
  BY <1>0, <1>3 DEF GetByDecision, external
<1>4. ASSUME NEW t \in Threads, RecordExecuting(t) PROVE TypeOK' /\ CallsOK'
  BY <1>0, <1>4 DEF RecordExecuting, Insertable, external
<1>23. ASSUME NEW t \in Threads, FindByKey(t) PROVE TypeOK' /\ CallsOK'
  BY <1>0, <1>23 DEF FindByKey, external
<1>5. ASSUME NEW t \in Threads, SeedOrder(t) PROVE TypeOK' /\ CallsOK'
  BY <1>0, <1>5, ContextType DEF SeedOrder, SetDefault, FirstStep
<1>6. ASSUME NEW t \in Threads, ReserveAlternative(t) PROVE TypeOK' /\ CallsOK'
  BY <1>0, <1>6, ContextType
     DEF ReserveAlternative, AfterReserve, Reservation
<1>7. ASSUME NEW t \in Threads, ChangeLocation(t) PROVE TypeOK' /\ CallsOK'
  BY <1>0, <1>7, ContextType DEF ChangeLocation, AfterChange
<1>8. ASSUME NEW t \in Threads, VerifyChange(t) PROVE TypeOK' /\ CallsOK'
  BY <1>0, <1>8 DEF VerifyChange, external
<1>9. ASSUME NEW t \in Threads, RestoreLocation(t) PROVE TypeOK' /\ CallsOK'
  BY <1>0, <1>9, ContextType DEF RestoreLocation
<1>10. ASSUME NEW t \in Threads, ReleaseAlternative(t) PROVE TypeOK' /\ CallsOK'
  BY <1>0, <1>10 DEF ReleaseAlternative, Released
<1>11. ASSUME NEW t \in Threads, UpgradeCarrier(t) PROVE TypeOK' /\ CallsOK'
  BY <1>0, <1>11, ContextType DEF UpgradeCarrier, AfterSingleWrite
<1>12. ASSUME NEW t \in Threads, CreateSplit(t) PROVE TypeOK' /\ CallsOK'
  <2>1. Order(command[t]) \in Orders
    BY <1>12, ContextType DEF CreateSplit
  <2>2. splits' \subseteq Orders
    BY <1>12, <2>1 DEF CreateSplit
  <2> QED
    BY <1>0, <1>12, <2>2 DEF CreateSplit, AfterSingleWrite
<1>13. ASSUME NEW t \in Threads, VerifyAmbiguous(t) PROVE TypeOK' /\ CallsOK'
  BY <1>0, <1>13 DEF VerifyAmbiguous, external
<1>14. ASSUME NEW t \in Threads, VerifyFailed(t) PROVE TypeOK' /\ CallsOK'
  BY <1>0, <1>14 DEF VerifyFailed, external
<1>15. ASSUME NEW t \in Threads, RestoreCarrier(t) PROVE TypeOK' /\ CallsOK'
  BY <1>0, <1>15, ContextType DEF RestoreCarrier
<1>16. ASSUME NEW t \in Threads, CancelSplit(t) PROVE TypeOK' /\ CallsOK'
  BY <1>0, <1>16 DEF CancelSplit
<1>17. ASSUME NEW t \in Threads, Update(t) PROVE TypeOK' /\ CallsOK'
  BY <1>0, <1>17 DEF Update, external
<1>18. ASSUME NEW t \in Threads, RecordExecution(t) PROVE TypeOK' /\ CallsOK'
  <2>1. Autonomy!TypeOK'
    BY <1>18, AutonomyType DEF RecordExecution
  <2> QED
    BY <1>18, <2>1 DEF RecordExecution, external
<1>19. ASSUME NEW active \in BOOLEAN, SetKillSwitch(active)
       PROVE  TypeOK' /\ CallsOK'
  <2>1. Autonomy!TypeOK'
    BY <1>19 DEF SetKillSwitch, Autonomy!SetKillSwitch, Autonomy!TypeOK
  <2> QED
    BY <1>19, <2>1 DEF SetKillSwitch, external
<1>20. ASSUME NEW t \in Threads, LoseThread(t) PROVE TypeOK' /\ CallsOK'
  BY <1>0, <1>20 DEF LoseThread, external
<1>21. CASE Restart
  BY <1>0, <1>21 DEF Restart, NotKnown
<1>22. CASE UNCHANGED vars
  BY <1>22 DEF vars, Autonomy!TypeOK
<1> QED
  BY <1>1, <1>2, <1>3, <1>4, <1>5, <1>6, <1>7, <1>8, <1>9, <1>10, <1>11, <1>12,
     <1>13, <1>14, <1>15, <1>16, <1>17, <1>18, <1>19, <1>20, <1>21, <1>22, <1>23
     DEF Next, Step

(* Every reachable state of the gateway is well typed.                      *)
THEOREM TypeCorrect == Spec => []TypeOK
  BY TypeInit, TypeStep, PTL DEF Spec

----------------------------------------------------------------------------
(* What a step of a thread can disturb                                      *)

LEMMA StepMoves ==
  ASSUME NEW t \in Threads, Step(t)
  PROVE  /\ pc[t] # "idle"
         /\ \/ \E step : Continue(t, step)
            \/ \E s : Finish(t, s)
            \/ Return(t)
         /\ status' = status \/ RecordExecuting(t) \/ Update(t)
  BY DEF Step, CheckKillSwitch, GetByDecision, FindByKey, RecordExecuting,
         SeedOrder, ReserveAlternative, ChangeLocation, VerifyChange,
         RestoreLocation, ReleaseAlternative, UpgradeCarrier, CreateSplit,
         VerifyAmbiguous, VerifyFailed, RestoreCarrier, CancelSplit, Update,
         RecordExecution, AfterReserve, AfterChange, AfterSingleWrite

LEMMA StepIsLocal ==
  ASSUME TypeOK, CallsOK, NEW t \in Threads, Step(t)
  PROVE  /\ \A u \in Threads \ {t} :
              pc'[u] = pc[u] /\ command'[u] = command[u] /\ result'[u] = result[u]
         /\ InSaga(t)' => command'[t] = command[t] /\ command[t] \in Decisions
         /\ faults' = faults
<1>1. command[t] \in Decisions
  BY StepMoves DEF CallsOK, CallOK
<1>2. CASE \E step : Continue(t, step)
  BY <1>1, <1>2 DEF Continue, Goto, TypeOK
<1>3. CASE \E s : Finish(t, s)
  BY <1>1, <1>3 DEF Finish, Goto, TypeOK
<1>4. CASE Return(t)
  BY <1>4 DEF Return, Goto, TypeOK, InSaga, SagaSteps
<1> QED
  BY <1>2, <1>3, <1>4, StepMoves

----------------------------------------------------------------------------
(* One saga per decision.  Between the claim and the update of its row only *)
(* the claiming thread has the decision in a step of the saga; the claim    *)
(* needs a decision without a row, so it never makes a second one.          *)

(* A thread on its way to the insert never finds its own command: the row    *)
(* would have been there when it looked by decision, and nobody else sends   *)
(* that command.                                                            *)
FirstClaims ==
  /\ \A d \in Decisions : status[d] = "NONE" => claimant[d] = NoRequester
  /\ \A t \in Threads :
       pc[t] \in {"record", "insert"} => claimant[command[t]] # RequestedBy[t]

(* Every step of a thread but the claim and the update leaves the rows      *)
(* alone, keeps the thread in its saga or takes it out, and touches no      *)
(* other thread.                                                            *)
Quiet(t) ==
  /\ status' = status
  /\ claimant' = claimant
  /\ \A u \in Threads \ {t} :
       pc'[u] = pc[u] /\ command'[u] = command[u] /\ result'[u] = result[u]
  /\ InSaga(t)' => InSaga(t) /\ command'[t] = command[t]
  /\ pc'[t] # "record_execution"
  /\ pc[t] = "record_execution" => pc'[t] = "idle"

LEMMA StepIsQuiet ==
  ASSUME TypeOK, CallsOK, FirstClaims, NEW t \in Threads, Step(t)
  PROVE  Quiet(t) \/ RecordExecuting(t) \/ Update(t)
<1> USE DEF TypeOK, Quiet, InSaga, Goto, Continue, Finish, Return, SagaSteps
<1>1. CASE CheckKillSwitch(t)
  BY <1>1 DEF CheckKillSwitch
<1>2. CASE GetByDecision(t)
  BY <1>2 DEF GetByDecision
<1>3. CASE SeedOrder(t)
  <2>1. FirstStep(command[t]) \in {"reserve_alternative", "upgrade_carrier",
                                   "create_split"}
    BY <1>3, ContextType DEF SeedOrder, FirstStep, Actions, CallsOK, CallOK
  <2> QED
    BY <1>3, <2>1 DEF SeedOrder
<1>4. CASE ReserveAlternative(t)
  BY <1>4 DEF ReserveAlternative, AfterReserve
<1>5. CASE ChangeLocation(t)
  BY <1>5 DEF ChangeLocation, AfterChange
<1>6. CASE VerifyChange(t)
  BY <1>6 DEF VerifyChange
<1>7. CASE RestoreLocation(t)
  BY <1>7 DEF RestoreLocation
<1>8. CASE ReleaseAlternative(t)
  BY <1>8 DEF ReleaseAlternative
<1>9. CASE UpgradeCarrier(t)
  BY <1>9 DEF UpgradeCarrier, AfterSingleWrite
<1>10. CASE CreateSplit(t)
  BY <1>10 DEF CreateSplit, AfterSingleWrite
<1>11. CASE VerifyAmbiguous(t)
  BY <1>11 DEF VerifyAmbiguous
<1>12. CASE VerifyFailed(t)
  BY <1>12 DEF VerifyFailed
<1>13. CASE RestoreCarrier(t)
  BY <1>13 DEF RestoreCarrier
<1>14. CASE CancelSplit(t)
  BY <1>14 DEF CancelSplit
<1>15. CASE RecordExecution(t)
  BY <1>15 DEF RecordExecution
<1>16. CASE FindByKey(t)
  BY <1>16 DEF FindByKey, FirstClaims
<1> QED
  BY <1>1, <1>2, <1>3, <1>4, <1>5, <1>6, <1>7, <1>8, <1>9, <1>10, <1>11, <1>12,
     <1>13, <1>14, <1>15, <1>16 DEF Step

(* The row a thread has just updated holds the status it goes on to report. *)
Persisted ==
  \A t \in Threads : pc[t] = "record_execution" => status[command[t]] = result[t]

SagaInv == TypeOK /\ CallsOK /\ FirstClaims /\ SagaExclusive /\ Persisted

LEMMA SagaInit == Init => SagaInv
  BY TypeInit DEF Init, SagaInv, FirstClaims, SagaExclusive, InSaga, SagaSteps,
                  Persisted

LEMMA StepAvoidsInsert ==
  ASSUME TypeOK, CallsOK, NEW t \in Threads, Step(t),
         ~ GetByDecision(t), ~ FindByKey(t)
  PROVE  pc'[t] \notin {"record", "insert"}
<1>1. CASE SeedOrder(t)
  <2>1. command[t] \in Decisions
    BY StepMoves DEF CallsOK, CallOK
  <2>2. FirstStep(command[t]) \notin {"record", "insert"}
    BY <2>1, ContextType DEF FirstStep, Actions
  <2> QED
    BY <1>1, <2>2 DEF SeedOrder, Continue, Goto, TypeOK
<1>2. CASE ~ SeedOrder(t)
  BY <1>2
     DEF Step, CheckKillSwitch, RecordExecuting, ReserveAlternative, ChangeLocation,
         VerifyChange, RestoreLocation, ReleaseAlternative, UpgradeCarrier,
         CreateSplit, VerifyAmbiguous, VerifyFailed, RestoreCarrier, CancelSplit,
         Update, RecordExecution, AfterReserve, AfterChange, AfterSingleWrite,
         Continue, Finish, Return, Goto, TypeOK
<1> QED
  BY <1>1, <1>2

LEMMA ClaimsStep ==
  ASSUME DistinctRequesters, TypeOK, CallsOK, FirstClaims, [Next]_vars
  PROVE  FirstClaims'
<1> USE DEF FirstClaims, TypeOK, CallsOK, CallOK, Goto, Continue, Finish, Return
<1>1. ASSUME NEW t \in Threads, status' = status, claimant' = claimant,
             pc'[t] \notin {"record", "insert"},
             \A u \in Threads \ {t} : pc'[u] = pc[u] /\ command'[u] = command[u]
      PROVE  FirstClaims'
  BY <1>1
<1>2. ASSUME NEW t \in Threads, NEW d \in Decisions, Call(t, d)
      PROVE  FirstClaims'
  BY <1>1, <1>2 DEF Call
<1>3. ASSUME NEW t \in Threads, LoseThread(t) PROVE FirstClaims'
  BY <1>1, <1>3 DEF LoseThread
<1>4. ASSUME NEW t \in Threads, GetByDecision(t) PROVE FirstClaims'
  <2>1. command[t] \in Decisions
    BY <1>4 DEF GetByDecision
  <2>2. pc'[t] = "record" => claimant[command[t]] = NoRequester
    BY <1>4, <2>1 DEF GetByDecision
  <2> QED
    BY <1>4, <2>2 DEF GetByDecision
<1>5. ASSUME NEW t \in Threads, FindByKey(t) PROVE FirstClaims'
  BY <1>5 DEF FindByKey
<1>6. ASSUME NEW t \in Threads, RecordExecuting(t) PROVE FirstClaims'
  BY <1>6 DEF RecordExecuting, Insertable, DistinctRequesters
<1>7. ASSUME NEW t \in Threads, Update(t) PROVE FirstClaims'
  BY <1>7 DEF Update, Terminal
<1>8. ASSUME NEW t \in Threads, Step(t) PROVE FirstClaims'
  <2>1. CASE Quiet(t) /\ ~ GetByDecision(t) /\ ~ FindByKey(t)
    <3>1. pc'[t] \notin {"record", "insert"}
      BY <1>8, <2>1, StepAvoidsInsert
    <3> QED
      BY <1>1, <2>1, <3>1 DEF Quiet
  <2> QED
    BY <1>4, <1>5, <1>6, <1>7, <1>8, <2>1, StepIsQuiet
<1>9. CASE Restart
  BY <1>9 DEF Restart
<1>10. CASE UNCHANGED vars \/ \E active \in BOOLEAN : SetKillSwitch(active)
  BY <1>10 DEF vars, SetKillSwitch
<1> QED
  BY <1>2, <1>3, <1>8, <1>9, <1>10 DEF Next

LEMMA SagaStep ==
  ASSUME DistinctRequesters PROVE SagaInv /\ [Next]_vars => SagaInv'
<1> SUFFICES ASSUME SagaInv, [Next]_vars PROVE SagaExclusive' /\ Persisted'
  BY TypeStep, ClaimsStep DEF SagaInv
<1> USE DEF SagaInv, SagaExclusive, Persisted, InSaga
<1>1. ASSUME NEW t \in Threads, Quiet(t) PROVE SagaExclusive' /\ Persisted'
  BY <1>1 DEF Quiet
<1>2. ASSUME NEW t \in Threads, RecordExecuting(t)
      PROVE  SagaExclusive' /\ Persisted'
  <2>1. CASE ~ Insertable(command[t])
    BY <1>2, <2>1 DEF RecordExecuting, Return, Goto, TypeOK, SagaSteps
  <2>2. CASE Insertable(command[t])
    <3> DEFINE d == command[t]
    <3>1. /\ d \in Decisions
          /\ status[d] = "NONE"
          /\ status' = [status EXCEPT ![d] = "EXECUTING"]
          /\ pc' = [pc EXCEPT ![t] = "seed_order"]
          /\ command' = command /\ result' = result
      BY <1>2, <2>2 DEF RecordExecuting, Insertable, Continue, Goto, CallsOK, CallOK
    <3>2. \A u \in Threads : InSaga(u) => command[u] # d
      BY <3>1
    <3>3. \A u \in Threads : pc[u] = "record_execution" => command[u] # d
      BY <3>1 DEF CallsOK, CallOK, Terminal
    <3> QED
      BY <3>1, <3>2, <3>3 DEF TypeOK, CallsOK, CallOK, SagaSteps
  <2> QED
    BY <2>1, <2>2
<1>3. ASSUME NEW t \in Threads, Update(t) PROVE SagaExclusive' /\ Persisted'
  <2> DEFINE d == command[t]
  <2>1. /\ d \in Decisions /\ InSaga(t)
        /\ status' = [status EXCEPT ![d] = result[t]]
        /\ pc' = [pc EXCEPT ![t] = "record_execution"]
        /\ command' = command /\ result' = result
    BY <1>3 DEF Update, Continue, Goto, CallsOK, CallOK, SagaSteps
  <2>2. \A u \in Threads \ {t} : InSaga(u) => command[u] # d
    BY <2>1
  <2>3. \A u \in Threads : pc[u] = "record_execution" => command[u] # d
    BY <2>1 DEF CallsOK, CallOK, Terminal
  <2> QED
    BY <2>1, <2>2, <2>3 DEF TypeOK, CallsOK, CallOK, SagaSteps
<1>4. ASSUME NEW t \in Threads, NEW d \in Decisions, Call(t, d)
      PROVE  SagaExclusive' /\ Persisted'
  BY <1>4 DEF Call, Goto, TypeOK, SagaSteps
<1>5. ASSUME NEW active \in BOOLEAN, SetKillSwitch(active)
      PROVE  SagaExclusive' /\ Persisted'
  BY <1>5 DEF SetKillSwitch
<1>6. ASSUME NEW t \in Threads, LoseThread(t) PROVE SagaExclusive' /\ Persisted'
  BY <1>6 DEF LoseThread, Goto, TypeOK, SagaSteps
<1>7. CASE Restart
  BY <1>7 DEF Restart, SagaSteps
<1>8. CASE UNCHANGED vars
  BY <1>8 DEF vars
<1> QED
  BY <1>1, <1>2, <1>3, <1>4, <1>5, <1>6, <1>7, <1>8, StepIsQuiet DEF Next

LEMMA SagaInvariant == ASSUME DistinctRequesters PROVE Spec => []SagaInv
  BY SagaInit, SagaStep, PTL DEF Spec

(* At most one thread executes a decision's action, and its row says so, as *)
(* long as no two calls in progress send the same command.                  *)
THEOREM OneSagaPerDecision ==
  ASSUME DistinctRequesters PROVE Spec => []SagaExclusive
  BY SagaInvariant, PTL DEF SagaInv

(* The threads implement the life cycle of the action table: an action is   *)
(* claimed once and completed once.                                         *)
THEOREM GatewayImplementsLifecycle ==
  ASSUME DistinctRequesters PROVE Spec => ImplementsLifecycle
<1>1. Init => Lifecycle!Init
  BY DEF Init, Lifecycle!Init
<1>2. SagaInv /\ [Next]_vars => [Lifecycle!Next]_status
  <2> SUFFICES ASSUME SagaInv, [Next]_vars PROVE Lifecycle!Next \/ status' = status
    OBVIOUS
  <2>1. ASSUME NEW t \in Threads, RecordExecuting(t)
        PROVE  Lifecycle!Next \/ status' = status
    <3>1. command[t] \in Decisions
      BY <2>1 DEF RecordExecuting, SagaInv, CallsOK, CallOK
    <3> QED
      BY <2>1, <3>1 DEF RecordExecuting, Insertable, Lifecycle!Next, Lifecycle!Claim
  <2>2. ASSUME NEW t \in Threads, Update(t) PROVE Lifecycle!Next
    <3>1. /\ command[t] \in Decisions
          /\ result[t] \in {"SUCCEEDED", "COMPENSATED", "FAILED"}
          /\ status[command[t]] = "EXECUTING"
      BY <2>2 DEF Update, SagaInv, CallsOK, CallOK, SagaExclusive, InSaga, SagaSteps,
                  Terminal
    <3> QED
      BY <2>2, <3>1 DEF Update, Lifecycle!Next, Lifecycle!Complete
  <2>3. ASSUME NEW t \in Threads, Quiet(t) PROVE status' = status
    BY <2>3 DEF Quiet
  <2>4. ASSUME NEW t \in Threads, NEW d \in Decisions, Call(t, d)
        PROVE  status' = status
    BY <2>4 DEF Call
  <2>5. ASSUME NEW active \in BOOLEAN, SetKillSwitch(active) PROVE status' = status
    BY <2>5 DEF SetKillSwitch
  <2>6. ASSUME NEW t \in Threads, LoseThread(t) PROVE status' = status
    BY <2>6 DEF LoseThread
  <2>7. CASE Restart
    BY <2>7 DEF Restart
  <2>8. CASE UNCHANGED vars
    BY <2>8 DEF vars
  <2> QED
    BY <2>1, <2>2, <2>3, <2>4, <2>5, <2>6, <2>7, <2>8, StepIsQuiet
       DEF Next, SagaInv
<1> QED
  BY <1>1, <1>2, SagaInvariant, PTL DEF Spec, ImplementsLifecycle, Lifecycle!Spec

----------------------------------------------------------------------------
(* Evidence follows the row: it is written after the row is final and says  *)
(* what the row says.                                                       *)

LEMMA OnlyRecordExecutionWritesEvidence ==
  ASSUME NEW t \in Threads, Step(t)
  PROVE  evidence' = evidence \/ RecordExecution(t)
  BY DEF Step, autonomyRows, CheckKillSwitch, GetByDecision, FindByKey, RecordExecuting,
         SeedOrder, ReserveAlternative, ChangeLocation, VerifyChange,
         RestoreLocation, ReleaseAlternative, UpgradeCarrier, CreateSplit,
         VerifyAmbiguous, VerifyFailed, RestoreCarrier, CancelSplit, Update

LEMMA EvidenceStep ==
  SagaInv /\ EvidenceMatchesStatus /\ [Next]_vars => EvidenceMatchesStatus'
<1> SUFFICES ASSUME SagaInv, EvidenceMatchesStatus, [Next]_vars
             PROVE  EvidenceMatchesStatus'
  OBVIOUS
<1> USE DEF EvidenceMatchesStatus
<1>1. CASE evidence' = evidence /\ status' = status
  BY <1>1
<1>2. ASSUME NEW d \in Decisions, evidence' = evidence,
             status[d] \in {"NONE", "EXECUTING"},
             \E s \in Statuses : status' = [status EXCEPT ![d] = s]
      PROVE  EvidenceMatchesStatus'
  <2>1. \A row \in evidence : row.id.decision # d
    BY <1>2
  <2> QED
    BY <1>2, <2>1 DEF SagaInv, TypeOK
<1>3. ASSUME NEW t \in Threads, RecordExecution(t) PROVE EvidenceMatchesStatus'
  <2> DEFINE d == command[t]
             row == Autonomy!EvidenceRow([kind |-> "execution", decision |-> d],
                                         FALSE, result[t] = "COMPENSATED")
  <2>1. /\ status' = status
        /\ status[d] = result[t]
        /\ evidence' = evidence
           \/ /\ evidence' = evidence \cup {row}
              /\ result[t] \in {"COMPENSATED", "FAILED"}
    BY <1>3 DEF RecordExecution, Autonomy!RecordExecution, Autonomy!RecordEvidence,
                Autonomy!autonomyVars, SagaInv, Persisted
  <2>2. row.id.decision = d /\ row.compensated = (result[t] = "COMPENSATED")
    BY DEF Autonomy!EvidenceRow
  <2> HIDE DEF row
  <2> QED
    BY <2>1, <2>2
<1>4. ASSUME NEW t \in Threads, Step(t) PROVE EvidenceMatchesStatus'
  <2>1. CASE RecordExecution(t)
    BY <1>3, <2>1
  <2>2. CASE evidence' = evidence /\ Quiet(t)
    BY <1>1, <2>2 DEF Quiet
  <2>3. CASE evidence' = evidence /\ RecordExecuting(t)
    <3>1. command[t] \in Decisions
      BY <2>3 DEF RecordExecuting, SagaInv, CallsOK, CallOK
    <3> QED
      BY <1>1, <1>2, <2>3, <3>1 DEF RecordExecuting, Insertable, Statuses
  <2>4. CASE evidence' = evidence /\ Update(t)
    <3>1. /\ command[t] \in Decisions
          /\ result[t] \in Statuses
          /\ status[command[t]] = "EXECUTING"
      BY <2>4 DEF Update, SagaInv, CallsOK, CallOK, SagaExclusive, InSaga, SagaSteps,
                  Terminal, Statuses
    <3> QED
      BY <1>2, <2>4, <3>1 DEF Update
  <2> QED
    BY <1>4, <2>1, <2>2, <2>3, <2>4, StepIsQuiet, OnlyRecordExecutionWritesEvidence
       DEF SagaInv
<1>5. ASSUME NEW t \in Threads, NEW d \in Decisions, Call(t, d)
      PROVE  EvidenceMatchesStatus'
  BY <1>1, <1>5 DEF Call, autonomyRows
<1>6. ASSUME NEW active \in BOOLEAN, SetKillSwitch(active)
      PROVE  EvidenceMatchesStatus'
  BY <1>1, <1>6 DEF SetKillSwitch, Autonomy!SetKillSwitch
<1>7. ASSUME NEW t \in Threads, LoseThread(t) PROVE EvidenceMatchesStatus'
  BY <1>1, <1>7 DEF LoseThread, autonomyRows
<1>8. CASE Restart
  BY <1>1, <1>8 DEF Restart, autonomyRows
<1>9. CASE UNCHANGED vars
  BY <1>1, <1>9 DEF vars
<1> QED
  BY <1>4, <1>5, <1>6, <1>7, <1>8, <1>9 DEF Next

(* Failure evidence exists only for actions that failed or were compensated, *)
(* and tells the two apart.                                                 *)
THEOREM EvidenceIsTruthful ==
  ASSUME DistinctRequesters PROVE Spec => []EvidenceMatchesStatus
<1>1. Init => EvidenceMatchesStatus
  BY DEF Init, Autonomy!Init, EvidenceMatchesStatus
<1> QED
  BY <1>1, EvidenceStep, SagaInvariant, PTL DEF Spec

----------------------------------------------------------------------------
(* Status and systems of record.  StatusMatchesSystems is not inductive: it *)
(* says nothing of an action in progress.  The strengthening says what each *)
(* step of a saga may rely on.  An order's state of one kind belongs to one *)
(* decision (Sole), so only that decision's one thread disturbs it.         *)

Owned(d) == Sole(d) /\ Changes(d)

Clean(d) == ~ PostconditionHolds(d) /\ ~ Reserved(d)

InForce(d) == PostconditionHolds(d) /\ (Action(d) = "REROUTE" => Reserved(d))

Matches(d, s) ==
  /\ s = "SUCCEEDED" => InForce(d)
  /\ s = "COMPENSATED" => Clean(d)
  /\ s = "FAILED" => ~ PostconditionHolds(d)

ThreadMatches(t) ==
  InSaga(t) /\ Owned(command[t]) =>
    /\ pc[t] \in {"seed_order", "reserve_alternative", "upgrade_carrier",
                  "create_split"} => Clean(command[t])
    /\ pc[t] \in {"change_location", "release_alternative"} =>
         ~ PostconditionHolds(command[t])
    /\ pc[t] \in {"change_location", "verify_change"} => Reserved(command[t])
    /\ pc[t] = "update" => Matches(command[t], result[t])

RowMatches(d) ==
  Owned(d) =>
    /\ status[d] = "NONE" => Clean(d)
    /\ status[d] = "SUCCEEDED" /\ faults = 0 => InForce(d)
    /\ status[d] = "COMPENSATED" => Clean(d)
    /\ status[d] = "FAILED" => ~ PostconditionHolds(d)

SystemsInv ==
  /\ SagaInv
  /\ \A t \in Threads : ThreadMatches(t)
  /\ \A d \in Decisions : RowMatches(d)

(* What a thread does for one decision leaves the state another decision    *)
(* owns alone; seeding included, as both know the order in the same place.  *)
LEMMA OthersUntouched ==
  ASSUME TypeOK, CallsOK, NEW t \in Threads, Step(t),
         NEW d \in Decisions, Owned(d), command[t] # d
  PROVE  /\ PostconditionHolds(d)' <=> PostconditionHolds(d)
         /\ Reserved(d)' <=> Reserved(d)
<1> DEFINE e == command[t]
<1> USE DEF CallsOK, CallOK
<1>1. CASE UNCHANGED external
  BY <1>1 DEF external, PostconditionHolds, Reserved
<1>2. CASE SeedOrder(t)
  <2>1. e \in Decisions
    BY <1>2 DEF SeedOrder
  <2>2. Order(e) = Order(d) =>
          /\ Context[e].current_fulfilment_location
               = Context[d].current_fulfilment_location
          /\ Context[e].current_carrier_service = Context[d].current_carrier_service
    BY <2>1 DEF Owned, Sole
  <2>3. /\ Context[d].alternative_location_id # NotSeeded
        /\ Context[d].alternative_location_id # Context[d].current_fulfilment_location
        /\ Context[d].upgraded_carrier_service # NotSeeded
        /\ Context[d].upgraded_carrier_service # Context[d].current_carrier_service
    BY ContextType DEF Owned, Changes
  <2>4. /\ location'[Order(d)] = location[Order(d)]
           \/ /\ location[Order(d)] = NotSeeded
              /\ location'[Order(d)] = Context[d].current_fulfilment_location
        /\ service'[Order(d)] = service[Order(d)]
           \/ /\ service[Order(d)] = NotSeeded
              /\ service'[Order(d)] = Context[d].current_carrier_service
    BY <1>2, <2>2, ContextType DEF SeedOrder, SetDefault, TypeOK
  <2> QED
    BY <1>2, <2>3, <2>4 DEF SeedOrder, PostconditionHolds, Reserved
<1>3. ASSUME e \in Decisions, Action(e) = "REROUTE",
             UNCHANGED <<service, splits>>,
             location' = location
               \/ \E l \in Locations : location' = [location EXCEPT ![Order(e)] = l],
             \/ reservations' = reservations
             \/ reservations' = reservations \cup {Reservation(e)}
             \/ reservations' = reservations \ {Reservation(e)}
      PROVE  /\ PostconditionHolds(d)' <=> PostconditionHolds(d)
             /\ Reserved(d)' <=> Reserved(d)
  <2>1. CASE Action(d) = "REROUTE"
    <3>1. Order(e) # Order(d)
      BY <1>3, <2>1 DEF Owned, Sole
    <3>2. location'[Order(d)] = location[Order(d)]
      BY <1>3, <3>1, ContextType DEF TypeOK
    <3>3. Reservation(d) \in reservations' <=> Reservation(d) \in reservations
      BY <1>3, <3>1 DEF Reservation
    <3> QED
      BY <2>1, <3>2, <3>3 DEF PostconditionHolds, Reserved
  <2>2. CASE Action(d) # "REROUTE"
    BY <1>3, <2>2, ContextType DEF PostconditionHolds, Reserved, Actions
  <2> QED
    BY <2>1, <2>2
<1>4. ASSUME e \in Decisions, Action(e) = "CARRIER_UPGRADE",
             UNCHANGED <<location, splits, reservations>>,
             service' = service
               \/ \E v \in Services : service' = [service EXCEPT ![Order(e)] = v]
      PROVE  /\ PostconditionHolds(d)' <=> PostconditionHolds(d)
             /\ Reserved(d)' <=> Reserved(d)
  <2>1. CASE Action(d) = "CARRIER_UPGRADE"
    <3>1. Order(e) # Order(d)
      BY <1>4, <2>1 DEF Owned, Sole
    <3>2. service'[Order(d)] = service[Order(d)]
      BY <1>4, <3>1, ContextType DEF TypeOK
    <3> QED
      BY <1>4, <2>1, <3>2 DEF PostconditionHolds, Reserved
  <2>2. CASE Action(d) # "CARRIER_UPGRADE"
    BY <1>4, <2>2, ContextType DEF PostconditionHolds, Reserved, Actions
  <2> QED
    BY <2>1, <2>2
<1>5. ASSUME e \in Decisions, Action(e) = "SPLIT_SHIPMENT",
             UNCHANGED <<location, service, reservations>>,
             \/ splits' = splits
             \/ splits' = splits \cup {Order(e)}
             \/ splits' = splits \ {Order(e)}
      PROVE  /\ PostconditionHolds(d)' <=> PostconditionHolds(d)
             /\ Reserved(d)' <=> Reserved(d)
  <2>1. CASE Action(d) = "SPLIT_SHIPMENT"
    <3>1. Order(e) # Order(d)
      BY <1>5, <2>1 DEF Owned, Sole
    <3> QED
      BY <1>5, <2>1, <3>1 DEF PostconditionHolds, Reserved
  <2>2. CASE Action(d) # "SPLIT_SHIPMENT"
    BY <1>5, <2>2, ContextType DEF PostconditionHolds, Reserved, Actions
  <2> QED
    BY <2>1, <2>2
<1>6. CASE ReserveAlternative(t) \/ ChangeLocation(t) \/ RestoreLocation(t)
             \/ ReleaseAlternative(t)
  BY <1>3, <1>6, ContextType
     DEF ReserveAlternative, ChangeLocation, RestoreLocation, ReleaseAlternative,
         Released
<1>7. CASE UpgradeCarrier(t) \/ RestoreCarrier(t)
  BY <1>4, <1>7, ContextType DEF UpgradeCarrier, RestoreCarrier
<1>8. CASE CreateSplit(t) \/ CancelSplit(t)
  BY <1>5, <1>8 DEF CreateSplit, CancelSplit
<1> QED
  BY <1>1, <1>2, <1>6, <1>7, <1>8
     DEF Step, CheckKillSwitch, GetByDecision, FindByKey, RecordExecuting, VerifyChange,
         VerifyAmbiguous, VerifyFailed, Update, RecordExecution

(* A thread in a saga establishes what its next step relies on.              *)
LEMMA OwnStep ==
  ASSUME SystemsInv, NEW t \in Threads, Step(t), InSaga(t)',
         NEW d \in Decisions, d = command[t], Owned(d)
  PROVE  ThreadMatches(t)'
<1>1. TypeOK /\ CallOK(t) /\ ThreadMatches(t) /\ RowMatches(d)
  BY DEF SystemsInv, SagaInv, CallsOK
<1>2. /\ Order(d) \in Orders
      /\ Context[d].alternative_location_id # NotSeeded
      /\ Context[d].upgraded_carrier_service # NotSeeded
      /\ Context[d].alternative_location_id # Context[d].current_fulfilment_location
      /\ Context[d].upgraded_carrier_service # Context[d].current_carrier_service
  BY ContextType DEF Owned, Changes
<1> USE DEF InSaga, SagaSteps, ThreadMatches, Clean, Goto, Continue, Finish
<1>3. CASE RecordExecuting(t)
  <2>1. status[d] = "NONE" /\ pc'[t] = "seed_order" /\ command'[t] = d
    BY <1>1, <1>3 DEF RecordExecuting, Insertable, Return, TypeOK
  <2>2. Clean(d)'
    BY <1>1, <1>3, <2>1 DEF RecordExecuting, RowMatches, PostconditionHolds, Reserved,
                            external
  <2> QED
    BY <2>1, <2>2
<1>4. CASE SeedOrder(t)
  <2>1. pc'[t] = FirstStep(d) /\ command'[t] = d
    BY <1>1, <1>4 DEF SeedOrder, TypeOK
  <2>2. FirstStep(d) \in {"reserve_alternative", "upgrade_carrier", "create_split"}
    BY ContextType DEF FirstStep, Actions
  <2>3. /\ location[Order(d)] # Context[d].alternative_location_id =>
             location'[Order(d)] # Context[d].alternative_location_id
        /\ service[Order(d)] # Context[d].upgraded_carrier_service =>
             service'[Order(d)] # Context[d].upgraded_carrier_service
        /\ UNCHANGED <<splits, reservations>>
    BY <1>1, <1>2, <1>4 DEF SeedOrder, SetDefault, TypeOK
  <2>4. Clean(d)'
    BY <1>1, <1>4, <2>3 DEF SeedOrder, PostconditionHolds, Reserved
  <2> QED
    BY <2>1, <2>2, <2>4
<1>5. CASE ReserveAlternative(t)
  <2>1. command'[t] = d /\ Action(d) = "REROUTE" /\ ~ PostconditionHolds(d)
    BY <1>1, <1>5 DEF ReserveAlternative, AfterReserve, CallOK
  <2>2. ~ PostconditionHolds(d)'
    BY <1>5, <2>1 DEF ReserveAlternative, PostconditionHolds
  <2>3. \/ pc'[t] = "change_location" /\ Reserved(d)'
        \/ pc'[t] = "update" /\ result'[t] = "FAILED"
    BY <1>1, <1>5, <2>1 DEF ReserveAlternative, AfterReserve, Applied, Reserved, TypeOK
  <2> QED
    BY <2>1, <2>2, <2>3 DEF Matches
<1>6. CASE ChangeLocation(t)
  <2>1. command'[t] = d /\ Action(d) = "REROUTE" /\ Reserved(d) /\ ~ PostconditionHolds(d)
    BY <1>1, <1>6 DEF ChangeLocation, AfterChange, CallOK
  <2>2. Reserved(d)'
    BY <1>6, <2>1 DEF ChangeLocation, Reserved
  <2>3. \/ pc'[t] \in {"verify_change", "restore_location"}
        \/ /\ pc'[t] = "update" /\ result'[t] = "SUCCEEDED"
           /\ location'[Order(d)] = Context[d].alternative_location_id
        \/ pc'[t] = "update" /\ result'[t] = "FAILED" /\ location' = location
    BY <1>1, <1>2, <1>6 DEF ChangeLocation, AfterChange, Applied, TypeOK
  <2> QED
    BY <2>1, <2>2, <2>3 DEF Matches, InForce, PostconditionHolds
<1>7. CASE VerifyChange(t)
  <2>1. command'[t] = d /\ Action(d) = "REROUTE" /\ Reserved(d)
    BY <1>1, <1>7 DEF VerifyChange, CallOK
  <2>2. /\ Reserved(d)'
        /\ PostconditionHolds(d)' <=> PostconditionHolds(d)
    BY <1>7, <2>1 DEF VerifyChange, Reserved, PostconditionHolds, external
  <2>3. \/ pc'[t] = "update" /\ result'[t] = "SUCCEEDED" /\ PostconditionHolds(d)
        \/ pc'[t] = "restore_location"
    BY <1>1, <1>7 DEF VerifyChange, TypeOK
  <2> QED
    BY <2>1, <2>2, <2>3 DEF Matches, InForce
<1>8. CASE RestoreLocation(t)
  <2>1. command'[t] = d /\ Action(d) = "REROUTE" /\ pc'[t] = "release_alternative"
    BY <1>1, <1>8 DEF RestoreLocation, CallOK, TypeOK
  <2>2. location'[Order(d)] # Context[d].alternative_location_id
    BY <1>1, <1>2, <1>8 DEF RestoreLocation, TypeOK
  <2> QED
    BY <2>1, <2>2 DEF PostconditionHolds
<1>9. CASE ReleaseAlternative(t)
  <2>1. /\ command'[t] = d /\ Action(d) = "REROUTE" /\ ~ PostconditionHolds(d)
        /\ pc'[t] = "update" /\ result'[t] = "COMPENSATED"
    BY <1>1, <1>9 DEF ReleaseAlternative, CallOK, TypeOK
  <2>2. ~ PostconditionHolds(d)' /\ ~ Reserved(d)'
    BY <1>9, <2>1 DEF ReleaseAlternative, Released, PostconditionHolds, Reserved
  <2> QED
    BY <2>1, <2>2 DEF Matches
<1>10. CASE UpgradeCarrier(t)
  <2>1. command'[t] = d /\ Action(d) = "CARRIER_UPGRADE"
    BY <1>1, <1>10 DEF UpgradeCarrier, AfterSingleWrite, CallOK
  <2>2. \/ pc'[t] \in {"verify_ambiguous", "verify_failed"}
        \/ /\ pc'[t] = "update" /\ result'[t] = "SUCCEEDED"
           /\ service'[Order(d)] = Context[d].upgraded_carrier_service
    BY <1>1, <1>2, <1>10 DEF UpgradeCarrier, AfterSingleWrite, Applied, TypeOK
  <2> QED
    BY <2>1, <2>2 DEF Matches, InForce, PostconditionHolds
<1>11. CASE CreateSplit(t)
  <2>1. command'[t] = d /\ Action(d) = "SPLIT_SHIPMENT"
    BY <1>1, <1>11 DEF CreateSplit, AfterSingleWrite, CallOK
  <2>2. \/ pc'[t] \in {"verify_ambiguous", "verify_failed"}
        \/ pc'[t] = "update" /\ result'[t] = "SUCCEEDED" /\ Order(d) \in splits'
    BY <1>1, <1>11 DEF CreateSplit, AfterSingleWrite, Applied, TypeOK
  <2> QED
    BY <2>1, <2>2 DEF Matches, InForce, PostconditionHolds
<1>12. CASE VerifyAmbiguous(t) \/ VerifyFailed(t)
  <2>1. command'[t] = d /\ Action(d) # "REROUTE"
    BY <1>1, <1>12 DEF VerifyAmbiguous, VerifyFailed, CallOK
  <2>2. PostconditionHolds(d)' <=> PostconditionHolds(d)
    BY <1>12 DEF VerifyAmbiguous, VerifyFailed, PostconditionHolds, external
  <2>3. \/ pc'[t] = "undo"
        \/ pc'[t] = "update" /\ result'[t] = "SUCCEEDED" /\ PostconditionHolds(d)
        \/ pc'[t] = "update" /\ result'[t] = "FAILED" /\ ~ PostconditionHolds(d)
    BY <1>1, <1>12 DEF VerifyAmbiguous, VerifyFailed, TypeOK
  <2> QED
    BY <2>1, <2>2, <2>3 DEF Matches, InForce
<1>13. CASE RestoreCarrier(t) \/ CancelSplit(t)
  <2>1. /\ command'[t] = d /\ Action(d) # "REROUTE"
        /\ pc'[t] = "update" /\ result'[t] = "COMPENSATED"
    BY <1>1, <1>13 DEF RestoreCarrier, CancelSplit, CallOK, TypeOK
  <2>2. ~ PostconditionHolds(d)'
    BY <1>1, <1>2, <1>13 DEF RestoreCarrier, CancelSplit, PostconditionHolds, TypeOK
  <2> QED
    BY <2>1, <2>2 DEF Matches, Reserved
<1>14. CASE CheckKillSwitch(t) \/ GetByDecision(t) \/ Update(t) \/ RecordExecution(t)
  BY <1>1, <1>14 DEF CheckKillSwitch, GetByDecision, Update, RecordExecution, Return,
                     TypeOK
<1>15. CASE FindByKey(t)
  BY <1>1, <1>15 DEF FindByKey, Return, TypeOK, SystemsInv, SagaInv, FirstClaims
<1> QED
  BY <1>3, <1>4, <1>5, <1>6, <1>7, <1>8, <1>9, <1>10, <1>11, <1>12, <1>13, <1>14,
     <1>15 DEF Step

(* Steps outside the saga write neither the systems of record nor, but for  *)
(* the claim, the row.                                                      *)
LEMMA SagaOnlyWrites ==
  ASSUME TypeOK, CallsOK, NEW t \in Threads, Step(t), ~ InSaga(t)
  PROVE  UNCHANGED external /\ (status' = status \/ RecordExecuting(t))
  BY StepMoves
     DEF Step, InSaga, SagaSteps, CheckKillSwitch, GetByDecision, FindByKey, RecordExecuting,
         SeedOrder, ReserveAlternative, ChangeLocation, VerifyChange,
         RestoreLocation, ReleaseAlternative, UpgradeCarrier, CreateSplit,
         VerifyAmbiguous, VerifyFailed, RestoreCarrier, CancelSplit, Update,
         RecordExecution

LEMMA ExternalDecides ==
  ASSUME NEW d \in Decisions, UNCHANGED external
  PROVE  /\ PostconditionHolds(d)' <=> PostconditionHolds(d)
         /\ Reserved(d)' <=> Reserved(d)
  BY DEF external, PostconditionHolds, Reserved

LEMMA SystemsStep ==
  ASSUME DistinctRequesters PROVE SystemsInv /\ [Next]_vars => SystemsInv'
<1> SUFFICES ASSUME SystemsInv, [Next]_vars
             PROVE  /\ \A t \in Threads : ThreadMatches(t)'
                    /\ \A d \in Decisions : RowMatches(d)'
  BY SagaStep DEF SystemsInv
<1>0. /\ TypeOK /\ CallsOK /\ SagaExclusive
      /\ \A t \in Threads : ThreadMatches(t)
      /\ \A d \in Decisions : RowMatches(d)
  BY DEF SystemsInv, SagaInv
<1>1. ASSUME NEW t \in Threads, Step(t), NEW u \in Threads PROVE ThreadMatches(u)'
  <2>1. CASE u = t
    <3> SUFFICES ASSUME InSaga(t)', Owned(command[t])' PROVE ThreadMatches(t)'
      BY <2>1 DEF ThreadMatches
    <3>1. command'[t] = command[t] /\ command[t] \in Decisions
      BY <1>0, <1>1, StepIsLocal
    <3>2. Owned(command[t])
      BY <3>1 DEF Owned, Sole, Changes
    <3> QED
      BY <1>1, <3>1, <3>2, OwnStep
  <2>2. CASE u # t
    <3> SUFFICES ASSUME InSaga(u)', Owned(command[u])' PROVE ThreadMatches(u)'
      BY DEF ThreadMatches
    <3>1. pc'[u] = pc[u] /\ command'[u] = command[u] /\ result'[u] = result[u]
      BY <1>0, <1>1, <2>2, StepIsLocal
    <3>2. InSaga(u) /\ command[u] \in Decisions
      BY <1>0, <3>1 DEF InSaga, SagaSteps, CallsOK, CallOK
    <3> PICK d \in Decisions : d = command[u]
      BY <3>2
    <3>4. Owned(d) /\ ThreadMatches(u)
      BY <1>0, <3>1 DEF Owned, Sole, Changes
    <3>3. /\ PostconditionHolds(d)' <=> PostconditionHolds(d)
          /\ Reserved(d)' <=> Reserved(d)
      <4>1. CASE InSaga(t)
        <5>1. command[t] # d
          BY <1>0, <2>2, <3>2, <4>1 DEF SagaExclusive
        <5> QED
          BY <1>0, <1>1, <3>4, <5>1, OthersUntouched
      <4>2. CASE ~ InSaga(t)
        <5>1. UNCHANGED external
          BY <1>0, <1>1, <4>2, SagaOnlyWrites
        <5> QED
          BY <5>1, ExternalDecides
      <4> QED
        BY <4>1, <4>2
    <3> QED
      BY <3>1, <3>2, <3>3, <3>4 DEF ThreadMatches, InSaga, Clean, Matches, InForce
  <2> QED
    BY <2>1, <2>2
<1>2. ASSUME NEW d \in Decisions, UNCHANGED external, faults' = faults,
             status'[d] \in {status[d], "EXECUTING"}
      PROVE  RowMatches(d)'
  BY <1>0, <1>2, ExternalDecides DEF RowMatches, Clean, InForce, Owned, Sole, Changes
<1>3. ASSUME NEW t \in Threads, Step(t), NEW d \in Decisions PROVE RowMatches(d)'
  <2>1. CASE ~ InSaga(t)
    <3>1. status'[d] \in {status[d], "EXECUTING"}
      BY <1>0, <1>3, <2>1, SagaOnlyWrites DEF RecordExecuting, TypeOK
    <3> QED
      BY <1>0, <1>2, <1>3, <2>1, <3>1, SagaOnlyWrites, StepIsLocal
  <2>2. CASE InSaga(t) /\ command[t] = d
    <3>1. status[d] = "EXECUTING"
      BY <1>0, <2>2 DEF SagaExclusive
    <3>2. CASE Update(t)
      <4>1. /\ status'[d] = result[t]
            /\ UNCHANGED external
            /\ ThreadMatches(t)
            /\ pc[t] = "update"
        BY <1>0, <2>2, <3>2 DEF Update, TypeOK
      <4>2. result[t] \in Terminal
        BY <1>0, <4>1 DEF CallsOK, CallOK
      <4> QED
        BY <2>2, <4>1, <4>2, ExternalDecides
           DEF ThreadMatches, RowMatches, Matches, Clean, InForce, Owned, Sole, Changes,
               Terminal
    <3>3. CASE ~ Update(t)
      <4>1. status'[d] = "EXECUTING"
        BY <1>0, <1>3, <2>2, <3>1, <3>3, StepMoves
           DEF RecordExecuting, InSaga, SagaSteps
      <4> QED
        BY <4>1 DEF RowMatches
    <3> QED
      BY <3>2, <3>3
  <2>3. CASE InSaga(t) /\ command[t] # d
    <3>1. status'[d] = status[d]
      BY <1>0, <1>3, <2>3, StepMoves
         DEF RecordExecuting, Update, TypeOK, InSaga, SagaSteps
    <3> SUFFICES ASSUME Owned(d)' PROVE RowMatches(d)'
      BY DEF RowMatches
    <3>2. Owned(d)
      BY DEF Owned, Sole, Changes
    <3>3. /\ PostconditionHolds(d)' <=> PostconditionHolds(d)
          /\ Reserved(d)' <=> Reserved(d)
      BY <1>0, <1>3, <2>3, <3>2, OthersUntouched
    <3> QED
      BY <1>0, <1>3, <3>1, <3>2, <3>3, StepIsLocal DEF RowMatches, Clean, InForce
  <2> QED
    BY <2>1, <2>2, <2>3
<1>4. ASSUME UNCHANGED external, status' = status, faults' = faults,
             \A t \in Threads : InSaga(t)' =>
               /\ InSaga(t) /\ pc'[t] = pc[t]
               /\ command'[t] = command[t] /\ result'[t] = result[t]
      PROVE  /\ \A t \in Threads : ThreadMatches(t)'
             /\ \A d \in Decisions : RowMatches(d)'
  <2>1. ASSUME NEW t \in Threads, InSaga(t)' PROVE ThreadMatches(t)'
    <3>1. command[t] \in Decisions
      BY <1>0, <1>4, <2>1 DEF InSaga, SagaSteps, CallsOK, CallOK
    <3> QED
      BY <1>0, <1>4, <2>1, <3>1, ExternalDecides
         DEF ThreadMatches, InSaga, Clean, Matches, InForce, Owned, Sole, Changes
  <2> QED
    BY <1>2, <1>4, <2>1 DEF ThreadMatches
<1>5. ASSUME NEW t \in Threads, NEW d \in Decisions, Call(t, d)
      PROVE  SystemsInv'
  <2>1. \A u \in Threads : InSaga(u)' => u # t
    BY <1>0, <1>5 DEF Call, Goto, TypeOK, InSaga, SagaSteps
  <2> QED
    BY <1>0, <1>4, <1>5, <2>1, SagaStep DEF Call, Goto, TypeOK, InSaga, SystemsInv
<1>6. ASSUME NEW t \in Threads, LoseThread(t)
      PROVE  SystemsInv'
  <2>1. \A u \in Threads : InSaga(u)' => u # t
    BY <1>0, <1>6 DEF LoseThread, Goto, TypeOK, InSaga, SagaSteps
  <2>2. ASSUME NEW u \in Threads PROVE ThreadMatches(u)'
    <3>1. InSaga(u)' => /\ InSaga(u) /\ pc'[u] = pc[u] /\ command[u] \in Decisions
                        /\ command'[u] = command[u] /\ result'[u] = result[u]
      BY <1>0, <1>6, <2>1 DEF LoseThread, Goto, TypeOK, InSaga, SagaSteps, CallsOK, CallOK
    <3> QED
      BY <1>0, <1>6, <3>1, ExternalDecides
         DEF LoseThread, ThreadMatches, InSaga, Clean, Matches, InForce, Owned, Sole, Changes
  <2>3. ASSUME NEW d \in Decisions PROVE RowMatches(d)'
    <3>1. faults' # 0
      BY <1>0, <1>6 DEF LoseThread, TypeOK
    <3> QED
      BY <1>0, <1>6, <3>1, ExternalDecides
         DEF LoseThread, RowMatches, Clean, Owned, Sole, Changes
  <2> QED
    BY <2>2, <2>3, SagaStep DEF SystemsInv
<1>7. CASE Restart
  <2>1. \A t \in Threads : ThreadMatches(t)'
    BY <1>7 DEF Restart, ThreadMatches, InSaga, SagaSteps
  <2>2. ASSUME NEW d \in Decisions PROVE RowMatches(d)'
    <3>1. faults' # 0
      BY <1>0, <1>7 DEF Restart, TypeOK
    <3>2. Clean(d)'
      BY <1>7, ContextType DEF Restart, NotKnown, Clean, PostconditionHolds, Reserved
    <3> QED
      BY <3>1, <3>2 DEF RowMatches, Clean
  <2> QED
    BY <2>1, <2>2
<1>8. CASE UNCHANGED vars \/ \E active \in BOOLEAN : SetKillSwitch(active)
  BY <1>4, <1>8 DEF vars, external, SetKillSwitch, InSaga
<1> QED
  BY <1>1, <1>3, <1>5, <1>6, <1>7, <1>8 DEF Next, SystemsInv

LEMMA SystemsInit == Init => SystemsInv
<1> SUFFICES ASSUME Init PROVE SystemsInv
  OBVIOUS
<1>1. \A t \in Threads : ThreadMatches(t)
  BY DEF Init, ThreadMatches, InSaga, SagaSteps
<1>2. ASSUME NEW d \in Decisions PROVE RowMatches(d)
  <2>1. Clean(d)
    BY ContextType DEF Init, NotKnown, Clean, PostconditionHolds, Reserved
  <2> QED
    BY <2>1 DEF Init, RowMatches
<1> QED
  BY <1>1, <1>2, SagaInit DEF SystemsInv

(* Whatever the providers answer, the final status of an action agrees with *)
(* the systems of record, as long as no other decision writes the same      *)
(* state of its order.                                                      *)
THEOREM StatusIsTruthful ==
  ASSUME DistinctRequesters PROVE Spec => []StatusMatchesSystems
<1>1. SystemsInv => StatusMatchesSystems
  BY DEF SystemsInv, StatusMatchesSystems, RowMatches, Owned, InForce, Clean
<1> QED
  BY <1>1, SystemsInit, SystemsStep, PTL DEF Spec

----------------------------------------------------------------------------
(* Decisions that ask for the same write.  Without Sole a success can lose  *)
(* its write.  LostToCompensation is not inductive: between the last write  *)
(* of a saga and the update of its row there is already a success to lose,  *)
(* and a compensation undoes the write before it has a result.              *)

(* Whoever writes the same state of the order asks for the same value.      *)
Agreed(d) ==
  \A e \in Decisions : Order(e) = Order(d) => Action(e) # Action(d) \/ SameWrite(d, e)

Succeeding(d) ==
  \/ status[d] = "SUCCEEDED"
  \/ \E t \in Threads :
       command[t] = d /\ pc[t] = "update" /\ result[t] = "SUCCEEDED"

Undoing(t) ==
  pc[t] = "release_alternative" \/ (pc[t] = "update" /\ result[t] = "COMPENSATED")

Undone(d) ==
  \E e \in Decisions \ {d} :
    /\ SameWrite(d, e)
    /\ status[e] = "COMPENSATED" \/ \E t \in Threads : command[t] = e /\ Undoing(t)

LossExplained ==
  \A d \in Decisions :
    Agreed(d) /\ faults = 0 /\ Succeeding(d) => PostconditionHolds(d) \/ Undone(d)

LossInv == SagaInv /\ LossExplained

(* A decision succeeds by a step of its own thread, which finds its write   *)
(* in force or has just been told that it is.                               *)
LEMMA OwnSuccess ==
  ASSUME SagaInv, NEW t \in Threads, Step(t), NEW d \in Decisions, d = command[t],
         Succeeding(d)'
  PROVE  PostconditionHolds(d)' \/ (Succeeding(d) /\ UNCHANGED external)
<1>0. TypeOK /\ CallsOK /\ CallOK(t) /\ SagaExclusive
  BY DEF SagaInv, CallsOK
<1>1. CASE ~ InSaga(t)
  <2>1. UNCHANGED external /\ (status' = status \/ RecordExecuting(t))
    BY <1>0, <1>1, SagaOnlyWrites
  <2>2. status'[d] = "SUCCEEDED" => status[d] = "SUCCEEDED"
    BY <1>0, <2>1 DEF RecordExecuting, TypeOK
  <2>3. pc'[t] # "update"
    <3>1. CheckKillSwitch(t) \/ GetByDecision(t) \/ FindByKey(t) \/ RecordExecuting(t)
            \/ RecordExecution(t)
      BY <1>1 DEF Step, InSaga, SagaSteps, SeedOrder, ReserveAlternative, ChangeLocation,
                  VerifyChange, RestoreLocation, ReleaseAlternative, UpgradeCarrier,
                  CreateSplit, VerifyAmbiguous, VerifyFailed, RestoreCarrier,
                  CancelSplit, Update
    <3> QED
      BY <1>0, <3>1 DEF CheckKillSwitch, GetByDecision, FindByKey, RecordExecuting,
                        RecordExecution, Continue, Return, Goto, TypeOK
  <2>4. \A u \in Threads \ {t} :
          pc'[u] = pc[u] /\ command'[u] = command[u] /\ result'[u] = result[u]
    BY <1>0, StepIsLocal
  <2> QED
    BY <2>1, <2>2, <2>3, <2>4 DEF Succeeding
<1>2. CASE InSaga(t)
  <2>1. status[d] = "EXECUTING" /\ \A u \in Threads : InSaga(u) /\ command[u] = d => u = t
    BY <1>0, <1>2 DEF SagaExclusive
  <2>2. CASE Update(t)
    <3>1. pc[t] = "update" /\ status' = [status EXCEPT ![d] = result[t]]
          /\ UNCHANGED external /\ pc' = [pc EXCEPT ![t] = "record_execution"]
          /\ UNCHANGED <<command, result>>
      BY <2>2 DEF Update, Continue, Goto
    <3>2. status'[d] = "SUCCEEDED"
      <4>1. ~ \E u \in Threads :
                command'[u] = d /\ pc'[u] = "update" /\ result'[u] = "SUCCEEDED"
        BY <1>0, <2>1, <3>1 DEF InSaga, SagaSteps, TypeOK
      <4> QED
        BY <4>1 DEF Succeeding
    <3>3. result[t] = "SUCCEEDED"
      BY <1>0, <3>1, <3>2 DEF TypeOK
    <3> QED
      BY <3>1, <3>3 DEF Succeeding
  <2>3. CASE ~ Update(t)
    <3>1. status' = status
      BY <1>2, <2>3, StepMoves DEF RecordExecuting, InSaga, SagaSteps
    <3>2. pc'[t] = "update" /\ result'[t] = "SUCCEEDED"
      <4>1. PICK u \in Threads :
                   command'[u] = d /\ pc'[u] = "update" /\ result'[u] = "SUCCEEDED"
        BY <2>1, <3>1 DEF Succeeding
      <4>2. CASE u # t
        <5>1. command[u] = d /\ pc[u] = "update"
          BY <1>0, <4>1, <4>2, StepIsLocal
        <5> QED
          BY <2>1, <4>2, <5>1 DEF InSaga, SagaSteps
      <4> QED
        BY <4>1, <4>2
    <3>3. ChangeLocation(t) \/ VerifyChange(t) \/ UpgradeCarrier(t) \/ CreateSplit(t)
            \/ VerifyAmbiguous(t)
      <4>1. ~ SeedOrder(t)
        <5>1. SeedOrder(t) => FirstStep(d) # "update"
          BY ContextType DEF FirstStep, Actions
        <5> QED
          BY <1>0, <3>2, <5>1 DEF SeedOrder, Continue, Goto, TypeOK
      <4>2. ~ (ReserveAlternative(t) \/ RestoreLocation(t) \/ ReleaseAlternative(t)
                 \/ VerifyFailed(t) \/ RestoreCarrier(t) \/ CancelSplit(t))
        BY <1>0, <3>2 DEF ReserveAlternative, AfterReserve, RestoreLocation,
             ReleaseAlternative, VerifyFailed, RestoreCarrier, CancelSplit, Continue,
             Finish, Goto, TypeOK
      <4>3. ~ (CheckKillSwitch(t) \/ GetByDecision(t) \/ FindByKey(t)
                 \/ RecordExecuting(t) \/ RecordExecution(t))
        BY <1>2 DEF InSaga, SagaSteps, CheckKillSwitch, GetByDecision, FindByKey,
                    RecordExecuting, RecordExecution
      <4> QED
        BY <2>3, <4>1, <4>2, <4>3 DEF Step
    <3>4. CASE ChangeLocation(t)
      <4>1. location' = [location EXCEPT ![Order(d)] = Context[d].alternative_location_id]
        BY <1>0, <3>2, <3>4 DEF ChangeLocation, AfterChange, Applied, Continue, Finish, Goto,
                                TypeOK
      <4> QED
        BY <1>0, <3>4, <4>1, ContextType DEF ChangeLocation, CallOK, PostconditionHolds, TypeOK
    <3>5. CASE VerifyChange(t) \/ VerifyAmbiguous(t)
      <4>1. PostconditionHolds(d) /\ UNCHANGED external
        BY <1>0, <3>2, <3>5 DEF VerifyChange, VerifyAmbiguous, Continue, Finish, Goto, TypeOK
      <4> QED
        BY <4>1, ExternalDecides
    <3>6. CASE UpgradeCarrier(t)
      <4>1. service' = [service EXCEPT ![Order(d)] = Context[d].upgraded_carrier_service]
        BY <1>0, <3>2, <3>6 DEF UpgradeCarrier, AfterSingleWrite, Applied, Continue, Finish,
                                Goto, TypeOK
      <4> QED
        BY <1>0, <3>6, <4>1, ContextType DEF UpgradeCarrier, CallOK, PostconditionHolds, TypeOK
    <3>7. CASE CreateSplit(t)
      <4>1. splits' = splits \cup {Order(d)}
        BY <1>0, <3>2, <3>7 DEF CreateSplit, AfterSingleWrite, Applied, Continue, Finish, Goto,
                                TypeOK
      <4> QED
        BY <1>0, <3>7, <4>1 DEF CreateSplit, CallOK, PostconditionHolds
    <3> QED
      BY <3>3, <3>4, <3>5, <3>6, <3>7
  <2> QED
    BY <2>2, <2>3
<1> QED
  BY <1>1, <1>2

(* A step for another decision makes none succeed.                          *)
LEMMA OthersSuccess ==
  ASSUME SagaInv, NEW t \in Threads, Step(t), NEW d \in Decisions, command[t] # d,
         Succeeding(d)'
  PROVE  Succeeding(d)
<1>0. TypeOK /\ CallsOK
  BY DEF SagaInv
<1>1. status'[d] = status[d]
  BY <1>0, StepMoves DEF RecordExecuting, Update, TypeOK
<1>2. \A u \in Threads \ {t} :
        pc'[u] = pc[u] /\ command'[u] = command[u] /\ result'[u] = result[u]
  BY <1>0, StepIsLocal
<1>3. pc'[t] = "update" => command'[t] # d
  BY <1>0, StepIsLocal DEF InSaga, SagaSteps
<1> QED
  BY <1>1, <1>2, <1>3 DEF Succeeding

(* What explains a loss stays: a compensation under way is carried to the   *)
(* row, and the status of a row is final.                                   *)
LEMMA UndoneStays ==
  ASSUME SagaInv, NEW t \in Threads, Step(t), NEW d \in Decisions, Undone(d)
  PROVE  Undone(d)'
<1>0. TypeOK /\ CallsOK /\ CallOK(t) /\ SagaExclusive
  BY DEF SagaInv, CallsOK
<1>1. PICK e \in Decisions \ {d} :
             /\ SameWrite(d, e)
             /\ \/ status[e] = "COMPENSATED"
                \/ \E u \in Threads : command[u] = e /\ Undoing(u)
  BY DEF Undone
<1> SUFFICES status'[e] = "COMPENSATED"
               \/ \E u \in Threads : command'[u] = e /\ Undoing(u)'
  BY <1>1 DEF Undone, SameWrite
<1>2. CASE status[e] = "COMPENSATED"
  <2>1. ~ Update(t) \/ command[t] # e
    BY <1>0, <1>2 DEF Update, SagaExclusive, InSaga, SagaSteps
  <2> QED
    BY <1>0, <1>2, <2>1, StepMoves DEF RecordExecuting, Insertable, Update, TypeOK
<1>3. ASSUME NEW u \in Threads, command[u] = e, Undoing(u), u # t
      PROVE  command'[u] = e /\ Undoing(u)'
  <2>1. pc'[u] = pc[u] /\ command'[u] = command[u] /\ result'[u] = result[u]
    BY <1>0, <1>3, StepIsLocal
  <2> QED
    BY <1>3, <2>1 DEF Undoing
<1>4. CASE command[t] = e /\ pc[t] = "release_alternative"
  <2>1. ReleaseAlternative(t)
    BY <1>4 DEF Step, CheckKillSwitch, GetByDecision, FindByKey, RecordExecuting, SeedOrder,
         ReserveAlternative, ChangeLocation, VerifyChange, RestoreLocation, UpgradeCarrier,
         CreateSplit, VerifyAmbiguous, VerifyFailed, RestoreCarrier, CancelSplit, Update,
         RecordExecution
  <2>2. pc'[t] = "update" /\ result'[t] = "COMPENSATED" /\ command'[t] = e
    BY <1>0, <1>4, <2>1 DEF ReleaseAlternative, Finish, Goto, TypeOK
  <2> QED
    BY <2>2 DEF Undoing
<1>5. CASE command[t] = e /\ pc[t] = "update" /\ result[t] = "COMPENSATED"
  <2>1. Update(t)
    BY <1>5 DEF Step, CheckKillSwitch, GetByDecision, FindByKey, RecordExecuting, SeedOrder,
         ReserveAlternative, ChangeLocation, VerifyChange, RestoreLocation,
         ReleaseAlternative, UpgradeCarrier, CreateSplit, VerifyAmbiguous, VerifyFailed,
         RestoreCarrier, CancelSplit, RecordExecution
  <2> QED
    BY <1>0, <1>5, <2>1 DEF Update, TypeOK
<1> QED
  BY <1>1, <1>2, <1>3, <1>4, <1>5 DEF Undoing

(* A write in force is lost to another decision only in the step that       *)
(* undoes the same write: all others leave it alone or make it once more.   *)
LEMMA AgreedWrites ==
  ASSUME SagaInv, NEW t \in Threads, Step(t), NEW d \in Decisions, Agreed(d),
         command[t] # d, PostconditionHolds(d)
  PROVE  PostconditionHolds(d)' \/ Undone(d)'
<1> DEFINE e == command[t]
<1>0. TypeOK /\ CallOK(t)
  BY DEF SagaInv, CallsOK
<1>1. e \in Decisions \ {d} /\ pc[t] # "idle"
  BY <1>0, StepMoves DEF CallOK
<1>2. Order(e) = Order(d) /\ Action(e) = Action(d) => SameWrite(d, e)
  BY <1>1 DEF Agreed
<1> USE ContextType
<1>3. CASE UNCHANGED external
  BY <1>3, ExternalDecides
<1>4. CASE SeedOrder(t)
  <2>1. \/ location'[Order(d)] = location[Order(d)]
        \/ location[Order(d)] = NotSeeded
    BY <1>0, <1>4 DEF SeedOrder, SetDefault, TypeOK
  <2>2. \/ service'[Order(d)] = service[Order(d)]
        \/ service[Order(d)] = NotSeeded
    BY <1>0, <1>4 DEF SeedOrder, SetDefault, TypeOK
  <2>3. splits' = splits
    BY <1>4 DEF SeedOrder
  <2> QED
    BY <2>1, <2>2, <2>3 DEF PostconditionHolds
<1>5. CASE ReserveAlternative(t) \/ ReleaseAlternative(t)
  BY <1>5 DEF ReserveAlternative, ReleaseAlternative, PostconditionHolds
<1>6. CASE ChangeLocation(t)
  <2>1. Action(e) = "REROUTE" /\ UNCHANGED <<service, splits>>
    BY <1>0, <1>6 DEF ChangeLocation, CallOK
  <2>2. \/ location' = location
        \/ location' = [location EXCEPT ![Order(e)] = Context[e].alternative_location_id]
    BY <1>6 DEF ChangeLocation
  <2>3. Order(e) = Order(d) /\ Action(d) = "REROUTE" =>
          Context[e].alternative_location_id = Context[d].alternative_location_id
    BY <1>2, <2>1 DEF SameWrite
  <2>4. Action(d) = "REROUTE" =>
          location[Order(d)] = Context[d].alternative_location_id
    BY DEF PostconditionHolds
  <2>5. Action(d) = "REROUTE" =>
          location'[Order(d)] = Context[d].alternative_location_id
    BY <1>0, <2>2, <2>3, <2>4 DEF TypeOK
  <2> QED
    BY <2>1, <2>5 DEF PostconditionHolds
<1>7. CASE UpgradeCarrier(t)
  <2>1. Action(e) = "CARRIER_UPGRADE" /\ UNCHANGED <<location, splits>>
    BY <1>0, <1>7 DEF UpgradeCarrier, CallOK
  <2>2. \/ service' = service
        \/ service' = [service EXCEPT ![Order(e)] = Context[e].upgraded_carrier_service]
    BY <1>7 DEF UpgradeCarrier
  <2>3. Order(e) = Order(d) /\ Action(d) = "CARRIER_UPGRADE" =>
          Context[e].upgraded_carrier_service = Context[d].upgraded_carrier_service
    BY <1>2, <2>1 DEF SameWrite
  <2>4. Action(d) = "CARRIER_UPGRADE" =>
          service[Order(d)] = Context[d].upgraded_carrier_service
    BY DEF PostconditionHolds
  <2>5. Action(d) = "CARRIER_UPGRADE" =>
          service'[Order(d)] = Context[d].upgraded_carrier_service
    BY <1>0, <2>2, <2>3, <2>4 DEF TypeOK
  <2> QED
    BY <2>1, <2>5 DEF PostconditionHolds
<1>8. CASE CreateSplit(t)
  <2>1. UNCHANGED <<location, service>> /\ splits \subseteq splits'
    BY <1>8 DEF CreateSplit
  <2> QED
    BY <2>1 DEF PostconditionHolds
<1>9. CASE RestoreLocation(t)
  <2>1. /\ Action(e) = "REROUTE" /\ UNCHANGED <<service, splits>>
        /\ pc'[t] = "release_alternative" /\ command'[t] = e
        /\ location' = [location EXCEPT ![Order(e)] = Context[e].current_fulfilment_location]
    BY <1>0, <1>9 DEF RestoreLocation, Continue, Goto, CallOK, TypeOK
  <2>2. Undoing(t)'
    BY <2>1 DEF Undoing
  <2>3. CASE SameWrite(d, e)
    BY <1>1, <2>1, <2>2, <2>3 DEF Undone, SameWrite
  <2>4. CASE ~ SameWrite(d, e)
    <3>1. Action(d) = "REROUTE" => location'[Order(d)] = location[Order(d)]
      BY <1>0, <1>2, <2>1, <2>4 DEF TypeOK
    <3> QED
      BY <2>1, <3>1 DEF PostconditionHolds
  <2> QED
    BY <2>3, <2>4
<1>10. CASE RestoreCarrier(t)
  <2>1. /\ Action(e) = "CARRIER_UPGRADE" /\ UNCHANGED <<location, splits>>
        /\ pc'[t] = "update" /\ result'[t] = "COMPENSATED" /\ command'[t] = e
        /\ service' = [service EXCEPT ![Order(e)] = Context[e].current_carrier_service]
    BY <1>0, <1>10 DEF RestoreCarrier, Finish, Goto, TypeOK
  <2>2. Undoing(t)'
    BY <2>1 DEF Undoing
  <2>3. CASE SameWrite(d, e)
    BY <1>1, <2>1, <2>2, <2>3 DEF Undone, SameWrite
  <2>4. CASE ~ SameWrite(d, e)
    <3>1. Action(d) = "CARRIER_UPGRADE" => service'[Order(d)] = service[Order(d)]
      BY <1>0, <1>2, <2>1, <2>4 DEF TypeOK
    <3> QED
      BY <2>1, <3>1 DEF PostconditionHolds
  <2> QED
    BY <2>3, <2>4
<1>11. CASE CancelSplit(t)
  <2>1. /\ Action(e) = "SPLIT_SHIPMENT" /\ UNCHANGED <<location, service>>
        /\ pc'[t] = "update" /\ result'[t] = "COMPENSATED" /\ command'[t] = e
        /\ splits' = splits \ {Order(e)}
    BY <1>0, <1>11 DEF CancelSplit, Finish, Goto, TypeOK
  <2>2. Undoing(t)'
    BY <2>1 DEF Undoing
  <2>3. CASE SameWrite(d, e)
    BY <1>1, <2>1, <2>2, <2>3 DEF Undone, SameWrite
  <2>4. CASE ~ SameWrite(d, e)
    <3>1. Action(d) = "SPLIT_SHIPMENT" => Order(e) # Order(d)
      BY <1>2, <2>1, <2>4
    <3> QED
      BY <2>1, <3>1 DEF PostconditionHolds
  <2> QED
    BY <2>3, <2>4
<1> QED
  BY <1>3, <1>4, <1>5, <1>6, <1>7, <1>8, <1>9, <1>10, <1>11
     DEF Step, CheckKillSwitch, GetByDecision, FindByKey, RecordExecuting, VerifyChange,
         VerifyAmbiguous, VerifyFailed, Update, RecordExecution

LEMMA LossStep ==
  ASSUME DistinctRequesters PROVE LossInv /\ [Next]_vars => LossInv'
<1> SUFFICES ASSUME LossInv, [Next]_vars,
                    NEW d \in Decisions, Agreed(d), faults' = 0, Succeeding(d)'
             PROVE  PostconditionHolds(d)' \/ Undone(d)'
  BY SagaStep DEF LossInv, LossExplained, Agreed, SameWrite
<1>0. SagaInv /\ TypeOK /\ CallsOK /\ LossExplained
  BY DEF LossInv, SagaInv
<1>1. faults = 0 /\ Succeeding(d) => PostconditionHolds(d) \/ Undone(d)
  BY <1>0 DEF LossExplained
<1>2. ASSUME NEW t \in Threads, Step(t) PROVE PostconditionHolds(d)' \/ Undone(d)'
  <2>1. faults = 0
    BY <1>0, <1>2, StepIsLocal
  <2>2. CASE command[t] = d
    BY <1>0, <1>1, <1>2, <2>1, <2>2, OwnSuccess, ExternalDecides, UndoneStays
  <2>3. CASE command[t] # d
    BY <1>0, <1>1, <1>2, <2>1, <2>3, OthersSuccess, AgreedWrites, UndoneStays
  <2> QED
    BY <2>2, <2>3
<1>3. ASSUME NEW t \in Threads, NEW e \in Decisions, Call(t, e)
      PROVE  PostconditionHolds(d)' \/ Undone(d)'
  <2>1. /\ UNCHANGED external /\ faults' = faults /\ status' = status
        /\ pc[t] = "idle" /\ pc'[t] = "kill_switch"
        /\ \A u \in Threads \ {t} :
             pc'[u] = pc[u] /\ command'[u] = command[u] /\ result'[u] = result[u]
    BY <1>0, <1>3 DEF Call, Goto, TypeOK
  <2>2. Succeeding(d)
    BY <2>1 DEF Succeeding
  <2>3. Undone(d) => Undone(d)'
    <3> SUFFICES ASSUME NEW f \in Decisions \ {d}, SameWrite(d, f),
                        NEW u \in Threads, command[u] = f, Undoing(u)
                 PROVE  command'[u] = f /\ Undoing(u)'
      BY <2>1 DEF Undone, SameWrite
    <3> QED
      BY <2>1 DEF Undoing
  <2> QED
    BY <1>1, <2>1, <2>2, <2>3, ExternalDecides
<1>4. CASE UNCHANGED vars \/ \E active \in BOOLEAN : SetKillSwitch(active)
  <2>1. UNCHANGED <<external, faults, status, pc, command, result>>
    BY <1>4 DEF vars, external, SetKillSwitch
  <2> QED
    BY <1>1, <2>1, ExternalDecides DEF Succeeding, Undone, Undoing, SameWrite
<1>5. ASSUME (\E t \in Threads : LoseThread(t)) \/ Restart PROVE FALSE
  BY <1>0, <1>5 DEF LoseThread, Restart, TypeOK
<1> QED
  BY <1>2, <1>3, <1>4, <1>5 DEF Next

(* Where decisions ask for the same write, one that succeeded finds it gone *)
(* only because another of them has compensated or is about to (execute,    *)
(* restore_location, restore_carrier, cancel_split).                        *)
THEOREM SuccessIsLostOnlyToCompensation ==
  ASSUME DistinctRequesters PROVE Spec => []LostToCompensation
<1>1. Init => LossInv
  BY SagaInit DEF Init, LossInv, LossExplained, Succeeding
<1>2. LossInv => LostToCompensation
  <2>1. \A t \in Threads : Undoing(t) => Compensating(t)
    BY DEF Undoing, Compensating
  <2> QED
    BY <2>1 DEF LossInv, LossExplained, LostToCompensation, Agreed, Succeeding, Undone
<1> QED
  BY <1>1, <1>2, LossStep, PTL DEF Spec

----------------------------------------------------------------------------
(* Row before effect: a write for a decision is made by a saga step of that *)
(* decision, which has its row, or by another decision's, which leaves it   *)
(* alone.  No assumption on the requesters is needed.                       *)

LEMMA EffectStep ==
  TypeOK /\ CallsOK /\ ClaimBeforeEffect /\ [Next]_vars => ClaimBeforeEffect'
<1> SUFFICES ASSUME TypeOK, CallsOK, ClaimBeforeEffect, [Next]_vars,
                    NEW d \in Decisions, Owned(d), status'[d] = "NONE"
             PROVE  Clean(d)'
  BY DEF ClaimBeforeEffect, Owned, Sole, Changes, Clean
<1>1. status[d] = "NONE" => Clean(d)
  BY DEF ClaimBeforeEffect, Owned, Clean
<1>2. ASSUME NEW t \in Threads, Step(t) PROVE Clean(d)'
  <2>1. status[d] = "NONE"
    <3>1. RecordExecuting(t) => status'[command[t]] # "NONE" \/ status' = status
      BY StepMoves DEF RecordExecuting, TypeOK, CallsOK, CallOK
    <3>2. Update(t) => status'[command[t]] # "NONE"
      BY StepMoves DEF Update, TypeOK, CallsOK, CallOK, Terminal
    <3>3. status'[d] = status[d] \/ d = command[t]
      BY <1>2, StepMoves DEF RecordExecuting, Update, TypeOK
    <3> QED
      BY <1>2, <3>1, <3>2, <3>3, StepMoves
  <2>2. CASE InSaga(t)
    <3>1. command[t] # d
      BY <2>1, <2>2 DEF CallsOK, CallOK
    <3> QED
      BY <1>1, <1>2, <2>1, <3>1, OthersUntouched DEF Clean
  <2>3. CASE ~ InSaga(t)
    BY <1>1, <1>2, <2>1, <2>3, SagaOnlyWrites, ExternalDecides DEF Clean
  <2> QED
    BY <2>2, <2>3
<1>3. CASE UNCHANGED external /\ status' = status
  BY <1>1, <1>3, ExternalDecides DEF Clean
<1>4. CASE Restart
  BY <1>4, ContextType DEF Restart, NotKnown, Clean, PostconditionHolds, Reserved
<1> QED
  BY <1>2, <1>3, <1>4 DEF Next, vars, external, Call, SetKillSwitch, LoseThread

(* Nothing is in force at a provider for a decision without an action row,  *)
(* whoever calls and whatever fails.                                        *)
THEOREM EffectsHaveRows == Spec => []ClaimBeforeEffect
<1>1. Init => ClaimBeforeEffect
  BY ContextType DEF Init, NotKnown, ClaimBeforeEffect, PostconditionHolds, Reserved
<1> QED
  BY <1>1, TypeInit, TypeStep, EffectStep, PTL DEF Spec

----------------------------------------------------------------------------
(* The kill switch                                                          *)

(* A step of a thread that is not between the check of the kill switch and  *)
(* the claim puts no thread there while the switch is active, and claims    *)
(* nothing.                                                                 *)
LEMMA HaltedStep ==
  ASSUME TypeOK, CallsOK, killSwitch.active, PastKillSwitch = {},
         NEW t \in Threads, Step(t)
  PROVE  PastKillSwitch' = {} /\ \A d \in Decisions : status[d] = "NONE" => status'[d] = "NONE"
<1> DEFINE Past == {"get_by_decision", "record", "insert"}
<1>1. pc[t] \notin Past
  BY DEF PastKillSwitch
<1>2. ~ GetByDecision(t) /\ ~ FindByKey(t) /\ ~ RecordExecuting(t)
  BY <1>1 DEF GetByDecision, FindByKey, RecordExecuting
<1>3. pc'[t] \notin Past
  <2>1. CASE SeedOrder(t)
    <3>1. command[t] \in Decisions
      BY StepMoves DEF CallsOK, CallOK
    <3>2. FirstStep(command[t]) \notin Past
      BY <3>1, ContextType DEF FirstStep, Actions
    <3> QED
      BY <2>1, <3>2 DEF SeedOrder, Continue, Goto, TypeOK
  <2>2. CASE ~ SeedOrder(t)
    BY <1>2, <2>2
       DEF Step, CheckKillSwitch, Halted, ReserveAlternative, ChangeLocation,
           VerifyChange, RestoreLocation, ReleaseAlternative, UpgradeCarrier,
           CreateSplit, VerifyAmbiguous, VerifyFailed, RestoreCarrier, CancelSplit,
           Update, RecordExecution, AfterReserve, AfterChange, AfterSingleWrite,
           Continue, Finish, Return, Goto, TypeOK
  <2> QED
    BY <2>1, <2>2
<1>4. \A d \in Decisions : status[d] = "NONE" => status'[d] = "NONE"
  <2>1. CASE Update(t)
    <3>1. pc[t] = "update" /\ status' = [status EXCEPT ![command[t]] = result[t]]
      BY <2>1 DEF Update
    <3>2. status[command[t]] # "NONE"
      BY <3>1 DEF CallsOK, CallOK, InSaga, SagaSteps
    <3> QED
      BY <3>1, <3>2 DEF TypeOK
  <2> QED
    BY <1>2, <2>1, StepMoves
<1> QED
  BY <1>3, <1>4, StepIsLocal DEF PastKillSwitch

(* Once the kill switch is active and the calls that had read it before are *)
(* gone, no action is claimed until it is lifted.                           *)
THEOREM KillSwitchStopsClaims == Spec => KillSwitchHolds
<1> DEFINE Holds == killSwitch.active /\ PastKillSwitch = {} =>
                      /\ PastKillSwitch' = {}
                      /\ \A d \in Decisions : status[d] = "NONE" => status'[d] = "NONE"
<1>1. TypeOK /\ CallsOK /\ [Next]_vars => [Holds]_vars
  <2> SUFFICES ASSUME TypeOK, CallsOK, Next, killSwitch.active, PastKillSwitch = {}
               PROVE  /\ PastKillSwitch' = {}
                      /\ \A d \in Decisions : status[d] = "NONE" => status'[d] = "NONE"
    OBVIOUS
  <2>1. ASSUME NEW t \in Threads, Step(t)
        PROVE  /\ PastKillSwitch' = {}
               /\ \A d \in Decisions : status[d] = "NONE" => status'[d] = "NONE"
    BY <2>1, HaltedStep
  <2>2. ASSUME NEW t \in Threads, NEW d \in Decisions, Call(t, d)
        PROVE  PastKillSwitch' = {} /\ status' = status
    BY <2>2 DEF Call, Goto, PastKillSwitch, TypeOK
  <2>3. ASSUME NEW t \in Threads, LoseThread(t)
        PROVE  PastKillSwitch' = {} /\ status' = status
    BY <2>3 DEF LoseThread, Goto, PastKillSwitch, TypeOK
  <2>4. CASE Restart
    BY <2>4 DEF Restart, PastKillSwitch
  <2>5. ASSUME NEW active \in BOOLEAN, SetKillSwitch(active)
        PROVE  PastKillSwitch' = {} /\ status' = status
    BY <2>5 DEF SetKillSwitch, PastKillSwitch
  <2> QED
    BY <2>1, <2>2, <2>3, <2>4, <2>5 DEF Next
<1> QED
  BY <1>1, TypeInit, TypeStep, PTL DEF Spec, KillSwitchHolds

----------------------------------------------------------------------------
(* Evidence of a failure.  A row may be updated by several threads when     *)
(* calls are identical, so that the thread that owes the evidence is not    *)
(* the one that wrote the row last; but it has a failure to report.         *)

Reporting(d) ==
  \E t \in Threads : /\ pc[t] = "record_execution" /\ command[t] = d
                     /\ result[t] \in {"COMPENSATED", "FAILED"}

Reported(d) ==
  status[d] \in {"COMPENSATED", "FAILED"} =>
    Autonomy!Recorded([kind |-> "execution", decision |-> d]) \/ Reporting(d)

FailuresReported == \A d \in Decisions : Reported(d)

LEMMA ReportedStep ==
  ASSUME MaxFaults = 0
  PROVE  TypeOK /\ CallsOK /\ FailuresReported /\ [Next]_vars => FailuresReported'
<1> SUFFICES ASSUME TypeOK, CallsOK, FailuresReported, [Next]_vars,
                    NEW d \in Decisions, status'[d] \in {"COMPENSATED", "FAILED"}
             PROVE  \/ Autonomy!Recorded([kind |-> "execution", decision |-> d])'
                    \/ Reporting(d)'
  BY DEF FailuresReported, Reported
<1> DEFINE recorded == Autonomy!Recorded([kind |-> "execution", decision |-> d])
<1>1. Reported(d)
  BY DEF FailuresReported
<1>2. ASSUME NEW t \in Threads, Update(t) PROVE recorded' \/ Reporting(d)'
  <2>1. CASE command[t] = d
    <3>1. /\ pc'[t] = "record_execution" /\ command'[t] = d
          /\ result'[t] = result[t] /\ status'[d] = result[t]
      BY <1>2, <2>1 DEF Update, Continue, Goto, TypeOK
    <3> QED
      BY <3>1 DEF Reporting
  <2>2. CASE command[t] # d
    <3>1. status'[d] = status[d] /\ evidence' = evidence
      BY <1>2, <2>2 DEF Update, TypeOK, autonomyRows
    <3>2. \A u \in Threads \ {t} :
            pc'[u] = pc[u] /\ command'[u] = command[u] /\ result'[u] = result[u]
      BY <1>2 DEF Update, Continue, Goto, TypeOK
    <3>3. recorded \/ Reporting(d)
      BY <1>1, <3>1 DEF Reported
    <3> QED
      BY <2>2, <3>1, <3>2, <3>3 DEF Reporting, Autonomy!Recorded
  <2> QED
    BY <2>1, <2>2
<1>3. ASSUME NEW t \in Threads, RecordExecution(t) PROVE recorded' \/ Reporting(d)'
  <2>1. /\ pc[t] = "record_execution" /\ status' = status
        /\ Autonomy!RecordExecution(command[t], result[t])
        /\ \A u \in Threads \ {t} :
             pc'[u] = pc[u] /\ command'[u] = command[u] /\ result'[u] = result[u]
    BY <1>3 DEF RecordExecution, Return, Goto, TypeOK
  <2>2. evidence \subseteq evidence'
    BY <2>1 DEF Autonomy!RecordExecution, Autonomy!RecordEvidence, Autonomy!autonomyVars
  <2>3. CASE command[t] = d /\ result[t] \in {"COMPENSATED", "FAILED"}
    <3>1. \/ UNCHANGED evidence /\ recorded
          \/ evidence' = evidence \cup {Autonomy!EvidenceRow([kind |-> "execution", decision |-> d],
                                          FALSE, result[t] = "COMPENSATED")}
      BY <2>1, <2>3 DEF Autonomy!RecordExecution, Autonomy!RecordEvidence, Autonomy!autonomyVars
    <3>2. PICK row : row = Autonomy!EvidenceRow([kind |-> "execution", decision |-> d],
                                                FALSE, result[t] = "COMPENSATED")
      OBVIOUS
    <3>3. row.id = [kind |-> "execution", decision |-> d]
      BY <3>2 DEF Autonomy!EvidenceRow
    <3>4. (UNCHANGED evidence /\ recorded) \/ evidence' = evidence \cup {row}
      BY <3>1, <3>2
    <3> QED
      BY <3>3, <3>4 DEF Autonomy!Recorded
  <2>4. CASE ~ (command[t] = d /\ result[t] \in {"COMPENSATED", "FAILED"})
    <3>1. recorded \/ Reporting(d)
      BY <1>1, <2>1 DEF Reported
    <3> QED
      BY <2>1, <2>2, <2>4, <3>1 DEF Reporting, Autonomy!Recorded
  <2> QED
    BY <2>3, <2>4
<1>4. ASSUME NEW t \in Threads, Step(t), ~ Update(t), ~ RecordExecution(t)
      PROVE  recorded' \/ Reporting(d)'
  <2>1. status'[d] = status[d]
    BY <1>4, StepMoves DEF RecordExecuting, TypeOK
  <2>2. evidence' = evidence /\ pc[t] # "record_execution"
    BY <1>4, OnlyRecordExecutionWritesEvidence
       DEF Step, CheckKillSwitch, GetByDecision, FindByKey, RecordExecuting, SeedOrder,
           ReserveAlternative, ChangeLocation, VerifyChange, RestoreLocation,
           ReleaseAlternative, UpgradeCarrier, CreateSplit, VerifyAmbiguous, VerifyFailed,
           RestoreCarrier, CancelSplit
  <2>3. \A u \in Threads \ {t} :
          pc'[u] = pc[u] /\ command'[u] = command[u] /\ result'[u] = result[u]
    BY <1>4, StepIsLocal
  <2> QED
    BY <1>1, <2>1, <2>2, <2>3 DEF Reported, Reporting, Autonomy!Recorded
<1>5. ASSUME NEW t \in Threads, NEW e \in Decisions, Call(t, e)
      PROVE  recorded' \/ Reporting(d)'
  BY <1>1, <1>5 DEF Call, Goto, TypeOK, Reported, Reporting, Autonomy!Recorded, autonomyRows
<1>6. CASE UNCHANGED vars \/ \E active \in BOOLEAN : SetKillSwitch(active)
  BY <1>1, <1>6 DEF vars, SetKillSwitch, Autonomy!SetKillSwitch, Reported, Reporting,
                    Autonomy!Recorded
<1>7. ASSUME (\E t \in Threads : LoseThread(t)) \/ Restart PROVE FALSE
  BY <1>7 DEF LoseThread, Restart, TypeOK
<1> QED
  BY <1>2, <1>3, <1>4, <1>5, <1>6, <1>7 DEF Next

(* Where no thread is lost and nothing restarts, an action that failed or   *)
(* was compensated is known to the autonomy controls once its thread has    *)
(* returned, also when identical calls execute it (execute,                 *)
(* record_execution).                                                       *)
THEOREM FailuresAreEvidence ==
  ASSUME MaxFaults = 0 PROVE Spec => []FailureEvidence
<1>1. Init => FailuresReported
  BY DEF Init, FailuresReported, Reported
<1>2. FailuresReported => FailureEvidence
  BY DEF FailuresReported, Reported, Reporting, FailureEvidence
<1> QED
  BY <1>1, <1>2, TypeInit, TypeStep, ReportedStep, PTL DEF Spec

=============================================================================
