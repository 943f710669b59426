--------------------------- MODULE ActionGateway ---------------------------
(***************************************************************************)
(* Governed execution of recovery actions: ActionGateway.execute of        *)
(* promiseguard/execution.py, run by concurrent request threads against    *)
(* the action table, the autonomy controls and the in-memory systems of    *)
(* record of promiseguard/adapters/sandbox.py.                             *)
(*                                                                         *)
(* A thread is one call of execute.  Every database transaction, provider  *)
(* call and postcondition read of that call is a step of its own, so other *)
(* threads run between them.  Each provider call either takes effect and   *)
(* answers, or fails in one of the ways the adapters know.                 *)
(***************************************************************************)
EXTENDS Naturals, FiniteSets

CONSTANTS
  Threads,             \* request threads
  Decisions,           \* decisions that may be executed
  Orders,              \* orders the decisions are about
  Locations, Services, \* fulfilment locations and carrier services
  Context,             \* [Decisions -> Contexts]: command and order context
  NotSeeded,           \* location or service of an order the sandbox lacks
  NoDecision,          \* command of a thread that serves no call
  Requesters,          \* requested_by of a command: part of its fingerprint
  RequestedBy,         \* [Threads -> Requesters]: whose calls a thread serves
  NoRequester,         \* claimant of a decision without an action row
  PromotionThreshold, MaxSwitchVersion, MaxProfileVersion,
  MaxFaults            \* bound: restarts and lost threads in a behaviour

Actions == {"REROUTE", "CARRIER_UPGRADE", "SPLIT_SHIPMENT"}

(* What execute reads of the command and of the order it acts on.           *)
Contexts ==
  [order : Orders, action : Actions,
   current_fulfilment_location : Locations,
   alternative_location_id : Locations,
   current_carrier_service : Services,
   upgraded_carrier_service : Services]

ASSUME ContextAssumption == Context \in [Decisions -> Contexts]
ASSUME NotSeededAssumption == NotSeeded \notin Locations \cup Services
ASSUME NoDecisionAssumption == NoDecision \notin Decisions
ASSUME RequesterAssumption ==
  RequestedBy \in [Threads -> Requesters] /\ NoRequester \notin Requesters
ASSUME GatewayBoundsAssumption ==
  /\ PromotionThreshold \in Nat \ {0}
  /\ MaxSwitchVersion \in Nat
  /\ MaxProfileVersion \in Nat
  /\ MaxFaults \in Nat

VARIABLES
  killSwitch, profile, evidence,  \* rows of the autonomy controls
  status,        \* status column of each decision's action row, or "NONE"
  claimant,      \* requested_by of the command in that row
  location,      \* OMS: fulfilment location of every order
  service,       \* carrier: service of every order
  splits,        \* OMS: orders that ship split
  reservations,  \* WMS: <<order, location>> pairs reserved
  pc,            \* next step of each thread
  command,       \* decision each thread executes
  result,        \* status the thread is about to persist
  faults         \* restarts and lost threads so far

autonomyRows == <<killSwitch, profile, evidence>>
external == <<location, service, splits, reservations>>
vars == <<killSwitch, profile, evidence, status, claimant, location, service,
          splits, reservations, pc, command, result, faults>>

Autonomy == INSTANCE AutonomyControls
              WITH ActionOf <- [d \in Decisions |-> Context[d].action]

Order(d) == Context[d].order
Action(d) == Context[d].action

Statuses == {"NONE", "EXECUTING", "SUCCEEDED", "COMPENSATED", "FAILED"}
Terminal == {"SUCCEEDED", "COMPENSATED", "FAILED"}

(* before ends in "refused" (or "rate_limited"), after in "ambiguous" (a     *)
(* timeout or a malformed answer) or "hard_after": the call was applied.     *)
Outcomes == {"ok", "refused", "rate_limited", "ambiguous", "hard_after"}
Applied(outcome) == outcome \in {"ok", "ambiguous", "hard_after"}

ClaimSteps == {"kill_switch", "get_by_decision", "record", "insert"}
SagaSteps == {"seed_order", "reserve_alternative", "change_location",
              "verify_change", "restore_location", "release_alternative",
              "upgrade_carrier", "create_split", "verify_ambiguous",
              "verify_failed", "undo", "update"}
Steps == {"idle", "record_execution"} \cup ClaimSteps \cup SagaSteps

NotKnown == [o \in Orders |-> NotSeeded]

Init ==
  /\ Autonomy!Init
  /\ status = [d \in Decisions |-> "NONE"]
  /\ claimant = [d \in Decisions |-> NoRequester]
  /\ location = NotKnown
  /\ service = NotKnown
  /\ splits = {}
  /\ reservations = {}
  /\ pc = [t \in Threads |-> "idle"]
  /\ command = [t \in Threads |-> NoDecision]
  /\ result = [t \in Threads |-> "NONE"]
  /\ faults = 0

----------------------------------------------------------------------------
(* Control of a thread                                                      *)

Goto(t, step) == pc' = [pc EXCEPT ![t] = step]

Continue(t, step) == Goto(t, step) /\ UNCHANGED <<command, result, faults>>

(* _execute_steps is over: the row gets this status in the next transaction. *)
Finish(t, s) ==
  /\ Goto(t, "update")
  /\ result' = [result EXCEPT ![t] = s]
  /\ UNCHANGED <<command, faults>>

Return(t) ==
  /\ Goto(t, "idle")
  /\ command' = [command EXCEPT ![t] = NoDecision]
  /\ result' = [result EXCEPT ![t] = "NONE"]
  /\ UNCHANGED faults

Call(t, d) ==
  /\ pc[t] = "idle"
  /\ Goto(t, "kill_switch")
  /\ command' = [command EXCEPT ![t] = d]
  /\ UNCHANGED <<autonomyRows, status, claimant, external, result, faults>>

----------------------------------------------------------------------------
(* The claim: kill switch in one transaction, the action row in another     *)

(* Mutant: the switch is not read.                                          *)
SwitchIgnored == FALSE

Halted == killSwitch.active

CheckKillSwitch(t) ==
  /\ pc[t] = "kill_switch"
  /\ \/ Halted /\ Return(t)
     \/ ~ Halted /\ Continue(t, "get_by_decision")
  /\ UNCHANGED <<autonomyRows, status, claimant, external>>

(* An existing row is returned as it is, whatever its status.  The key of a *)
(* command is a function of its decision, so it never conflicts.            *)
GetByDecision(t) ==
  /\ pc[t] = "get_by_decision"
  /\ \/ status[command[t]] # "NONE" /\ Return(t)
     \/ status[command[t]] = "NONE" /\ Continue(t, "record")
  /\ UNCHANGED <<autonomyRows, status, claimant, external>>

(* Mutant: no unique key on the action table.                               *)
WithoutUniqueKey(d) == TRUE

(* The unique idempotency key admits one row for a decision.                *)
Insertable(d) == status[d] = "NONE"

(* Mutant: the row is left to be written when the saga is over.             *)
FindByKeyOnly(t) ==
  /\ pc[t] = "record"
  /\ \/ status[command[t]] = "NONE" /\ Continue(t, "seed_order")
     \/ status[command[t]] # "NONE" /\ Return(t)
  /\ UNCHANGED <<autonomyRows, status, claimant, external>>

(* record looks once more, by key, in a statement that sees what others have *)
(* committed since.  A row of another command is a conflict; a row of the    *)
(* same command is returned, and execute goes on as if it had inserted it.   *)
FindByKey(t) ==
  LET d == command[t] IN
  /\ pc[t] = "record"
  /\ \/ status[d] = "NONE" /\ Continue(t, "insert")
     \/ status[d] # "NONE" /\ claimant[d] # RequestedBy[t] /\ Return(t)
     \/ status[d] # "NONE" /\ claimant[d] = RequestedBy[t] /\ Continue(t, "seed_order")
  /\ UNCHANGED <<autonomyRows, status, claimant, external>>

RecordExecuting(t) ==
  LET d == command[t] IN
  /\ pc[t] = "insert"
  /\ \/ /\ Insertable(d)
        /\ status' = [status EXCEPT ![d] = "EXECUTING"]
        /\ claimant' = [claimant EXCEPT ![d] = RequestedBy[t]]
        /\ Continue(t, "seed_order")
     \/ /\ ~ Insertable(d)
        /\ UNCHANGED <<status, claimant>>
        /\ Return(t)
  /\ UNCHANGED <<autonomyRows, external>>

FirstStep(d) == CASE Action(d) = "REROUTE"         -> "reserve_alternative"
                  [] Action(d) = "CARRIER_UPGRADE" -> "upgrade_carrier"
                  [] Action(d) = "SPLIT_SHIPMENT"  -> "create_split"

(* Mutant: the order is seeded anew with every action.                      *)
Overwrite(f, o, v) == [f EXCEPT ![o] = v]

SetDefault(f, o, v) == IF f[o] = NotSeeded THEN [f EXCEPT ![o] = v] ELSE f

SeedOrder(t) ==
  LET d == command[t] IN
  /\ pc[t] = "seed_order"
  /\ location' =
       SetDefault(location, Order(d), Context[d].current_fulfilment_location)
  /\ service' =
       SetDefault(service, Order(d), Context[d].current_carrier_service)
  /\ Continue(t, FirstStep(d))
  /\ UNCHANGED <<autonomyRows, status, claimant, splits, reservations>>

----------------------------------------------------------------------------
(* _reroute: WMS reservation, then OMS location change                      *)

Reservation(d) == <<Order(d), Context[d].alternative_location_id>>

(* Mutants: a failed reservation is stored under the status it was claimed  *)
(* with; its error leaves execute without a status.                         *)
AfterReserveKeepingStatus(t, outcome) ==
  \/ outcome = "ok" /\ Continue(t, "change_location")
  \/ outcome # "ok" /\ Finish(t, "EXECUTING")

AfterReserveRaising(t, outcome) ==
  \/ outcome = "ok" /\ Continue(t, "change_location")
  \/ outcome # "ok" /\ Return(t)

(* No step has succeeded yet, so every error is re-raised as it is, also    *)
(* the errors that follow an applied reservation.                           *)
AfterReserve(t, outcome) ==
  \/ outcome = "ok" /\ Continue(t, "change_location")
  \/ outcome # "ok" /\ Finish(t, "FAILED")

ReserveAlternative(t) ==
  /\ pc[t] = "reserve_alternative"
  /\ \E outcome \in Outcomes :
       /\ reservations' = IF Applied(outcome)
                          THEN reservations \cup {Reservation(command[t])}
                          ELSE reservations
       /\ AfterReserve(t, outcome)
  /\ UNCHANGED <<autonomyRows, status, claimant, location, service, splits>>

(* An ambiguous answer is checked against the system of record, a rate      *)
(* limit is re-raised, any other error is compensated.                      *)
AfterChange(t, outcome) ==
  \/ outcome = "ok" /\ Finish(t, "SUCCEEDED")
  \/ outcome = "ambiguous" /\ Continue(t, "verify_change")
  \/ outcome = "rate_limited" /\ Finish(t, "FAILED")
  \/ outcome \in {"refused", "hard_after"} /\ Continue(t, "restore_location")

ChangeLocation(t) ==
  LET d == command[t] IN
  /\ pc[t] = "change_location"
  /\ \E outcome \in Outcomes :
       /\ location' =
            IF Applied(outcome)
            THEN [location EXCEPT ![Order(d)] = Context[d].alternative_location_id]
            ELSE location
       /\ AfterChange(t, outcome)
  /\ UNCHANGED <<autonomyRows, status, claimant, service, splits, reservations>>

(* action_postcondition_holds                                               *)
PostconditionHolds(d) ==
  \/ /\ Action(d) = "REROUTE"
     /\ location[Order(d)] = Context[d].alternative_location_id
  \/ /\ Action(d) = "CARRIER_UPGRADE"
     /\ service[Order(d)] = Context[d].upgraded_carrier_service
  \/ /\ Action(d) = "SPLIT_SHIPMENT"
     /\ Order(d) \in splits

VerifyChange(t) ==
  /\ pc[t] = "verify_change"
  /\ \/ PostconditionHolds(command[t]) /\ Finish(t, "SUCCEEDED")
     \/ ~ PostconditionHolds(command[t]) /\ Continue(t, "restore_location")
  /\ UNCHANGED <<autonomyRows, status, claimant, external>>

RestoreLocation(t) ==
  LET d == command[t] IN
  /\ pc[t] = "restore_location"
  /\ location' =
       [location EXCEPT ![Order(d)] = Context[d].current_fulfilment_location]
  /\ Continue(t, "release_alternative")
  /\ UNCHANGED <<autonomyRows, status, claimant, service, splits, reservations>>

(* Mutant: the release leaves the reservation in place.                     *)
NotReleased(d) == reservations

Released(d) == reservations \ {Reservation(d)}

ReleaseAlternative(t) ==
  /\ pc[t] = "release_alternative"
  /\ reservations' = Released(command[t])
  /\ Finish(t, "COMPENSATED")
  /\ UNCHANGED <<autonomyRows, status, claimant, location, service, splits>>

----------------------------------------------------------------------------
(* _carrier_upgrade and _split: one write each                              *)

AfterSingleWrite(t, outcome) ==
  \/ outcome = "ok" /\ Finish(t, "SUCCEEDED")
  \/ outcome = "ambiguous" /\ Continue(t, "verify_ambiguous")
  \/ outcome \in {"refused", "rate_limited", "hard_after"}
       /\ Continue(t, "verify_failed")

UpgradeCarrier(t) ==
  LET d == command[t] IN
  /\ pc[t] = "upgrade_carrier"
  /\ \E outcome \in Outcomes :
       /\ service' =
            IF Applied(outcome)
            THEN [service EXCEPT ![Order(d)] = Context[d].upgraded_carrier_service]
            ELSE service
       /\ AfterSingleWrite(t, outcome)
  /\ UNCHANGED <<autonomyRows, status, claimant, location, splits, reservations>>

CreateSplit(t) ==
  /\ pc[t] = "create_split"
  /\ \E outcome \in Outcomes :
       /\ splits' = IF Applied(outcome)
                    THEN splits \cup {Order(command[t])} ELSE splits
       /\ AfterSingleWrite(t, outcome)
  /\ UNCHANGED <<autonomyRows, status, claimant, location, service, reservations>>

VerifyAmbiguous(t) ==
  /\ pc[t] = "verify_ambiguous"
  /\ \/ PostconditionHolds(command[t]) /\ Finish(t, "SUCCEEDED")
     \/ ~ PostconditionHolds(command[t]) /\ Finish(t, "FAILED")
  /\ UNCHANGED <<autonomyRows, status, claimant, external>>

(* After any other error the write is undone if it is found in force.       *)
VerifyFailed(t) ==
  /\ pc[t] = "verify_failed"
  /\ \/ PostconditionHolds(command[t]) /\ Continue(t, "undo")
     \/ ~ PostconditionHolds(command[t]) /\ Finish(t, "FAILED")
  /\ UNCHANGED <<autonomyRows, status, claimant, external>>

RestoreCarrier(t) ==
  LET d == command[t] IN
  /\ pc[t] = "undo"
  /\ Action(d) = "CARRIER_UPGRADE"
  /\ service' = [service EXCEPT ![Order(d)] = Context[d].current_carrier_service]
  /\ Finish(t, "COMPENSATED")
  /\ UNCHANGED <<autonomyRows, status, claimant, location, splits, reservations>>

CancelSplit(t) ==
  /\ pc[t] = "undo"
  /\ Action(command[t]) = "SPLIT_SHIPMENT"
  /\ splits' = splits \ {Order(command[t])}
  /\ Finish(t, "COMPENSATED")
  /\ UNCHANGED <<autonomyRows, status, claimant, location, service, reservations>>

----------------------------------------------------------------------------
(* The end of execute: the row, then the autonomy evidence                  *)

(* Mutant: a failed action returns without autonomy evidence.               *)
UpdateAndReturn(t) ==
  /\ pc[t] = "update"
  /\ status' = [status EXCEPT ![command[t]] = result[t]]
  /\ \/ result[t] = "FAILED" /\ Return(t)
     \/ result[t] # "FAILED" /\ Continue(t, "record_execution")
  /\ UNCHANGED <<autonomyRows, claimant, external>>

Update(t) ==
  /\ pc[t] = "update"
  /\ status' = [status EXCEPT ![command[t]] = result[t]]
  /\ Continue(t, "record_execution")
  /\ UNCHANGED <<autonomyRows, claimant, external>>

(* Mutant: the evidence of every failure says compensated.                  *)
RecordCompensation(t) ==
  /\ pc[t] = "record_execution"
  /\ Autonomy!RecordExecution(command[t],
       IF result[t] = "SUCCEEDED" THEN "SUCCEEDED" ELSE "COMPENSATED")
  /\ Return(t)
  /\ UNCHANGED <<status, claimant, external>>

RecordExecution(t) ==
  /\ pc[t] = "record_execution"
  /\ Autonomy!RecordExecution(command[t], result[t])
  /\ Return(t)
  /\ UNCHANGED <<status, claimant, external>>

----------------------------------------------------------------------------
(* The manager and the machine                                              *)

SetKillSwitch(active) ==
  /\ Autonomy!SetKillSwitch(active)
  /\ UNCHANGED <<status, claimant, external, pc, command, result, faults>>

(* A database error in one of the thread's transactions ends its call.      *)
DatabaseSteps == ClaimSteps \cup {"update", "record_execution"}

LoseThread(t) ==
  /\ faults < MaxFaults
  /\ pc[t] \in DatabaseSteps
  /\ faults' = faults + 1
  /\ Goto(t, "idle")
  /\ command' = [command EXCEPT ![t] = NoDecision]
  /\ result' = [result EXCEPT ![t] = "NONE"]
  /\ UNCHANGED <<autonomyRows, status, claimant, external>>

(* The process restarts: the tables stay, calls and sandbox state are gone. *)
Restart ==
  /\ faults < MaxFaults
  /\ faults' = faults + 1
  /\ location' = NotKnown
  /\ service' = NotKnown
  /\ splits' = {}
  /\ reservations' = {}
  /\ pc' = [t \in Threads |-> "idle"]
  /\ command' = [t \in Threads |-> NoDecision]
  /\ result' = [t \in Threads |-> "NONE"]
  /\ UNCHANGED <<autonomyRows, status, claimant>>

Step(t) ==
  \/ CheckKillSwitch(t) \/ GetByDecision(t) \/ FindByKey(t) \/ RecordExecuting(t)
  \/ SeedOrder(t)
  \/ ReserveAlternative(t) \/ ChangeLocation(t) \/ VerifyChange(t)
  \/ RestoreLocation(t) \/ ReleaseAlternative(t)
  \/ UpgradeCarrier(t) \/ CreateSplit(t)
  \/ VerifyAmbiguous(t) \/ VerifyFailed(t)
  \/ RestoreCarrier(t) \/ CancelSplit(t)
  \/ Update(t) \/ RecordExecution(t)

Next ==
  \/ \E t \in Threads, d \in Decisions : Call(t, d)
  \/ \E t \in Threads : Step(t)
  \/ \E active \in BOOLEAN : SetKillSwitch(active)
  \/ \E t \in Threads : LoseThread(t)
  \/ Restart

Spec == Init /\ [][Next]_vars

(* The server keeps running the threads of the calls it has accepted.       *)
FairSpec == Spec /\ \A t \in Threads : WF_vars(Step(t))

----------------------------------------------------------------------------
(* Properties                                                               *)

TypeOK ==
  /\ Autonomy!TypeOK
  /\ status \in [Decisions -> Statuses]
  /\ claimant \in [Decisions -> Requesters \cup {NoRequester}]
  /\ location \in [Orders -> Locations \cup {NotSeeded}]
  /\ service \in [Orders -> Services \cup {NotSeeded}]
  /\ splits \subseteq Orders
  /\ reservations \subseteq Orders \X Locations
  /\ pc \in [Threads -> Steps]
  /\ command \in [Threads -> Decisions \cup {NoDecision}]
  /\ result \in [Threads -> {"NONE"} \cup Terminal]
  /\ faults \in Nat

InSaga(t) == pc[t] \in SagaSteps

(* No two calls in progress send the same command.                          *)
DistinctRequesters ==
  \A t, u \in Threads : RequestedBy[t] = RequestedBy[u] => t = u

(* At most one thread ever executes the steps of a decision's action, and   *)
(* its row says EXECUTING as long as it does (execute, record, the unique   *)
(* key).                                                                    *)
SagaExclusive ==
  \A t \in Threads :
    InSaga(t) =>
      /\ status[command[t]] = "EXECUTING"
      /\ \A u \in Threads : InSaga(u) /\ command[u] = command[t] => u = t

(* No other decision makes this kind of write to the order, and all that    *)
(* are about the order know it in the same place.                           *)
Sole(d) ==
  \A e \in Decisions \ {d} :
    Order(e) = Order(d) =>
      /\ Action(e) # Action(d)
      /\ Context[e].current_fulfilment_location = Context[d].current_fulfilment_location
      /\ Context[e].current_carrier_service = Context[d].current_carrier_service

(* The write asks for something the order does not have already.            *)
Changes(d) ==
  /\ Context[d].alternative_location_id # Context[d].current_fulfilment_location
  /\ Context[d].upgraded_carrier_service # Context[d].current_carrier_service

Reserved(d) == Action(d) = "REROUTE" /\ Reservation(d) \in reservations

(* No provider is asked for a write before the action has its durable row:  *)
(* whatever is in force can be found in the table after a crash.            *)
ClaimBeforeEffect ==
  \A d \in Decisions :
    Sole(d) /\ Changes(d) /\ status[d] = "NONE" =>
      ~ PostconditionHolds(d) /\ ~ Reserved(d)

(* The final status of an action agrees with the systems of record, through *)
(* every provider failure and every path of verification and compensation:  *)
(* a succeeded action is in force with its reservation (until a restart     *)
(* empties the sandbox), a compensated one has left neither its write nor   *)
(* its reservation behind, and the write of a failed one is not in force    *)
(* (_reroute, _carrier_upgrade, _split).                                    *)
StatusMatchesSystems ==
  \A d \in Decisions :
    Sole(d) /\ Changes(d) =>
      /\ status[d] = "SUCCEEDED" /\ faults = 0 =>
           PostconditionHolds(d) /\ (Action(d) = "REROUTE" => Reserved(d))
      /\ status[d] = "COMPENSATED" => ~ PostconditionHolds(d) /\ ~ Reserved(d)
      /\ status[d] = "FAILED" => ~ PostconditionHolds(d)

(* Evidence of a failure is never recorded for an action that went another  *)
(* way, and says compensated exactly for a compensated one: the evidence is *)
(* written in a transaction of its own, after the row it is about.          *)
EvidenceMatchesStatus ==
  \A row \in evidence :
    status[row.id.decision] = IF row.compensated THEN "COMPENSATED" ELSE "FAILED"

(* An action that failed or was compensated is known to the autonomy        *)
(* controls once its thread has returned (execute, both calls of            *)
(* record_execution).                                                       *)
FailureEvidence ==
  \A d \in Decisions :
    status[d] \in {"COMPENSATED", "FAILED"} =>
      \/ Autonomy!Recorded([kind |-> "execution", decision |-> d])
      \/ \E t \in Threads : pc[t] = "record_execution" /\ command[t] = d

(* A failed action has left nothing behind that it would have had to        *)
(* compensate, the reservation of a reroute included.                       *)
FailedHoldsNothing ==
  \A d \in Decisions :
    Sole(d) /\ status[d] = "FAILED" => ~ Reserved(d)

PastKillSwitch ==
  {t \in Threads : pc[t] \in {"get_by_decision", "record", "insert"}}

(* While the kill switch is active and the calls that had read it before    *)
(* have gone on, no action is claimed and no call gets past the check.      *)
KillSwitchHolds ==
  [][killSwitch.active /\ PastKillSwitch = {} =>
       /\ PastKillSwitch' = {}
       /\ \A d \in Decisions : status[d] = "NONE" => status'[d] = "NONE"]_vars

Compensating(t) ==
  pc[t] = "release_alternative" \/ result[t] = "COMPENSATED"

SameWrite(d, e) ==
  /\ Order(e) = Order(d) /\ Action(e) = Action(d)
  /\ Context[e].alternative_location_id = Context[d].alternative_location_id
  /\ Context[e].upgraded_carrier_service = Context[d].upgraded_carrier_service

(* Of decisions that ask for the same write to an order, one that succeeded *)
(* may find its write gone, but only because another of them has            *)
(* compensated (execute, restore_location, restore_carrier, seed_order).    *)
LostToCompensation ==
  \A d \in Decisions :
    /\ status[d] = "SUCCEEDED" /\ faults = 0
    /\ Changes(d) /\ ~ PostconditionHolds(d)
    /\ \A e \in Decisions : Order(e) = Order(d) => Action(e) # Action(d) \/ SameWrite(d, e)
    => \E e \in Decisions \ {d} :
         /\ SameWrite(d, e)
         /\ \/ status[e] = "COMPENSATED"
            \/ \E t \in Threads : command[t] = e /\ Compensating(t)

Lifecycle == INSTANCE ActionLifecycle

(* Threads, retries, lost threads and restarts never claim an action twice  *)
(* and never change a final status.                                         *)
ImplementsLifecycle == Lifecycle!Spec

(* With no restart and no database error every claimed action completes,    *)
(* also when two calls execute it.                                          *)
ActionsComplete ==
  \A d \in Decisions : status[d] = "EXECUTING" ~> status[d] \in Terminal
=============================================================================
