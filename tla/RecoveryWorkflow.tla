-------------------------- MODULE RecoveryWorkflow --------------------------
(***************************************************************************)
(* From an order event to a claimed action: EvaluationService.evaluate,    *)
(* PolicyGateway.evaluate and the ledger, then submit, approve_and_execute *)
(* and reject of promiseguard/workflow.py.  Calls are threads that read    *)
(* and write in transactions of their own, while managers change the       *)
(* controls and sources send new versions of an event.                     *)
(*                                                                         *)
(* The components that have a module are used by what they promise: the    *)
(* approvals as ApprovalLifecycle.tla, the actions by their claim, the     *)
(* controls by level and version without the evidence behind them.  A call *)
(* that is lost between two transactions looks like one that never goes on.*)
(***************************************************************************)
EXTENDS RecoveryOptions, FiniteSets, Sequences

CONSTANTS
  Threads,                             \* request threads
  Sources, Events,                     \* systems that send events; event ids
  Requests, Payload,                   \* evaluation requests and what they say
  Actors, MayClaim,                    \* [Actors -> SUBSET Roles]
  Nobody,                              \* approved_by of an autonomous command
  MaxSwitchVersion, MaxProfileVersion, \* bounds: managers stop changing here
  MaxDecisions                         \* bound: no new evaluation beyond

Roles == {"OPERATIONS_ANALYST", "OPERATIONS_MANAGER", "AUDITOR",
          "SERVICE_IDENTITY"}
Modes == {"OBSERVE", "SHADOW", "RECOMMENDATION", "APPROVAL",
          "BOUNDED_AUTONOMY"}

(* Events and their versions are told apart by source; the deduplication    *)
(* key of an event repeats that.                                            *)
RequestType ==
  [source : Sources, event : Events, version : Nat \ {0}, mode : Modes,
   order : OrderFields]

ASSUME PayloadAssumption ==
  /\ Payload \in [Requests -> RequestType]
  /\ \A r \in Requests : Payload[r].order \in OrderContexts
  /\ \A r, q \in Requests : Payload[r] = Payload[q] => r = q
ASSUME ActorAssumption ==
  MayClaim \in [Actors -> SUBSET Roles] /\ Nobody \notin Actors
ASSUME WorkflowBoundsAssumption ==
  {MaxSwitchVersion, MaxProfileVersion, MaxDecisions} \subseteq Nat

VARIABLES
  killSwitch,  \* active and version
  profile,     \* level and version of every executable action
  inbox,       \* requests stored with their events
  ledger,      \* immutable decisions
  approval,    \* approval row of every decision
  action,      \* the command in the action row of every decision
  pc, call     \* next step of each thread and what it has read

controls == <<killSwitch, profile>>
tables == <<inbox, ledger, approval, action>>
vars == <<killSwitch, profile, inbox, ledger, approval, action, pc, call>>

selected_action == [r \in Requests |-> Selection(Payload[r].order)]

(* OBSERVE and RECOMMEND permit as little as APPROVAL_REQUIRED.             *)
Levels == {"APPROVAL_REQUIRED", "BOUNDED_AUTONOMY", "SUSPENDED"}

Reasons == {"STALE_OPERATIONAL_CONTEXT",
            "NO_INTERVENTION_HAS_POSITIVE_INCREMENTAL_VALUE",
            "RESTRICTED_PRODUCT_REQUIRES_HUMAN_APPROVAL",
            "MODE_PREVENTS_AUTONOMOUS_EXECUTION",
            "GLOBAL_ACTION_KILL_SWITCH_ACTIVE",
            "ACTION_AUTONOMY_NOT_EARNED",
            "BOUNDED_AUTONOMY_CONDITIONS_SATISFIED",
            "BOUNDED_AUTONOMY_CONDITIONS_NOT_SATISFIED"}

Disposition(reason) ==
  CASE reason \in {"STALE_OPERATIONAL_CONTEXT", "GLOBAL_ACTION_KILL_SWITCH_ACTIVE"}
         -> "BLOCK"
    [] reason = "NO_INTERVENTION_HAS_POSITIVE_INCREMENTAL_VALUE"
         -> "TAKE_NO_ACTION"
    [] reason = "BOUNDED_AUTONOMY_CONDITIONS_SATISFIED" -> "AUTO_EXECUTE"
    [] OTHER -> "REQUEST_APPROVAL"

NoApproval == [status |-> "NONE", requested_by |-> Nobody, decided_by |-> Nobody,
               decided_by_role |-> "NONE"]
NoAction == [approved_by |-> "NONE"]
NoCall == [op |-> "none"]

Init ==
  /\ killSwitch = [active |-> FALSE, version |-> 1]
  /\ profile = [a \in Executable |-> [level |-> "APPROVAL_REQUIRED", version |-> 1]]
  /\ inbox = {}
  /\ ledger = {}
  /\ approval = [d \in ledger |-> NoApproval]
  /\ action = [d \in ledger |-> NoAction]
  /\ pc = [t \in Threads |-> "idle"]
  /\ call = [t \in Threads |-> NoCall]

Goto(t, step) == pc' = [pc EXCEPT ![t] = step]

(* The thread goes on to a step, knowing what it has read so far.           *)
Continue(t, step, known) ==
  Goto(t, step) /\ call' = [call EXCEPT ![t] = known]

(* Mutant: the thread goes on with the call it has served.                  *)
ReturnKeepingCall(t) == Goto(t, "idle") /\ UNCHANGED call

Return(t) == Continue(t, "idle", NoCall)

----------------------------------------------------------------------------
(* evaluate: the event, the policy, the decision                            *)

CallEvaluate(t, r) ==
  /\ pc[t] = "idle"
  /\ Cardinality(ledger) + Cardinality({u \in Threads : call[u].op = "evaluate"})
       < MaxDecisions
  /\ Continue(t, "ingest", [op |-> "evaluate", request |-> r])
  /\ UNCHANGED <<controls, tables>>

SameIdentity(r, q) ==
  /\ Payload[r].source = Payload[q].source
  /\ Payload[r].event = Payload[q].event
  /\ Payload[r].version = Payload[q].version

(* An event version that is sent again with another payload is a conflict.  *)
Ingest(t) ==
  LET r == call[t].request IN
  /\ pc[t] = "ingest"
  /\ \/ /\ \E q \in inbox : SameIdentity(r, q) /\ q # r
        /\ UNCHANGED inbox
        /\ Return(t)
     \/ /\ \A q \in inbox : SameIdentity(r, q) => q = r
        /\ inbox' = inbox \cup {r}
        /\ Goto(t, "read_switch_version")
        /\ UNCHANGED call
  /\ UNCHANGED <<controls, ledger, approval, action>>

(* What a decision was made of: the request and the reason of the policy,   *)
(* under a fingerprint of the controls.                                     *)
Deciding(r, control_version, reason) ==
  [request |-> r, control_version |-> control_version, reason |-> reason]

(* The conditions that are checked before the controls are read.  The       *)
(* warnings of the risk score are among them, but staleness is the only one *)
(* a valid order can have.                                                  *)
Screened(r) ==
  IF Stale(Payload[r].order) THEN "STALE_OPERATIONAL_CONTEXT"
  ELSE IF selected_action[r] = "TAKE_NO_ACTION"
  THEN "NO_INTERVENTION_HAS_POSITIVE_INCREMENTAL_VALUE"
  ELSE IF Payload[r].order.restricted_product
  THEN "RESTRICTED_PRODUCT_REQUIRES_HUMAN_APPROVAL"
  ELSE IF Payload[r].mode # "BOUNDED_AUTONOMY" THEN "MODE_PREVENTS_AUTONOMOUS_EXECUTION"
  ELSE "NONE"

(* context_version reads the version of the switch, and then that of the    *)
(* profile if the action has one.                                           *)
ReadSwitchVersion(t) ==
  LET r == call[t].request IN
  /\ pc[t] = "read_switch_version"
  /\ \/ /\ selected_action[r] \in Executable
        /\ Continue(t, "read_profile_version",
             [op |-> "evaluate", request |-> r, switch |-> killSwitch.version])
     \/ /\ selected_action[r] \notin Executable
        /\ Continue(t, "record",
             [op |-> "evaluate",
              decision |-> Deciding(r, <<killSwitch.version>>, Screened(r))])
  /\ UNCHANGED <<controls, tables>>

ReadProfileVersion(t) ==
  LET r == call[t].request
      version == <<call[t].switch, profile[selected_action[r]].version>> IN
  /\ pc[t] = "read_profile_version"
  /\ Continue(t, IF Screened(r) = "NONE" THEN "read_switch" ELSE "record",
       [op |-> "evaluate", decision |-> Deciding(r, version, Screened(r))])
  /\ UNCHANGED <<controls, tables>>

(* Mutant: the fingerprint is taken when the reason is known.               *)
DecideWithVersion(t, reason) ==
  Continue(t, "record",
    [call[t] EXCEPT !.decision.reason = reason,
       !.decision.control_version =
         <<killSwitch.version,
           profile[selected_action[call[t].decision.request]].version>>])

Decide(t, reason) ==
  Continue(t, "record", [call[t] EXCEPT !.decision.reason = reason])

(* The switch is read for the policy, and again by execution_permitted.     *)
ReadSwitch(t) ==
  /\ pc[t] = "read_switch"
  /\ \/ killSwitch.active /\ Decide(t, "GLOBAL_ACTION_KILL_SWITCH_ACTIVE")
     \/ ~ killSwitch.active /\ Goto(t, "read_switch_again") /\ UNCHANGED call
  /\ UNCHANGED <<controls, tables>>

ReadSwitchAgain(t) ==
  /\ pc[t] = "read_switch_again"
  /\ \/ killSwitch.active /\ Decide(t, "ACTION_AUTONOMY_NOT_EARNED")
     \/ ~ killSwitch.active /\ Goto(t, "read_level") /\ UNCHANGED call
  /\ UNCHANGED <<controls, tables>>

WhenEarned(r) ==
  IF Bounded(Payload[r].order, selected_action[r])
  THEN "BOUNDED_AUTONOMY_CONDITIONS_SATISFIED"
  ELSE "BOUNDED_AUTONOMY_CONDITIONS_NOT_SATISFIED"

ReadLevel(t) ==
  LET r == call[t].decision.request IN
  /\ pc[t] = "read_level"
  /\ Decide(t, IF profile[selected_action[r]].level = "BOUNDED_AUTONOMY"
               THEN WhenEarned(r) ELSE "ACTION_AUTONOMY_NOT_EARNED")
  /\ UNCHANGED <<controls, tables>>

(* The identity of a decision holds all it was made of, so that a replay    *)
(* finds its own row.                                                       *)
Record(t) ==
  /\ pc[t] = "record"
  /\ ledger' = ledger \cup {call[t].decision}
  /\ approval' = [d \in ledger' |-> IF d \in ledger THEN approval[d] ELSE NoApproval]
  /\ action' = [d \in ledger' |-> IF d \in ledger THEN action[d] ELSE NoAction]
  /\ Return(t)
  /\ UNCHANGED <<controls, inbox>>

----------------------------------------------------------------------------
(* submit                                                                   *)

DispositionOf(d) == Disposition(d.reason)

(* A decision to block or to take no action is returned as it is.           *)
CallSubmit(t, d, actor) ==
  /\ pc[t] = "idle"
  /\ DispositionOf(d) \in {"AUTO_EXECUTE", "REQUEST_APPROVAL"}
  /\ Continue(t,
       IF DispositionOf(d) = "AUTO_EXECUTE" THEN "read_request" ELSE "request_approval",
       [op |-> "submit", decision |-> d, requested_by |-> actor])
  /\ UNCHANGED <<controls, tables>>

(* get_request_payload: the newest version under the event id, whoever sent *)
(* it; of two sources with the same newest version, either.                 *)
Found(event, r) ==
  /\ r \in inbox
  /\ Payload[r].event = event
  /\ \A q \in inbox : Payload[q].event = event => Payload[q].version <= Payload[r].version

(* The command acts on the order of the request that was found.             *)
Command(d, r, requested_by, approved_by) ==
  [request |-> r, action |-> selected_action[d.request],
   requested_by |-> requested_by, approved_by |-> approved_by]

Executing(d, command) == [op |-> "execute", decision |-> d, command |-> command]

(* _request and _command_for_decision of an autonomous decision             *)
ReadRequest(t) ==
  LET d == call[t].decision IN
  /\ pc[t] = "read_request"
  /\ \E r \in inbox :
       /\ Found(Payload[d.request].event, r)
       /\ Continue(t, "kill_switch",
            Executing(d, Command(d, r, call[t].requested_by, Nobody)))
  /\ UNCHANGED <<controls, tables>>

RequestApproval(t) ==
  LET d == call[t].decision IN
  /\ pc[t] = "request_approval"
  /\ \/ /\ approval[d] = NoApproval
        /\ approval' = [approval EXCEPT
             ![d].status = "PENDING", ![d].requested_by = call[t].requested_by]
     \/ approval[d] # NoApproval /\ UNCHANGED approval
  /\ Return(t)
  /\ UNCHANGED <<controls, inbox, ledger, action>>

----------------------------------------------------------------------------
(* approve_and_execute and reject                                           *)

(* The roles that _decide refuses are refused before it here as well: what  *)
(* comes in between only reads.                                             *)
MayDecide(actor, role) ==
  role \in MayClaim[actor] \cap {"OPERATIONS_ANALYST", "OPERATIONS_MANAGER"}

CallApprove(t, d, actor, role) ==
  /\ pc[t] = "idle"
  /\ approval[d] # NoApproval
  /\ MayDecide(actor, role)
  /\ Continue(t, "check_authority",
       [op |-> "approve", decision |-> d, actor |-> actor, role |-> role])
  /\ UNCHANGED <<controls, tables>>

CallReject(t, d, actor, role) ==
  /\ pc[t] = "idle"
  /\ approval[d] # NoApproval
  /\ MayDecide(actor, role)
  /\ Continue(t, "reject",
       [op |-> "reject", decision |-> d, actor |-> actor, role |-> role])
  /\ UNCHANGED <<controls, tables>>

(* What an analyst may approve: the cost of the decision, the restriction   *)
(* of the request that was found.                                           *)
DelegatedTo(d, r) ==
  /\ ~ Payload[r].order.restricted_product
  /\ Delegated(Payload[d.request].order, selected_action[d.request])

(* Mutant: the restriction is looked up in the request of the decision.     *)
AuthorityOverDecision(role, d, r) ==
  role = "OPERATIONS_ANALYST" => DelegatedTo(d, d.request)

HasAuthority(role, d, r) == role = "OPERATIONS_ANALYST" => DelegatedTo(d, r)

CheckAuthority(t) ==
  LET d == call[t].decision IN
  /\ pc[t] = "check_authority"
  /\ \E r \in inbox :
       /\ Found(Payload[d.request].event, r)
       /\ \/ ~ HasAuthority(call[t].role, d, r) /\ Return(t)
          \/ /\ HasAuthority(call[t].role, d, r)
             /\ Continue(t, "approve",
                  [op |-> "approve", decision |-> d, request |-> r,
                   actor |-> call[t].actor, role |-> call[t].role])
  /\ UNCHANGED <<controls, tables>>

(* Pending, in time, and decided by somebody else than the requester.       *)
Decidable(t) ==
  LET row == approval[call[t].decision] IN
  row.status = "PENDING" /\ row.requested_by # call[t].actor

DecideApproval(t, status) ==
  approval' = [approval EXCEPT ![call[t].decision] =
    [@ EXCEPT !.status = status, !.decided_by = call[t].actor,
              !.decided_by_role = call[t].role]]

ExpireApproval(t) ==
  /\ Decidable(t)
  /\ approval' = [approval EXCEPT ![call[t].decision].status = "EXPIRED"]
  /\ Return(t)

(* Mutant: the command is made of the request that is the newest now, and   *)
(* refused if it is not the one that was checked, when the approval is      *)
(* already given.                                                           *)
ApproveThenCheck(t) ==
  LET d == call[t].decision IN
  /\ pc[t] = "approve"
  /\ \/ ~ Decidable(t) /\ UNCHANGED approval /\ Return(t)
     \/ ExpireApproval(t)
     \/ /\ Decidable(t)
        /\ DecideApproval(t, "APPROVED")
        /\ IF Found(Payload[d.request].event, call[t].request)
           THEN Continue(t, "kill_switch",
                  Executing(d, Command(d, call[t].request, approval[d].requested_by,
                                       call[t].actor)))
           ELSE Return(t)
  /\ UNCHANGED <<controls, inbox, ledger, action>>

Approve(t) ==
  LET d == call[t].decision IN
  /\ pc[t] = "approve"
  /\ \/ ~ Decidable(t) /\ UNCHANGED approval /\ Return(t)
     \/ ExpireApproval(t)
     \/ /\ Decidable(t)
        /\ DecideApproval(t, "APPROVED")
        /\ Continue(t, "kill_switch",
             Executing(d, Command(d, call[t].request, approval[d].requested_by,
                                  call[t].actor)))
  /\ UNCHANGED <<controls, inbox, ledger, action>>

Reject(t) ==
  /\ pc[t] = "reject"
  /\ \/ ~ Decidable(t) /\ UNCHANGED approval /\ Return(t)
     \/ ExpireApproval(t)
     \/ Decidable(t) /\ DecideApproval(t, "REJECTED") /\ Return(t)
  /\ UNCHANGED <<controls, inbox, ledger, action>>

----------------------------------------------------------------------------
(* execute, as far as it can be told from the action table                  *)

CheckKillSwitch(t) ==
  /\ pc[t] = "kill_switch"
  /\ \/ killSwitch.active /\ Return(t)
     \/ ~ killSwitch.active /\ Goto(t, "claim") /\ UNCHANGED call
  /\ UNCHANGED <<controls, tables>>

Claim(t) ==
  LET d == call[t].decision IN
  /\ pc[t] = "claim"
  /\ \/ /\ action[d] = NoAction
        /\ action' = [action EXCEPT ![d] = call[t].command]
        /\ Goto(t, "complete")
        /\ UNCHANGED call
     \/ action[d] # NoAction /\ UNCHANGED action /\ Return(t)
  /\ UNCHANGED <<controls, inbox, ledger, approval>>

(* The status an action ends with is left to ActionGateway.tla, but for     *)
(* this: a failure, compensated or not, suspends a promoted profile.        *)
AfterFailure(row) ==
  [level |-> IF row.level = "BOUNDED_AUTONOMY" THEN "SUSPENDED" ELSE row.level,
   version |-> row.version + 1]

Complete(t) ==
  LET d == call[t].decision IN
  /\ pc[t] = "complete"
  /\ \/ UNCHANGED profile
     \/ profile' = [profile EXCEPT ![selected_action[d.request]] = AfterFailure(@)]
  /\ Return(t)
  /\ UNCHANGED <<killSwitch, tables>>

----------------------------------------------------------------------------
(* The managers                                                             *)

SetKillSwitch(active) ==
  /\ killSwitch.version < MaxSwitchVersion
  /\ killSwitch' = [active |-> active, version |-> killSwitch.version + 1]
  /\ UNCHANGED <<profile, tables, pc, call>>

(* What a verified outcome does to a profile looks the same: a new version, *)
(* with the level it had or suspended.                                      *)
SetProfile(a, level) ==
  /\ profile[a].version < MaxProfileVersion
  /\ profile' = [profile EXCEPT ![a] = [level |-> level, version |-> @.version + 1]]
  /\ UNCHANGED <<killSwitch, tables, pc, call>>

Evaluate(t) ==
  \/ Ingest(t) \/ ReadSwitchVersion(t) \/ ReadProfileVersion(t) \/ ReadSwitch(t)
  \/ ReadSwitchAgain(t) \/ ReadLevel(t) \/ Record(t)

Execute(t) == CheckKillSwitch(t) \/ Claim(t) \/ Complete(t)

Step(t) ==
  \/ Evaluate(t) \/ ReadRequest(t) \/ RequestApproval(t)
  \/ CheckAuthority(t) \/ Approve(t) \/ Reject(t) \/ Execute(t)

CallDecide(t, d, actor, role) ==
  CallApprove(t, d, actor, role) \/ CallReject(t, d, actor, role)

(* The profiles of other actions change nothing that is read here.          *)
InUse == {selected_action[r] : r \in Requests} \cap Executable

Next ==
  \/ \E t \in Threads, r \in Requests : CallEvaluate(t, r)
  \/ \E t \in Threads, d \in ledger, actor \in Actors :
       \/ CallSubmit(t, d, actor)
       \/ \E role \in Roles : CallDecide(t, d, actor, role)
  \/ \E t \in Threads : Step(t)
  \/ \E active \in BOOLEAN : SetKillSwitch(active)
  \/ \E a \in InUse, level \in Levels : SetProfile(a, level)

Spec == Init /\ [][Next]_vars

----------------------------------------------------------------------------
(* Properties                                                               *)

Commands == [request : Requests, action : Executable, requested_by : Actors,
             approved_by : Actors \cup {Nobody}]

ApprovalStatuses == {"NONE", "PENDING", "APPROVED", "REJECTED", "EXPIRED"}

TypeOK ==
  /\ killSwitch \in [active : BOOLEAN, version : Nat]
  /\ profile \in [Executable -> [level : Levels, version : Nat]]
  /\ inbox \subseteq Requests
  /\ \A d \in ledger :
       /\ d \in [request : inbox, reason : Reasons, control_version : {d.control_version}]
       /\ Len(d.control_version) =
            IF selected_action[d.request] \in Executable THEN 2 ELSE 1
  /\ approval \in [ledger ->
       [status : ApprovalStatuses, requested_by : Actors \cup {Nobody},
        decided_by : Actors \cup {Nobody}, decided_by_role : Roles \cup {"NONE"}]]
  /\ \A d \in ledger :
       action[d] = NoAction \/ action[d] \in Commands
  /\ \A t \in Threads : pc[t] = "idle" <=> call[t] = NoCall

ContextVersion(r) ==
  IF selected_action[r] \in Executable
  THEN <<killSwitch.version, profile[selected_action[r]].version>>
  ELSE <<killSwitch.version>>

(* What the policy says of a request in the controls of this moment.        *)
PolicyReason(r) ==
  IF Screened(r) # "NONE" THEN Screened(r)
  ELSE IF killSwitch.active THEN "GLOBAL_ACTION_KILL_SWITCH_ACTIVE"
  ELSE IF profile[selected_action[r]].level = "BOUNDED_AUTONOMY" THEN WhenEarned(r)
  ELSE "ACTION_AUTONOMY_NOT_EARNED"

(* A decision whose control version is the current one is the decision the  *)
(* policy would make now, although evaluate reads the controls five times   *)
(* in transactions of their own: the versions are read before what they     *)
(* stand for (PolicyGateway.evaluate, context_version).                     *)
CurrentDecisions ==
  \A d \in ledger :
    d.control_version = ContextVersion(d.request) => d.reason = PolicyReason(d.request)

(* Nothing is executed without authority: the decision was to execute, or   *)
(* somebody else than the requester approved it, who may decide on the      *)
(* order in the command and on the cost of the decision, whatever arrived   *)
(* between the check and the claim (submit, approve_and_execute).           *)
Autonomous(d) == action[d].approved_by = Nobody

ExecutedWithAuthority ==
  \A d \in ledger : action[d] # NoAction =>
    IF Autonomous(d)
    THEN DispositionOf(d) = "AUTO_EXECUTE"
    ELSE /\ DispositionOf(d) = "REQUEST_APPROVAL"
         /\ approval[d].status = "APPROVED"
         /\ approval[d].decided_by = action[d].approved_by
         /\ action[d].requested_by \in Actors \ {approval[d].decided_by}
         /\ \/ approval[d].decided_by_role = "OPERATIONS_MANAGER"
            \/ /\ ~ Payload[action[d].request].order.restricted_product
               /\ Delegated(Payload[d.request].order, action[d].action)

Worth == [r \in Requests |-> Values(Payload[r].order)]

(* What is executed is worth it: no feasible option was worth more, and     *)
(* leaving the order alone was worth less, in the evaluation that selected  *)
(* the action (DecisionOptimizer.select, PolicyGateway.evaluate, submit).   *)
WorthExecuting ==
  \A d \in ledger : action[d] # NoAction =>
    LET worth == Worth[d.request] IN
    /\ action[d].action \in DOMAIN worth
    /\ worth[action[d].action] > worth["TAKE_NO_ACTION"]
    /\ \A a \in DOMAIN worth : worth[a] <= worth[action[d].action]

(* No order with a restricted product is acted on without a manager.        *)
RestrictedNeedsManager ==
  \A d \in ledger : action[d] # NoAction /\ Payload[action[d].request].order.restricted_product =>
    approval[d].decided_by_role = "OPERATIONS_MANAGER"

(* An approval is not used up in vain: once it is given, a call is on its   *)
(* way to execute the decision or has done so, unless the kill switch has   *)
(* been set.  It cannot be given again (approve_and_execute).               *)
ApprovalIsUsed ==
  \A d \in ledger : approval[d].status = "APPROVED" /\ action[d] = NoAction =>
    \/ \E t \in Threads : pc[t] \in {"kill_switch", "claim"} /\ call[t].decision = d
    \/ killSwitch.version > 1
=============================================================================
