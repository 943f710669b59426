----------------------- MODULE RecoveryWorkflowProofs -----------------------
(* Theorems about RecoveryWorkflow, for every number of threads, requests   *)
(* and actors and every bound on the changes of the managers; about the     *)
(* pipeline it computes decisions with (RecoveryOptions), for every order;  *)
(* and about what its decisions lose (SyntheticBacktest).                   *)
EXTENDS SyntheticBacktest, TLAPS

----------------------------------------------------------------------------
(* Numbers                                                                  *)

(* A rounded amount is whole, and half a unit away at most (_money).        *)
LEMMA RoundedError ==
  ASSUME NEW x \in Int
  PROVE  /\ Rounded(x, One) \in Int
         /\ 2 * One * Rounded(x, One) - 2 * x <= One
         /\ 2 * x - 2 * One * Rounded(x, One) <= One
BY DEF Rounded, One

LEMMA RoundedType ==
  ASSUME NEW x \in Int PROVE Rounded(x, 60) \in Int
BY DEF Rounded

LEMMA ProductType ==
  ASSUME NEW m \in Int, NEW p \in Int PROVE m * p \in Int
OBVIOUS

LEMMA ClippedType ==
  \A x \in Int : Clipped(x, 100, 9900) \in Probability
BY DEF Clipped, Smaller, Probability, One

LEMMA ProbabilityNumbers ==
  /\ \A p \in Probability : p \in Int
  /\ \A p \in Probability : One - p \in Int
  /\ \A p \in Probability : One - p \in Probability
<1>1. \A p \in Probability : p \in Int
  BY DEF Probability
<1>2. \A p \in Probability : One - p \in Int
  BY DEF Probability, One
<1>3. \A p \in Probability : One - p \in Probability
  BY DEF Probability, One
<1> QED
  BY <1>1, <1>2, <1>3

(* What is used of an order below.                                          *)
LEMMA OrderTypes ==
  ASSUME NEW o \in OrderContexts
  PROVE  /\ o.gross_margin \in Nat /\ o.failure_cost \in Nat
         /\ o.carrier_on_time_probability \in Int
         /\ o.inventory_confidence \in Int
         /\ o.hours_since_expected_scan \in Int
         /\ \A a \in Executable : o.on_time_probability[a] \in Probability
         /\ \A a \in Executable : o.cost[a] \in Nat
<1>1. o \in OrderFields
  BY DEF OrderContexts
<1>2. /\ o.carrier_on_time_probability \in Probability
      /\ o.inventory_confidence \in Probability
      /\ o.hours_since_expected_scan \in Nat
      /\ o.gross_margin \in Nat /\ o.failure_cost \in Nat
  BY <1>1 DEF OrderFields
<1>3. /\ o.on_time_probability \in [Executable -> Probability]
      /\ o.cost \in [Executable -> Nat]
  BY <1>1 DEF OrderFields
<1>4. /\ \A a \in Executable : o.on_time_probability[a] \in Probability
      /\ \A a \in Executable : o.cost[a] \in Nat
  BY <1>3
<1>5. /\ o.carrier_on_time_probability \in Int
      /\ o.inventory_confidence \in Int
      /\ o.hours_since_expected_scan \in Int
  BY <1>2, ProbabilityNumbers
<1> QED
  BY <1>2, <1>4, <1>5

(* The risk score is a probability, whatever it is summed of (score).       *)
LEMMA FailureProbabilityType ==
  ASSUME NEW o \in OrderContexts PROVE failure_probability(o) \in Probability
<1> DEFINE sum == Sixtieths(One - o.carrier_on_time_probability) + UnavailableStock(o)
                    + LowConfidence(o) + MissingScan(o) + TightWindow(o)
<1>1. Sixtieths(One - o.carrier_on_time_probability) \in Int
  <2>1. o.carrier_on_time_probability \in Int
    BY OrderTypes
  <2> QED
    BY <2>1 DEF Sixtieths, One
<1>2. UnavailableStock(o) \in Int /\ TightWindow(o) \in Int
  BY DEF UnavailableStock, TightWindow, Sixtieths
<1>3. LowConfidence(o) \in Int
  <2>1. o.inventory_confidence \in Int
    BY OrderTypes
  <2> QED
    BY <2>1 DEF LowConfidence, Sixtieths, Smaller
<1>4. MissingScan(o) \in Int
  <2>1. o.hours_since_expected_scan \in Int
    BY OrderTypes
  <2> QED
    BY <2>1 DEF MissingScan, Sixtieths, Smaller
<1>5. sum \in Int
  BY <1>1, <1>2, <1>3, <1>4
<1>6. failure_probability(o) = Clipped(Rounded(sum, 60), 100, 9900)
  BY DEF failure_probability
<1> HIDE DEF sum
<1>7. Rounded(sum, 60) \in Int
  BY <1>5, RoundedType
<1>8. Clipped(Rounded(sum, 60), 100, 9900) \in Probability
  BY <1>7, ClippedType
<1> QED
  BY <1>6, <1>8

LEMMA OnTimeProbabilityType ==
  ASSUME NEW o \in OrderContexts, NEW a \in RecoveryActions
  PROVE  on_time_probability(o, a) \in Probability
<1>1. CASE a \in Executable
  BY <1>1, OrderTypes DEF on_time_probability
<1>2. CASE a \notin Executable
  <2>1. failure_probability(o) \in Probability
    BY FailureProbabilityType
  <2>2. One - failure_probability(o) \in Probability
    BY <2>1, ProbabilityNumbers
  <2> QED
    BY <1>2, <2>2 DEF on_time_probability
<1> QED
  BY <1>1, <1>2

LEMMA CostType ==
  ASSUME NEW o \in OrderContexts, NEW a \in RecoveryActions
  PROVE  intervention_cost(o, a) \in Nat
BY OrderTypes DEF intervention_cost

LEMMA NetValueType ==
  ASSUME NEW o \in OrderContexts, NEW a \in RecoveryActions
  PROVE  expected_net_value(o, a) \in Int
<1> DEFINE success == on_time_probability(o, a)
<1>0. success \in Probability
  BY OnTimeProbabilityType
<1> HIDE DEF success
<1>1. /\ success \in Int /\ One - success \in Int
      /\ o.gross_margin \in Int /\ o.failure_cost \in Int
  <2>1. success \in Int /\ One - success \in Int
    BY <1>0, ProbabilityNumbers
  <2>2. o.gross_margin \in Nat /\ o.failure_cost \in Nat
    BY OrderTypes
  <2> QED
    BY <2>1, <2>2
<1>2. o.gross_margin * success \in Int /\ o.failure_cost * (One - success) \in Int
  BY <1>1, ProductType
<1>3. /\ Rounded(o.gross_margin * success, One) \in Int
      /\ Rounded(o.failure_cost * (One - success), One) \in Int
  BY <1>2, RoundedError
<1> QED
  BY <1>3, CostType DEF expected_net_value, success

----------------------------------------------------------------------------
(* The selection                                                            *)

(* Of any options one outranks the others: values and priorities order them *)
(* totally (select).                                                        *)
LEMMA BestExists ==
  ASSUME NEW S \in SUBSET RecoveryActions, "TAKE_NO_ACTION" \in S,
         NEW value, \A a \in S : value[a] \in Int
  PROVE  \E a \in S : \A b \in S \ {a} : Outranks(value, a, b)
BY DEF Outranks, Priority, RecoveryActions, Executable

LEMMA FeasibleActions ==
  ASSUME NEW o \in OrderContexts
  PROVE  Feasible(o) \in SUBSET RecoveryActions /\ "TAKE_NO_ACTION" \in Feasible(o)
BY DEF Feasible, RecoveryActions, Executable

(* The selected option is feasible and outranks every other one.            *)
THEOREM SelectionOutranks ==
  ASSUME NEW o \in OrderContexts
  PROVE  /\ Selection(o) \in Feasible(o)
         /\ \A b \in Feasible(o) \ {Selection(o)} : Outranks(Values(o), Selection(o), b)
<1>1. \A a \in Feasible(o) : Values(o)[a] \in Int
  BY NetValueType, FeasibleActions DEF Values
<1>2. \E a \in Feasible(o) : \A b \in Feasible(o) \ {a} : Outranks(Values(o), a, b)
  BY <1>1, FeasibleActions, BestExists
<1> QED
  BY <1>2 DEF Selection

(* What is selected instead of doing nothing is worth strictly more, and no *)
(* feasible option is worth more than it (select, the priority of doing     *)
(* nothing).                                                                *)
THEOREM SelectionWorth ==
  ASSUME NEW o \in OrderContexts
  PROVE  /\ \A b \in Feasible(o) :
              expected_net_value(o, b) <= expected_net_value(o, Selection(o))
         /\ Selection(o) # "TAKE_NO_ACTION" =>
              expected_net_value(o, "TAKE_NO_ACTION") < expected_net_value(o, Selection(o))
<1>1. \A b \in Feasible(o) : Values(o)[b] = expected_net_value(o, b) /\ Values(o)[b] \in Int
  BY NetValueType, FeasibleActions DEF Values
<1>2. Priority["TAKE_NO_ACTION"] = 0 /\ \A b \in RecoveryActions : Priority[b] \in Nat
  BY DEF Priority, RecoveryActions, Executable
<1> QED
  BY <1>1, <1>2, SelectionOutranks, FeasibleActions DEF Outranks

----------------------------------------------------------------------------
(* What is recorded, and what threads know                                  *)

(* A decision as it is recorded: a request that has arrived, and a reason   *)
(* that does not let an action be executed that was not selected.           *)
DecisionOK(d) ==
  /\ d = Deciding(d.request, d.control_version, d.reason)
  /\ d.request \in inbox
  /\ d.reason \in Reasons
  /\ Len(d.control_version) = IF selected_action[d.request] \in Executable THEN 2 ELSE 1
  /\ DispositionOf(d) \in {"AUTO_EXECUTE", "REQUEST_APPROVAL"} =>
       selected_action[d.request] \in Executable

(* A decision whose reason is still to be found in the controls.            *)
UndecidedOK(d) ==
  /\ d = Deciding(d.request, d.control_version, d.reason)
  /\ d.request \in inbox
  /\ Len(d.control_version) = 2
  /\ selected_action[d.request] \in Executable

Deciders == {"OPERATIONS_ANALYST", "OPERATIONS_MANAGER"}
ReadingControls == {"read_switch", "read_switch_again", "read_level"}
OnItsWay == {"kill_switch", "claim", "complete"}
StepNames ==
  {"idle", "ingest", "read_switch_version", "read_profile_version", "record",
   "read_request", "request_approval", "check_authority", "approve", "reject"}
    \cup ReadingControls \cup OnItsWay

(* What a thread knows of its call at every step.                           *)
CallOK(t) ==
  /\ pc[t] \in StepNames
  /\ pc[t] = "idle" <=> call[t] = NoCall
  /\ pc[t] = "ingest" => call[t] \in [op : {"evaluate"}, request : Requests]
  /\ pc[t] = "read_switch_version" => call[t] \in [op : {"evaluate"}, request : inbox]
  /\ pc[t] = "read_profile_version" =>
       /\ call[t] \in [op : {"evaluate"}, request : inbox, switch : Nat]
       /\ selected_action[call[t].request] \in Executable
  /\ pc[t] \in ReadingControls =>
       /\ call[t] = [op |-> "evaluate", decision |-> call[t].decision]
       /\ UndecidedOK(call[t].decision)
  /\ pc[t] = "record" =>
       /\ call[t] = [op |-> "evaluate", decision |-> call[t].decision]
       /\ DecisionOK(call[t].decision)
  /\ pc[t] \in {"read_request", "request_approval"} =>
       /\ call[t] \in [op : {"submit"}, decision : ledger, requested_by : Actors]
       /\ DispositionOf(call[t].decision) =
            IF pc[t] = "read_request" THEN "AUTO_EXECUTE" ELSE "REQUEST_APPROVAL"
  /\ pc[t] \in {"check_authority", "reject"} =>
       call[t] \in [op : {"approve", "reject"}, decision : ledger,
                    actor : Actors, role : Deciders]
  /\ pc[t] = "approve" =>
       /\ call[t] \in [op : {"approve"}, decision : ledger, request : Requests,
                       actor : Actors, role : Deciders]
       /\ HasAuthority(call[t].role, call[t].decision, call[t].request)
  /\ pc[t] \in OnItsWay =>
       /\ call[t] \in [op : {"execute"}, decision : ledger, command : Commands]
       /\ call[t].command.action = selected_action[call[t].decision.request]

CallsOK ==
  /\ DOMAIN pc = Threads
  /\ DOMAIN call = Threads
  /\ \A t \in Threads : CallOK(t)

(* What was selected is executed, and only a decision that asks for it has  *)
(* an approval.                                                             *)
RowOK(d) ==
  /\ action[d] # NoAction =>
       action[d] \in Commands /\ action[d].action = selected_action[d.request]
  /\ approval[d].status # "NONE" =>
       /\ approval[d].requested_by \in Actors
       /\ DispositionOf(d) = "REQUEST_APPROVAL"

ApprovalRows ==
  [status : ApprovalStatuses, requested_by : Actors \cup {Nobody},
   decided_by : Actors \cup {Nobody}, decided_by_role : Roles \cup {"NONE"}]

TablesOK ==
  /\ killSwitch \in [active : BOOLEAN, version : Nat]
  /\ profile \in [Executable -> [level : Levels, version : Nat]]
  /\ inbox \subseteq Requests
  /\ \A d \in ledger : DecisionOK(d)
  /\ approval \in [ledger -> ApprovalRows]
  /\ DOMAIN action = ledger
  /\ \A d \in ledger : RowOK(d)

Typed == TablesOK /\ CallsOK

----------------------------------------------------------------------------
(* Types                                                                    *)

LEMMA TypedType == Typed => TypeOK
<1> SUFFICES ASSUME Typed PROVE TypeOK
  OBVIOUS
<1>1. \A d \in ledger :
        d \in [request : inbox, reason : Reasons, control_version : {d.control_version}]
  BY DEF Typed, TablesOK, DecisionOK, Deciding
<1>2. \A d \in ledger :
        Len(d.control_version) = IF selected_action[d.request] \in Executable THEN 2 ELSE 1
  BY DEF Typed, TablesOK, DecisionOK
<1> QED
  BY <1>1, <1>2 DEF Typed, TablesOK, CallsOK, CallOK, RowOK, ApprovalRows, TypeOK

(* The optimizer selects an action of the simulator.                        *)
LEMMA SelectedType ==
  \A r \in Requests : selected_action[r] \in RecoveryActions
<1> TAKE r \in Requests
<1>1. Payload[r].order \in OrderContexts
  BY PayloadAssumption
<1>2. Selection(Payload[r].order) \in Feasible(Payload[r].order)
  BY <1>1, SelectionOutranks
<1>3. Feasible(Payload[r].order) \in SUBSET RecoveryActions
  BY <1>1, FeasibleActions
<1> QED
  BY <1>2, <1>3 DEF selected_action

LEMMA ScreenedType ==
  \A r \in Requests :
    /\ Screened(r) \in Reasons \cup {"NONE"}
    /\ selected_action[r] \notin Executable =>
         /\ Screened(r) \in Reasons
         /\ Disposition(Screened(r)) \notin {"AUTO_EXECUTE", "REQUEST_APPROVAL"}
<1> TAKE r \in Requests
<1> DEFINE stale == Stale(Payload[r].order)
           nothing == selected_action[r] = "TAKE_NO_ACTION"
<1>1. /\ stale => Screened(r) = "STALE_OPERATIONAL_CONTEXT"
      /\ ~ stale /\ nothing =>
           Screened(r) = "NO_INTERVENTION_HAS_POSITIVE_INCREMENTAL_VALUE"
  BY DEF Screened
<1>2. ~ stale /\ ~ nothing =>
        Screened(r) \in {"RESTRICTED_PRODUCT_REQUIRES_HUMAN_APPROVAL",
                         "MODE_PREVENTS_AUTONOMOUS_EXECUTION", "NONE"}
  BY DEF Screened
<1>3. /\ Disposition("STALE_OPERATIONAL_CONTEXT") = "BLOCK"
      /\ Disposition("NO_INTERVENTION_HAS_POSITIVE_INCREMENTAL_VALUE") = "TAKE_NO_ACTION"
  BY DEF Disposition
<1>4. selected_action[r] \notin Executable => nothing
  BY SelectedType DEF RecoveryActions
<1> QED
  BY <1>1, <1>2, <1>3, <1>4 DEF Reasons

(* A step of a thread leaves what the others know of their calls alone.     *)
LEMMA OthersOK ==
  ASSUME CallsOK, NEW t \in Threads, NEW step, Goto(t, step),
         (\E known : call' = [call EXCEPT ![t] = known]) \/ UNCHANGED call,
         inbox \subseteq inbox', ledger \subseteq ledger'
  PROVE  /\ DOMAIN pc' = Threads /\ DOMAIN call' = Threads
         /\ pc'[t] = step
         /\ \A u \in Threads \ {t} : CallOK(u)'
<1>1. /\ DOMAIN pc' = Threads /\ DOMAIN call' = Threads /\ pc'[t] = step
      /\ \A u \in Threads \ {t} : pc'[u] = pc[u] /\ call'[u] = call[u]
  BY DEF Goto, CallsOK
<1> SUFFICES ASSUME NEW u \in Threads \ {t} PROVE CallOK(u)'
  BY <1>1
<1>2. CallOK(u) /\ pc'[u] = pc[u] /\ call'[u] = call[u]
  BY <1>1 DEF CallsOK
<1> QED
  BY <1>2 DEF CallOK, DecisionOK, UndecidedOK

LEMMA TypedInit == Init => Typed
<1> SUFFICES ASSUME Init PROVE Typed
  OBVIOUS
<1>1. TablesOK
  BY DEF Init, TablesOK, Levels
<1>2. CallsOK
  BY DEF Init, CallsOK, CallOK, StepNames, ReadingControls, OnItsWay
<1> QED
  BY <1>1, <1>2 DEF Typed

----------------------------------------------------------------------------
(* One step per action                                                      *)

(* The thread that takes a step and the tables it leaves alone.             *)
LEMMA ThreadStep ==
  ASSUME Typed, NEW t \in Threads, NEW step, Goto(t, step),
         (\E known : call' = [call EXCEPT ![t] = known]) \/ UNCHANGED call,
         inbox \subseteq inbox', ledger \subseteq ledger', CallOK(t)', TablesOK'
  PROVE  Typed'
BY OthersOK DEF Typed, CallsOK

LEMMA SameTables ==
  ASSUME TablesOK, UNCHANGED <<controls, tables>>
  PROVE  TablesOK'
BY DEF TablesOK, controls, tables, DecisionOK, RowOK

LEMMA ReturnOK ==
  ASSUME Typed, NEW t \in Threads, Return(t), inbox \subseteq inbox',
         ledger \subseteq ledger', TablesOK'
  PROVE  Typed'
<1>1. call' = [call EXCEPT ![t] = NoCall] /\ Goto(t, "idle")
  BY DEF Return, Continue
<1>2. pc'[t] = "idle" /\ call'[t] = NoCall
  BY <1>1 DEF Typed, CallsOK, Goto
<1>3. CallOK(t)'
  BY <1>2 DEF CallOK, StepNames, ReadingControls, OnItsWay
<1> QED
  BY <1>1, <1>3, ThreadStep

(* Where a thread goes on, and with what.                                   *)
LEMMA GoesOn ==
  ASSUME Typed, NEW t \in Threads, NEW step, NEW known, Continue(t, step, known)
  PROVE  pc'[t] = step /\ call'[t] = known
BY DEF Typed, CallsOK, Continue, Goto

LEMMA StaysInCall ==
  ASSUME Typed, NEW t \in Threads, NEW step, Goto(t, step), UNCHANGED call
  PROVE  pc'[t] = step /\ call'[t] = call[t]
BY DEF Typed, CallsOK, Goto

LEMMA ContinueOK ==
  ASSUME Typed, NEW t \in Threads, NEW step, NEW known, Continue(t, step, known),
         inbox \subseteq inbox', ledger \subseteq ledger', TablesOK', CallOK(t)'
  PROVE  Typed'
BY ThreadStep DEF Continue

(* The policy only adds the reason to a decision.                           *)
LEMMA DecideContinues ==
  ASSUME Typed, NEW t \in Threads, pc[t] \in ReadingControls, NEW reason, Decide(t, reason),
         NEW old, old = call[t].decision
  PROVE  Continue(t, "record",
           [op |-> "evaluate",
            decision |-> Deciding(old.request, old.control_version, reason)])
<1> DEFINE d == Deciding(old.request, old.control_version, reason)
<1>1. /\ call[t] = [op |-> "evaluate", decision |-> old]
      /\ UndecidedOK(old)
  BY DEF Typed, CallsOK, CallOK
<1>2. [old EXCEPT !.reason = reason] = d
  BY <1>1 DEF UndecidedOK, Deciding
<1> HIDE DEF d
<1>3. [call[t] EXCEPT !.decision = [@ EXCEPT !.reason = reason]] =
        [op |-> "evaluate", decision |-> d]
  BY <1>1, <1>2
<1> QED
  BY <1>3 DEF Decide, d

LEMMA TypedEvaluate ==
  ASSUME Typed, NEW t \in Threads, \/ \E r \in Requests : CallEvaluate(t, r)
                                  \/ Evaluate(t)
  PROVE  Typed'
<1> USE DEF StepNames, ReadingControls, OnItsWay
<1>1. ASSUME NEW r \in Requests, CallEvaluate(t, r) PROVE Typed'
  <2> DEFINE known == [op |-> "evaluate", request |-> r]
  <2>1. Continue(t, "ingest", known)
    BY <1>1 DEF CallEvaluate
  <2>2. TablesOK' /\ inbox' = inbox /\ ledger' = ledger
    BY <1>1, SameTables DEF CallEvaluate, Typed, tables
  <2>3. pc'[t] = "ingest" /\ call'[t] = known
    BY <2>1, GoesOn
  <2>4. CallOK(t)'
    BY <2>3 DEF CallOK, NoCall
  <2> HIDE DEF known
  <2> QED
    BY <2>1, <2>2, <2>4, ContinueOK
<1>2. CASE Ingest(t)
  <2> DEFINE r == call[t].request
  <2>1. pc[t] = "ingest" /\ call[t] \in [op : {"evaluate"}, request : Requests]
    BY <1>2 DEF Ingest, Typed, CallsOK, CallOK
  <2>2. inbox \subseteq inbox' /\ inbox' \subseteq Requests /\ ledger' = ledger
    BY <1>2, <2>1 DEF Ingest, Typed, TablesOK
  <2>3. TablesOK'
    BY <1>2, <2>2 DEF Ingest, Typed, TablesOK, DecisionOK, RowOK, controls
  <2>4. CASE Return(t)
    BY <2>2, <2>3, <2>4, ReturnOK
  <2>5. CASE inbox' = inbox \cup {r} /\ Goto(t, "read_switch_version") /\ UNCHANGED call
    <3>1. pc'[t] = "read_switch_version" /\ call'[t] = call[t]
      BY <2>5, StaysInCall
    <3>2. CallOK(t)'
      BY <2>1, <2>5, <3>1 DEF CallOK, NoCall
    <3> QED
      BY <2>2, <2>3, <2>5, <3>2, ThreadStep
  <2> QED
    BY <1>2, <2>4, <2>5 DEF Ingest
<1>3. CASE ReadSwitchVersion(t)
  <2> DEFINE r == call[t].request
             versioned == [op |-> "evaluate", request |-> r, switch |-> killSwitch.version]
  <2>0. PICK d : d = Deciding(r, <<killSwitch.version>>, Screened(r))
    OBVIOUS
  <2> DEFINE decided == [op |-> "evaluate", decision |-> d]
  <2>1. call[t] \in [op : {"evaluate"}, request : inbox]
    BY <1>3 DEF ReadSwitchVersion, Typed, CallsOK, CallOK
  <2>2. TablesOK' /\ UNCHANGED <<controls, tables>>
    BY <1>3, SameTables DEF ReadSwitchVersion, Typed
  <2>3. r \in inbox /\ r \in Requests /\ killSwitch.version \in Nat /\ inbox' = inbox
    BY <2>1, <2>2 DEF Typed, TablesOK, tables
  <2>4. CASE selected_action[r] \in Executable /\ Continue(t, "read_profile_version", versioned)
    <3>1. pc'[t] = "read_profile_version" /\ call'[t] = versioned
      BY <2>4, GoesOn
    <3>2. CallOK(t)'
      BY <2>3, <2>4, <3>1 DEF CallOK, NoCall
    <3> HIDE DEF versioned
    <3> QED
      BY <2>2, <2>4, <3>2, ContinueOK DEF tables
  <2>5. CASE selected_action[r] \notin Executable /\ Continue(t, "record", decided)
    <3>1. pc'[t] = "record" /\ call'[t] = decided
      BY <2>5, GoesOn
    <3>2. /\ Screened(r) \in Reasons
          /\ Disposition(Screened(r)) \notin {"AUTO_EXECUTE", "REQUEST_APPROVAL"}
      BY <2>3, <2>5, ScreenedType
    <3>3. DecisionOK(d)'
      BY <2>0, <2>3, <2>5, <3>2 DEF DecisionOK, Deciding, DispositionOf
    <3>4. CallOK(t)'
      BY <3>1, <3>3 DEF CallOK, NoCall
    <3> HIDE DEF decided
    <3> QED
      BY <2>2, <2>5, <3>4, ContinueOK DEF tables
  <2> QED
    BY <1>3, <2>0, <2>4, <2>5 DEF ReadSwitchVersion
<1>4. CASE ReadProfileVersion(t)
  <2> DEFINE r == call[t].request
             step == IF Screened(r) = "NONE" THEN "read_switch" ELSE "record"
  <2>0. PICK d : d = Deciding(r, <<call[t].switch, profile[selected_action[r]].version>>,
                              Screened(r))
    OBVIOUS
  <2> DEFINE decided == [op |-> "evaluate", decision |-> d]
  <2>1. /\ call[t] \in [op : {"evaluate"}, request : inbox, switch : Nat]
        /\ selected_action[r] \in Executable
    BY <1>4 DEF ReadProfileVersion, Typed, CallsOK, CallOK
  <2>2. TablesOK' /\ UNCHANGED <<controls, tables>>
    BY <1>4, SameTables DEF ReadProfileVersion, Typed
  <2>3. r \in inbox /\ r \in Requests /\ inbox' = inbox
    BY <2>1, <2>2 DEF Typed, TablesOK, tables
  <2>4. Continue(t, step, decided)
    BY <1>4, <2>0 DEF ReadProfileVersion
  <2>5. pc'[t] = step /\ call'[t] = decided
    BY <2>4, GoesOn
  <2>6. Screened(r) # "NONE" => Screened(r) \in Reasons
    BY <2>3, ScreenedType
  <2>7. /\ UndecidedOK(d)'
        /\ step = "record" => DecisionOK(d)'
    BY <2>0, <2>1, <2>3, <2>6 DEF UndecidedOK, DecisionOK, Deciding
  <2>8. CallOK(t)'
    BY <2>5, <2>7 DEF CallOK, NoCall
  <2> HIDE DEF step, decided
  <2> QED
    BY <2>2, <2>4, <2>8, ContinueOK DEF tables
<1>5. ASSUME NEW reason \in Reasons, pc[t] \in ReadingControls, Decide(t, reason),
             UNCHANGED <<controls, tables>>
      PROVE  Typed'
  <2>0. PICK old : old = call[t].decision
    OBVIOUS
  <2> DEFINE d == Deciding(old.request, old.control_version, reason)
             decided == [op |-> "evaluate", decision |-> d]
  <2>1. /\ call[t] = [op |-> "evaluate", decision |-> old]
        /\ UndecidedOK(old)
    BY <1>5, <2>0 DEF Typed, CallsOK, CallOK
  <2>4. Continue(t, "record", decided)
    BY <1>5, <2>0, DecideContinues
  <2>5. pc'[t] = "record" /\ call'[t] = decided
    BY <2>4, GoesOn
  <2>6. TablesOK' /\ inbox' = inbox /\ ledger' = ledger
    BY <1>5, SameTables DEF Typed, tables
  <2>7. DecisionOK(d)'
    BY <2>1, <2>6 DEF UndecidedOK, DecisionOK, Deciding
  <2> HIDE DEF d
  <2>8. CallOK(t)'
    BY <2>5, <2>7 DEF CallOK, NoCall
  <2> HIDE DEF decided
  <2> QED
    BY <2>4, <2>6, <2>8, ContinueOK
<1>6. ASSUME NEW step \in ReadingControls, pc[t] \in ReadingControls, Goto(t, step),
             UNCHANGED <<call, controls, tables>>
      PROVE  Typed'
  <2>1. pc'[t] = step /\ call'[t] = call[t]
    BY <1>6, StaysInCall
  <2>2. TablesOK' /\ inbox' = inbox /\ ledger' = ledger
    BY <1>6, SameTables DEF Typed, tables
  <2>3. CallOK(t)'
    BY <1>6, <2>1, <2>2 DEF Typed, CallsOK, CallOK, NoCall, UndecidedOK
  <2> QED
    BY <1>6, <2>2, <2>3, ThreadStep
<1>7. CASE ReadSwitch(t)
  <2>1. "GLOBAL_ACTION_KILL_SWITCH_ACTIVE" \in Reasons
    BY DEF Reasons
  <2> QED
    BY <1>5, <1>6, <1>7, <2>1 DEF ReadSwitch
<1>8. CASE ReadSwitchAgain(t)
  <2>1. "ACTION_AUTONOMY_NOT_EARNED" \in Reasons
    BY DEF Reasons
  <2> QED
    BY <1>5, <1>6, <1>8, <2>1 DEF ReadSwitchAgain
<1>9. CASE ReadLevel(t)
  <2>1. \E reason \in Reasons : Decide(t, reason)
    BY <1>9 DEF ReadLevel, Reasons, WhenEarned
  <2> QED
    BY <1>5, <1>9, <2>1 DEF ReadLevel
<1>10. CASE Record(t)
  <2> DEFINE d == call[t].decision
  <2>1. DecisionOK(d)
    BY <1>10 DEF Record, Typed, CallsOK, CallOK
  <2>2. /\ ledger' = ledger \cup {d} /\ UNCHANGED <<controls, inbox>>
        /\ approval' = [e \in ledger' |-> IF e \in ledger THEN approval[e] ELSE NoApproval]
        /\ action' = [e \in ledger' |-> IF e \in ledger THEN action[e] ELSE NoAction]
    BY <1>10 DEF Record
  <2> HIDE DEF d
  <2>3. \A e \in ledger' : DecisionOK(e)'
    BY <2>1, <2>2 DEF Typed, TablesOK, DecisionOK
  <2>4. approval' \in [ledger' -> ApprovalRows]
    BY <2>2 DEF Typed, TablesOK, ApprovalRows, NoApproval, ApprovalStatuses
  <2>5. \A e \in ledger' : RowOK(e)'
    <3> TAKE e \in ledger'
    <3>1. CASE e \in ledger
      BY <2>2, <3>1 DEF Typed, TablesOK, RowOK
    <3>2. CASE e \notin ledger
      BY <2>2, <3>2 DEF RowOK, NoApproval
    <3> QED
      BY <3>1, <3>2
  <2>6. TablesOK'
    BY <2>2, <2>3, <2>4, <2>5 DEF Typed, TablesOK, controls
  <2> QED
    BY <1>10, <2>2, <2>6, ReturnOK DEF Record
<1> QED
  BY <1>1, <1>2, <1>3, <1>4, <1>7, <1>8, <1>9, <1>10 DEF Evaluate

LEMMA ReturnUnchanged ==
  ASSUME Typed, NEW t \in Threads, Return(t), UNCHANGED <<controls, tables>>
  PROVE  Typed'
BY SameTables, ReturnOK DEF Typed, tables

(* Only the rows of the approvals change.                                   *)
LEMMA ApprovalTables ==
  ASSUME Typed, NEW d \in ledger, NEW row \in ApprovalRows,
         approval' = [approval EXCEPT ![d] = row],
         row.status # "NONE" =>
           row.requested_by \in Actors /\ DispositionOf(d) = "REQUEST_APPROVAL",
         UNCHANGED <<controls, inbox, ledger, action>>
  PROVE  TablesOK'
<1>1. approval' \in [ledger -> ApprovalRows]
  BY DEF Typed, TablesOK
<1>2. \A e \in ledger : RowOK(e)'
  BY DEF Typed, TablesOK, RowOK
<1>3. \A e \in ledger : DecisionOK(e)'
  BY DEF Typed, TablesOK, DecisionOK
<1> QED
  BY <1>1, <1>2, <1>3 DEF Typed, TablesOK, controls

LEMMA TypedSubmit ==
  ASSUME Typed, NEW t \in Threads,
         \/ \E d \in ledger, actor \in Actors : CallSubmit(t, d, actor)
         \/ ReadRequest(t) \/ RequestApproval(t)
  PROVE  Typed'
<1> USE DEF StepNames, ReadingControls, OnItsWay
<1>1. ASSUME NEW d \in ledger, NEW actor \in Actors, CallSubmit(t, d, actor) PROVE Typed'
  <2> DEFINE step == IF DispositionOf(d) = "AUTO_EXECUTE" THEN "read_request"
                     ELSE "request_approval"
             known == [op |-> "submit", decision |-> d, requested_by |-> actor]
  <2>1. Continue(t, step, known) /\ DispositionOf(d) \in {"AUTO_EXECUTE", "REQUEST_APPROVAL"}
    BY <1>1 DEF CallSubmit
  <2>2. TablesOK' /\ inbox' = inbox /\ ledger' = ledger
    BY <1>1, SameTables DEF CallSubmit, Typed, tables
  <2>3. pc'[t] = step /\ call'[t] = known
    BY <2>1, GoesOn
  <2>4. CallOK(t)'
    BY <2>1, <2>2, <2>3 DEF CallOK, NoCall, DispositionOf
  <2> HIDE DEF step, known
  <2> QED
    BY <2>1, <2>2, <2>4, ContinueOK
<1>2. CASE ReadRequest(t)
  <2>1. /\ call[t] \in [op : {"submit"}, decision : ledger, requested_by : Actors]
        /\ DispositionOf(call[t].decision) = "AUTO_EXECUTE"
    BY <1>2 DEF ReadRequest, Typed, CallsOK, CallOK
  <2>2. PICK d \in ledger : d = call[t].decision
    BY <2>1
  <2>3. PICK r \in inbox :
          Continue(t, "kill_switch", Executing(d, Command(d, r, call[t].requested_by, Nobody)))
    BY <1>2, <2>2 DEF ReadRequest
  <2>4. TablesOK' /\ inbox' = inbox /\ ledger' = ledger
    BY <1>2, SameTables DEF ReadRequest, Typed, tables
  <2>5. PICK command : command = Command(d, r, call[t].requested_by, Nobody)
    OBVIOUS
  <2>6. command \in Commands /\ command.action = selected_action[d.request]
    BY <2>1, <2>2, <2>5 DEF Typed, TablesOK, DecisionOK, Command, Commands
  <2>7. pc'[t] = "kill_switch" /\ call'[t] = Executing(d, command)
    BY <2>3, <2>5, GoesOn
  <2>8. CallOK(t)'
    BY <2>4, <2>6, <2>7 DEF CallOK, NoCall, Executing
  <2> QED
    BY <2>3, <2>4, <2>8, ContinueOK
<1>3. CASE RequestApproval(t)
  <2>1. /\ call[t] \in [op : {"submit"}, decision : ledger, requested_by : Actors]
        /\ DispositionOf(call[t].decision) = "REQUEST_APPROVAL"
    BY <1>3 DEF RequestApproval, Typed, CallsOK, CallOK
  <2>2. PICK d \in ledger : d = call[t].decision
    BY <2>1
  <2>3. PICK row : row = [approval[d] EXCEPT !.status = "PENDING",
                                             !.requested_by = call[t].requested_by]
    OBVIOUS
  <2>4. approval[d] \in ApprovalRows
    BY DEF Typed, TablesOK
  <2>5. row \in ApprovalRows /\ row.requested_by \in Actors
    BY <2>1, <2>3, <2>4 DEF ApprovalRows, ApprovalStatuses
  <2>6. UNCHANGED approval \/ approval' = [approval EXCEPT ![d] = row]
    BY <1>3, <2>2, <2>3 DEF RequestApproval
  <2>7. UNCHANGED <<controls, inbox, ledger, action>> /\ Return(t)
    BY <1>3 DEF RequestApproval
  <2>8. CASE UNCHANGED approval
    BY <2>7, <2>8, ReturnUnchanged DEF tables
  <2>9. CASE approval' = [approval EXCEPT ![d] = row]
    <3>1. TablesOK'
      BY <2>1, <2>2, <2>5, <2>7, <2>9, ApprovalTables
    <3> QED
      BY <2>7, <3>1, ReturnOK
  <2> QED
    BY <2>6, <2>8, <2>9
<1> QED
  BY <1>1, <1>2, <1>3

LEMMA TypedDecide ==
  ASSUME Typed, NEW t \in Threads,
         \/ \E d \in ledger, actor \in Actors, role \in Roles : CallDecide(t, d, actor, role)
         \/ CheckAuthority(t) \/ Approve(t) \/ Reject(t)
  PROVE  Typed'
<1> USE DEF StepNames, ReadingControls, OnItsWay
<1>1. ASSUME NEW d \in ledger, NEW actor \in Actors, NEW role \in Roles,
             CallDecide(t, d, actor, role)
      PROVE  Typed'
  <2>1. PICK known \in [op : {"approve", "reject"}, decision : ledger,
                        actor : Actors, role : Deciders],
             step \in {"check_authority", "reject"} : Continue(t, step, known)
    BY <1>1 DEF CallDecide, CallApprove, CallReject, MayDecide, Deciders
  <2>2. TablesOK' /\ inbox' = inbox /\ ledger' = ledger
    BY <1>1, SameTables DEF CallDecide, CallApprove, CallReject, Typed, tables
  <2>3. pc'[t] = step /\ call'[t] = known
    BY <2>1, GoesOn
  <2>4. CallOK(t)'
    BY <2>2, <2>3 DEF CallOK, NoCall
  <2> QED
    BY <2>1, <2>2, <2>4, ContinueOK
<1>2. CASE CheckAuthority(t)
  <2>1. call[t] \in [op : {"approve", "reject"}, decision : ledger,
                     actor : Actors, role : Deciders]
    BY <1>2 DEF CheckAuthority, Typed, CallsOK, CallOK
  <2>2. PICK d \in ledger : d = call[t].decision
    BY <2>1
  <2>3. CASE Return(t)
    BY <1>2, <2>3, ReturnUnchanged DEF CheckAuthority
  <2>4. ASSUME NEW r \in inbox, HasAuthority(call[t].role, d, r),
               Continue(t, "approve",
                 [op |-> "approve", decision |-> d, request |-> r,
                  actor |-> call[t].actor, role |-> call[t].role])
        PROVE  Typed'
    <3>1. PICK known : known = [op |-> "approve", decision |-> d, request |-> r,
                                actor |-> call[t].actor, role |-> call[t].role]
      OBVIOUS
    <3>2. TablesOK' /\ inbox' = inbox /\ ledger' = ledger
      BY <1>2, SameTables DEF CheckAuthority, Typed, tables
    <3>3. pc'[t] = "approve" /\ call'[t] = known
      BY <2>4, <3>1, GoesOn
    <3>4. /\ known \in [op : {"approve"}, decision : ledger, request : Requests,
                        actor : Actors, role : Deciders]
          /\ HasAuthority(known.role, known.decision, known.request)
      BY <2>1, <2>4, <3>1 DEF Typed, TablesOK
    <3>5. CallOK(t)'
      BY <3>2, <3>3, <3>4 DEF CallOK, NoCall, HasAuthority
    <3> QED
      BY <2>4, <3>2, <3>5, ContinueOK
  <2> QED
    BY <1>2, <2>2, <2>3, <2>4 DEF CheckAuthority
<1>3. ASSUME NEW d \in ledger, d = call[t].decision, Decidable(t),
             NEW status \in ApprovalStatuses, UNCHANGED <<controls, inbox, ledger, action>>,
             call[t].actor \in Actors, call[t].role \in Deciders,
             \/ DecideApproval(t, status)
             \/ approval' = [approval EXCEPT ![call[t].decision].status = "EXPIRED"]
      PROVE  TablesOK' /\ approval[d].requested_by \in Actors
                      /\ DispositionOf(d) = "REQUEST_APPROVAL"
  <2>1. /\ approval[d] \in ApprovalRows
        /\ approval[d].requested_by \in Actors
        /\ DispositionOf(d) = "REQUEST_APPROVAL"
    BY <1>3 DEF Typed, TablesOK, RowOK, Decidable
  <2>2. PICK row \in ApprovalRows : /\ row.requested_by = approval[d].requested_by
                                    /\ approval' = [approval EXCEPT ![d] = row]
    <3>1. CASE DecideApproval(t, status)
      <4>1. [approval[d] EXCEPT !.status = status, !.decided_by = call[t].actor,
                                !.decided_by_role = call[t].role] \in ApprovalRows
        BY <1>3, <2>1 DEF ApprovalRows, Roles, Deciders
      <4> QED
        BY <1>3, <2>1, <3>1, <4>1 DEF DecideApproval, ApprovalRows
    <3>2. CASE approval' = [approval EXCEPT ![call[t].decision].status = "EXPIRED"]
      <4>1. [approval[d] EXCEPT !.status = "EXPIRED"] \in ApprovalRows
        BY <2>1 DEF ApprovalRows, ApprovalStatuses
      <4> QED
        BY <1>3, <2>1, <3>2, <4>1 DEF ApprovalRows
    <3> QED
      BY <1>3, <3>1, <3>2
  <2> QED
    BY <1>3, <2>1, <2>2, ApprovalTables
<1>4. ASSUME pc[t] \in {"approve", "reject"},
             \/ Return(t) /\ UNCHANGED approval
             \/ ExpireApproval(t)
             \/ Decidable(t) /\ DecideApproval(t, "REJECTED") /\ Return(t),
             UNCHANGED <<controls, inbox, ledger, action>>
      PROVE  Typed'
  <2>1. call[t].decision \in ledger /\ call[t].actor \in Actors /\ call[t].role \in Deciders
    BY <1>4 DEF Typed, CallsOK, CallOK
  <2>2. CASE Return(t) /\ UNCHANGED approval
    BY <1>4, <2>2, ReturnUnchanged DEF tables
  <2>3. CASE ~ (Return(t) /\ UNCHANGED approval)
    <3>1. TablesOK'
      BY <1>3, <1>4, <2>1, <2>3 DEF ExpireApproval, ApprovalStatuses
    <3> QED
      BY <1>4, <2>3, <3>1, ReturnOK DEF ExpireApproval
  <2> QED
    BY <2>2, <2>3
<1>5. CASE Reject(t)
  BY <1>4, <1>5 DEF Reject
<1>6. CASE Approve(t)
  <2>1. CASE (Return(t) /\ UNCHANGED approval) \/ ExpireApproval(t)
    BY <1>4, <1>6, <2>1 DEF Approve
  <2>2. CASE /\ Decidable(t)
             /\ DecideApproval(t, "APPROVED")
             /\ Continue(t, "kill_switch",
                  Executing(call[t].decision,
                    Command(call[t].decision, call[t].request,
                            approval[call[t].decision].requested_by, call[t].actor)))
    <3>1. call[t] \in [op : {"approve"}, decision : ledger, request : Requests,
                       actor : Actors, role : Deciders]
      BY <1>6 DEF Approve, Typed, CallsOK, CallOK
    <3>2. PICK d \in ledger : d = call[t].decision
      BY <3>1
    <3>3. UNCHANGED <<controls, inbox, ledger, action>>
      BY <1>6 DEF Approve
    <3>4. /\ TablesOK'
          /\ approval[d].requested_by \in Actors
          /\ DispositionOf(d) = "REQUEST_APPROVAL"
      BY <1>3, <2>2, <3>1, <3>2, <3>3 DEF ApprovalStatuses
    <3>5. PICK command : command = Command(d, call[t].request, approval[d].requested_by,
                                           call[t].actor)
      OBVIOUS
    <3>6. command \in Commands /\ command.action = selected_action[d.request]
      BY <3>1, <3>4, <3>5 DEF Typed, TablesOK, DecisionOK, Command, Commands
    <3>7. Continue(t, "kill_switch", Executing(d, command))
      BY <2>2, <3>2, <3>5
    <3>8. pc'[t] = "kill_switch" /\ call'[t] = Executing(d, command)
      BY <3>7, GoesOn
    <3>9. CallOK(t)'
      BY <3>3, <3>6, <3>8 DEF CallOK, NoCall, Executing
    <3> QED
      BY <3>3, <3>4, <3>7, <3>9, ContinueOK
  <2> QED
    BY <1>6, <2>1, <2>2 DEF Approve
<1> QED
  BY <1>1, <1>2, <1>5, <1>6

LEMMA TypedExecute ==
  ASSUME Typed, NEW t \in Threads, Execute(t) PROVE Typed'
<1> USE DEF StepNames, ReadingControls, OnItsWay
<1>1. ASSUME NEW step \in OnItsWay, pc[t] \in OnItsWay, Goto(t, step), UNCHANGED call,
             UNCHANGED <<inbox, ledger>>, TablesOK'
      PROVE  Typed'
  <2>1. pc'[t] = step /\ call'[t] = call[t]
    BY <1>1, StaysInCall
  <2>2. CallOK(t)'
    BY <1>1, <2>1 DEF Typed, CallsOK, CallOK, NoCall
  <2> QED
    BY <1>1, <2>2, ThreadStep
<1>2. CASE CheckKillSwitch(t)
  <2>1. TablesOK' /\ UNCHANGED <<inbox, ledger>>
    BY <1>2, SameTables DEF CheckKillSwitch, Typed, tables
  <2> QED
    BY <1>1, <1>2, <2>1, ReturnUnchanged DEF CheckKillSwitch
<1>3. CASE Claim(t)
  <2>1. /\ call[t] \in [op : {"execute"}, decision : ledger, command : Commands]
        /\ call[t].command.action = selected_action[call[t].decision.request]
    BY <1>3 DEF Claim, Typed, CallsOK, CallOK
  <2>2. CASE UNCHANGED action /\ Return(t)
    BY <1>3, <2>2, ReturnUnchanged DEF Claim, tables
  <2>3. CASE /\ action' = [action EXCEPT ![call[t].decision] = call[t].command]
             /\ Goto(t, "complete") /\ UNCHANGED call
    <3>1. UNCHANGED <<controls, inbox, ledger, approval>>
      BY <1>3 DEF Claim
    <3>2. \A e \in ledger : RowOK(e)'
      BY <2>1, <2>3, <3>1 DEF Typed, TablesOK, RowOK
    <3>3. \A e \in ledger : DecisionOK(e)'
      BY <3>1 DEF Typed, TablesOK, DecisionOK
    <3>4. TablesOK'
      BY <2>3, <3>1, <3>2, <3>3 DEF Typed, TablesOK, controls
    <3> QED
      BY <1>1, <1>3, <2>3, <3>1, <3>4 DEF Claim
  <2> QED
    BY <1>3, <2>2, <2>3 DEF Claim
<1>4. CASE Complete(t)
  <2>1. /\ call[t] \in [op : {"execute"}, decision : ledger, command : Commands]
        /\ call[t].command.action = selected_action[call[t].decision.request]
    BY <1>4 DEF Complete, Typed, CallsOK, CallOK
  <2>2. PICK a \in Executable : a = selected_action[call[t].decision.request]
    BY <2>1 DEF Commands
  <2>3. /\ AfterFailure(profile[a]) \in [level : Levels, version : Nat]
        /\ profile \in [Executable -> [level : Levels, version : Nat]]
    BY DEF Typed, TablesOK, AfterFailure, Levels
  <2>4. profile' \in [Executable -> [level : Levels, version : Nat]]
    BY <1>4, <2>2, <2>3 DEF Complete
  <2>5. UNCHANGED <<killSwitch, tables>>
    BY <1>4 DEF Complete
  <2>6. TablesOK'
    BY <2>4, <2>5 DEF Typed, TablesOK, tables, DecisionOK, RowOK
  <2> QED
    BY <1>4, <2>5, <2>6, ReturnOK DEF Complete, tables
<1> QED
  BY <1>2, <1>3, <1>4 DEF Execute

LEMMA TypedManagers ==
  ASSUME Typed, \/ \E active \in BOOLEAN : SetKillSwitch(active)
                \/ \E a \in InUse, level \in Levels : SetProfile(a, level)
  PROVE  Typed'
<1>1. ASSUME NEW active \in BOOLEAN, SetKillSwitch(active) PROVE Typed'
  <2>1. TablesOK'
    BY <1>1 DEF SetKillSwitch, Typed, TablesOK, tables, DecisionOK, RowOK
  <2> QED
    BY <1>1, <2>1 DEF SetKillSwitch, Typed, CallsOK, tables, CallOK, DecisionOK, UndecidedOK
<1>2. ASSUME NEW a \in InUse, NEW level \in Levels, SetProfile(a, level) PROVE Typed'
  <2>1. a \in Executable /\ [level |-> level, version |-> profile[a].version + 1] \in
                              [level : Levels, version : Nat]
    BY <1>2 DEF InUse, Typed, TablesOK
  <2>2. profile' \in [Executable -> [level : Levels, version : Nat]]
    BY <1>2, <2>1 DEF SetProfile, Typed, TablesOK
  <2>3. TablesOK'
    BY <1>2, <2>2 DEF SetProfile, Typed, TablesOK, tables, DecisionOK, RowOK
  <2> QED
    BY <1>2, <2>3 DEF SetProfile, Typed, CallsOK, tables, CallOK, DecisionOK, UndecidedOK
<1> QED
  BY <1>1, <1>2

LEMMA TypedStep == Typed /\ [Next]_vars => Typed'
<1> SUFFICES ASSUME Typed, [Next]_vars PROVE Typed'
  OBVIOUS
<1>1. CASE UNCHANGED vars
  BY <1>1 DEF vars, Typed, TablesOK, CallsOK, CallOK, DecisionOK, UndecidedOK, RowOK
<1>2. CASE Next
  BY <1>2, TypedEvaluate, TypedSubmit, TypedDecide, TypedExecute, TypedManagers
     DEF Next, Step
<1> QED
  BY <1>1, <1>2

LEMMA TypedInvariant == Spec => []Typed
  BY TypedInit, TypedStep, PTL DEF Spec

(* Every reachable state of the workflow is well typed.                     *)
THEOREM TypeCorrect == Spec => []TypeOK
  BY TypedInvariant, TypedType, PTL

----------------------------------------------------------------------------
(* What is executed is worth it                                             *)

LEMMA TypedWorth == Typed => WorthExecuting
<1> SUFFICES ASSUME Typed, NEW d \in ledger, action[d] # NoAction
             PROVE  LET worth == Worth[d.request] IN
                    /\ action[d].action \in DOMAIN worth
                    /\ worth[action[d].action] > worth["TAKE_NO_ACTION"]
                    /\ \A a \in DOMAIN worth : worth[a] <= worth[action[d].action]
  BY DEF WorthExecuting
<1> DEFINE o == Payload[d.request].order
           a == action[d].action
<1>1. /\ a = selected_action[d.request] /\ a \in Executable
      /\ d.request \in Requests
  BY DEF Typed, TablesOK, RowOK, DecisionOK, Commands
<1>2. o \in OrderContexts
  BY <1>1, PayloadAssumption
<1>3. a = Selection(o) /\ a # "TAKE_NO_ACTION"
  BY <1>1 DEF selected_action, Executable
<1>4. Worth[d.request] = [b \in Feasible(o) |-> expected_net_value(o, b)]
  BY <1>1 DEF Worth, Values
<1>5. a \in Feasible(o) /\ "TAKE_NO_ACTION" \in Feasible(o)
      /\ \A b \in Feasible(o) : expected_net_value(o, b) \in Int
  BY <1>2, <1>3, SelectionOutranks, FeasibleActions, NetValueType
<1>6. /\ \A b \in Feasible(o) : expected_net_value(o, b) <= expected_net_value(o, a)
      /\ expected_net_value(o, "TAKE_NO_ACTION") < expected_net_value(o, a)
  BY <1>2, <1>3, SelectionWorth
<1> HIDE DEF o, a
<1> QED
  BY <1>4, <1>5, <1>6 DEF a

(* What is executed was worth more than leaving the order alone, and no     *)
(* feasible option was worth more (DecisionOptimizer.select, the policy,    *)
(* submit).                                                                 *)
THEOREM WorthExecutingHolds == Spec => []WorthExecuting
  BY TypedInvariant, TypedWorth, PTL

----------------------------------------------------------------------------
(* Authority                                                                *)

(* What ExecutedWithAuthority says of a command in the action table, said   *)
(* of one on its way to it.                                                 *)
Authorised(d, command) ==
  IF command.approved_by = Nobody
  THEN DispositionOf(d) = "AUTO_EXECUTE"
  ELSE /\ DispositionOf(d) = "REQUEST_APPROVAL"
       /\ approval[d].status = "APPROVED"
       /\ approval[d].decided_by = command.approved_by
       /\ command.requested_by \in Actors \ {approval[d].decided_by}
       /\ \/ approval[d].decided_by_role = "OPERATIONS_MANAGER"
          \/ /\ ~ Payload[command.request].order.restricted_product
             /\ Delegated(Payload[d.request].order, command.action)

Claiming == {"kill_switch", "claim"}

AuthorityInv ==
  /\ \A t \in Threads : pc[t] \in Claiming =>
       Authorised(call[t].decision, call[t].command)
  /\ \A d \in ledger : action[d] # NoAction => Authorised(d, action[d])

LEMMA AuthorityInit == Init => AuthorityInv
BY DEF Init, AuthorityInv, Claiming

LEMMA AuthorityImplies == AuthorityInv => ExecutedWithAuthority
BY DEF AuthorityInv, Authorised, ExecutedWithAuthority, Autonomous

(* An approval that is given stays as it is.                                *)
LEMMA GivenApprovalStays ==
  ASSUME Typed, [Next]_vars, NEW d \in ledger, approval[d].status = "APPROVED"
  PROVE  d \in ledger' /\ approval'[d] = approval[d]
<1>1. CASE ledger' = ledger /\ UNCHANGED approval
  BY <1>1
<1>2. ASSUME NEW t \in Threads, Record(t) PROVE d \in ledger' /\ approval'[d] = approval[d]
  BY <1>2 DEF Record
<1>3. ASSUME NEW t \in Threads, RequestApproval(t)
      PROVE  d \in ledger' /\ approval'[d] = approval[d]
  <2>1. call[t].decision \in ledger
    BY <1>3 DEF RequestApproval, Typed, CallsOK, CallOK
  <2>2. approval[call[t].decision] = NoApproval => d # call[t].decision
    BY DEF NoApproval
  <2> QED
    BY <1>3, <2>1, <2>2 DEF RequestApproval, Typed, TablesOK
<1>4. ASSUME NEW t \in Threads, Approve(t) \/ Reject(t)
      PROVE  d \in ledger' /\ approval'[d] = approval[d]
  <2>1. call[t].decision \in ledger
    BY <1>4 DEF Approve, Reject, Typed, CallsOK, CallOK
  <2>2. UNCHANGED approval \/ Decidable(t)
    BY <1>4 DEF Approve, Reject, ExpireApproval
  <2>3. CASE d = call[t].decision
    BY <1>4, <2>2, <2>3 DEF Decidable, Approve, Reject
  <2>4. CASE d # call[t].decision
    BY <1>4, <2>1, <2>4
       DEF Typed, TablesOK, Approve, Reject, DecideApproval, ExpireApproval
  <2> QED
    BY <1>4, <2>3, <2>4
<1> QED
  BY <1>1, <1>2, <1>3, <1>4
     DEF Next, Step, Evaluate, Execute, CallEvaluate, CallSubmit, CallDecide, CallApprove,
         CallReject, Ingest, ReadSwitchVersion, ReadProfileVersion, ReadSwitch,
         ReadSwitchAgain, ReadLevel, ReadRequest, CheckAuthority, CheckKillSwitch, Claim,
         Complete, SetKillSwitch, SetProfile, tables, vars

LEMMA AuthorisedStays ==
  ASSUME Typed, [Next]_vars, NEW d \in ledger, NEW command, Authorised(d, command)
  PROVE  Authorised(d, command)'
BY GivenApprovalStays DEF Authorised

(* A step moves one thread, or none.                                        *)
Moves(t) ==
  \/ \E r \in Requests : CallEvaluate(t, r)
  \/ \E d \in ledger, actor \in Actors :
       CallSubmit(t, d, actor) \/ \E role \in Roles : CallDecide(t, d, actor, role)
  \/ Step(t)

LEMMA StepMoves ==
  ASSUME [Next]_vars
  PROVE  \/ \E t \in Threads : Moves(t)
         \/ UNCHANGED <<tables, pc, call>>
BY DEF Next, Moves, SetKillSwitch, SetProfile, vars, tables

LEMMA OthersStay ==
  ASSUME Typed, NEW t \in Threads, Moves(t), NEW u \in Threads \ {t}
  PROVE  pc'[u] = pc[u] /\ call'[u] = call[u]
<1>1. (\E step, known : Continue(t, step, known))
        \/ (\E step : Goto(t, step) /\ UNCHANGED call)
  BY DEF Moves, CallEvaluate, CallSubmit, CallDecide, CallApprove, CallReject, Step, Evaluate,
         Execute, Ingest, ReadSwitchVersion, ReadProfileVersion, ReadSwitch, ReadSwitchAgain,
         ReadLevel, Decide, Record, ReadRequest, RequestApproval, CheckAuthority, Approve,
         ExpireApproval, Reject, CheckKillSwitch, Claim, Complete, Return
<1> QED
  BY <1>1 DEF Continue, Goto, Typed, CallsOK

(* A command is made by ReadRequest and Approve, and carried from the check *)
(* of the kill switch to the claim.                                         *)
LEMMA CommandMade ==
  ASSUME Typed, [Next]_vars, NEW u \in Threads, pc'[u] \in Claiming
  PROVE  \/ pc[u] \in Claiming /\ call'[u] = call[u]
         \/ ReadRequest(u)
         \/ Approve(u)
<1>1. CASE UNCHANGED <<tables, pc, call>>
  BY <1>1
<1>2. ASSUME NEW t \in Threads, Moves(t), t # u
      PROVE  pc[u] \in Claiming /\ call'[u] = call[u]
  BY <1>2, OthersStay
<1>3. CASE Moves(u)
  <2>1. CASE CheckKillSwitch(u)
    BY <2>1 DEF CheckKillSwitch, Claiming, Return, Continue, Goto, Typed, CallsOK
  <2>2. ASSUME NEW step, NEW known, Continue(u, step, known) PROVE pc'[u] = step
    BY <2>2, GoesOn
  <2>3. ASSUME NEW step, Goto(u, step), UNCHANGED call PROVE pc'[u] = step
    BY <2>3, StaysInCall
  <2>4. ASSUME Evaluate(u) PROVE FALSE
    BY <2>2, <2>3, <2>4
       DEF Claiming, Evaluate, Ingest, ReadSwitchVersion, ReadProfileVersion, ReadSwitch,
           ReadSwitchAgain, ReadLevel, Decide, Record, Return
  <2>5. ASSUME RequestApproval(u) \/ CheckAuthority(u) \/ Reject(u) PROVE FALSE
    BY <2>2, <2>5 DEF Claiming, RequestApproval, CheckAuthority, Reject, ExpireApproval, Return
  <2>6. ASSUME Claim(u) \/ Complete(u) PROVE FALSE
    BY <2>2, <2>3, <2>6 DEF Claiming, Claim, Complete, Return
  <2>7. CASE Step(u)
    BY <2>1, <2>4, <2>5, <2>6, <2>7 DEF Step, Execute
  <2>8. ASSUME NEW r, CallEvaluate(u, r) PROVE FALSE
    BY <2>2, <2>8 DEF Claiming, CallEvaluate
  <2>9. ASSUME NEW d, NEW actor, CallSubmit(u, d, actor) PROVE FALSE
    BY <2>2, <2>9 DEF Claiming, CallSubmit
  <2>10. ASSUME NEW d, NEW actor, NEW role, CallDecide(u, d, actor, role) PROVE FALSE
    BY <2>2, <2>10 DEF Claiming, CallDecide, CallApprove, CallReject
  <2> QED
    BY <1>3, <2>7, <2>8, <2>9, <2>10 DEF Moves
<1> QED
  BY <1>1, <1>2, <1>3, StepMoves

LEMMA CommandAuthorised ==
  ASSUME Typed, NEW t \in Threads, pc'[t] \in Claiming, ReadRequest(t) \/ Approve(t)
  PROVE  Authorised(call[t].decision, call[t].command)'
<1>1. CASE ReadRequest(t)
  <2>1. /\ call[t].decision \in ledger
        /\ DispositionOf(call[t].decision) = "AUTO_EXECUTE"
    BY <1>1 DEF ReadRequest, Typed, CallsOK, CallOK
  <2>2. PICK d \in ledger : d = call[t].decision
    BY <2>1
  <2>3. PICK r \in inbox :
          Continue(t, "kill_switch", Executing(d, Command(d, r, call[t].requested_by, Nobody)))
    BY <1>1, <2>2 DEF ReadRequest
  <2>4. /\ call'[t].decision = d
        /\ call'[t].command.approved_by = Nobody
    BY <2>3, GoesOn DEF Executing, Command
  <2> QED
    BY <2>1, <2>2, <2>4 DEF Authorised, DispositionOf
<1>2. CASE Approve(t)
  <2>1. /\ call[t] \in [op : {"approve"}, decision : ledger, request : Requests,
                        actor : Actors, role : Deciders]
        /\ HasAuthority(call[t].role, call[t].decision, call[t].request)
    BY <1>2 DEF Approve, Typed, CallsOK, CallOK
  <2>2. PICK d \in ledger, r \in Requests, actor \in Actors, role \in Deciders :
          d = call[t].decision /\ r = call[t].request /\ actor = call[t].actor
            /\ role = call[t].role
    BY <2>1
  <2>3. actor \in Actors /\ role \in Deciders /\ HasAuthority(role, d, r)
    BY <2>1, <2>2
  <2>4. ASSUME Return(t) PROVE FALSE
    <3>1. pc'[t] = "idle"
      BY <2>4, GoesOn DEF Return
    <3> QED
      BY <3>1 DEF Claiming
  <2>5. /\ Decidable(t)
        /\ DecideApproval(t, "APPROVED")
        /\ Continue(t, "kill_switch",
             Executing(d, Command(d, r, approval[d].requested_by, actor)))
    BY <1>2, <2>2, <2>4 DEF Approve, ExpireApproval
  <2>6. /\ approval[d].status = "PENDING" /\ approval[d].requested_by # actor
        /\ approval[d] \in ApprovalRows /\ approval[d].requested_by \in Actors
        /\ DispositionOf(d) = "REQUEST_APPROVAL"
    BY <2>2, <2>5 DEF Decidable, Typed, TablesOK, RowOK
  <2>7. /\ approval'[d].status = "APPROVED"
        /\ approval'[d].decided_by = actor
        /\ approval'[d].decided_by_role = role
    BY <2>2, <2>5, <2>6 DEF DecideApproval, Typed, TablesOK, ApprovalRows
  <2>8. /\ call'[t].decision = d
        /\ call'[t].command = Command(d, r, approval[d].requested_by, actor)
    BY <2>5, GoesOn DEF Executing
  <2>9. actor # Nobody
    BY <2>3, ActorAssumption
  <2>10. \/ role = "OPERATIONS_MANAGER"
         \/ /\ ~ Payload[r].order.restricted_product
            /\ Delegated(Payload[d.request].order, selected_action[d.request])
    BY <2>3 DEF HasAuthority, DelegatedTo, Deciders
  <2> QED
    BY <2>3, <2>6, <2>7, <2>8, <2>9, <2>10 DEF Authorised, Command, DispositionOf
<1> QED
  BY <1>1, <1>2

LEMMA AuthorityStep == Typed /\ AuthorityInv /\ [Next]_vars => AuthorityInv'
<1> SUFFICES ASSUME Typed, AuthorityInv, [Next]_vars PROVE AuthorityInv'
  OBVIOUS
<1>0. Typed'
  BY TypedStep
<1>1. ASSUME NEW t \in Threads, pc'[t] \in Claiming
      PROVE  Authorised(call[t].decision, call[t].command)'
  <2>1. CASE pc[t] \in Claiming /\ call'[t] = call[t]
    <3>1. PICK d \in ledger, command \in Commands : d = call[t].decision /\ command = call[t].command
      BY <2>1 DEF Typed, CallsOK, CallOK, Claiming, OnItsWay
    <3>2. Authorised(d, command)'
      BY <2>1, <3>1, AuthorisedStays DEF AuthorityInv
    <3> QED
      BY <2>1, <3>1, <3>2
  <2> QED
    BY <1>1, <2>1, CommandMade, CommandAuthorised
<1>2. ASSUME NEW d \in ledger', action'[d] # NoAction PROVE Authorised(d, action[d])'
  <2>1. CASE d \in ledger /\ action'[d] = action[d]
    <3>1. PICK command : command = action[d]
      OBVIOUS
    <3>2. Authorised(d, command)'
      BY <1>2, <2>1, <3>1, AuthorisedStays DEF AuthorityInv
    <3> QED
      BY <2>1, <3>1, <3>2
  <2>2. ASSUME NEW t \in Threads, Claim(t), d = call[t].decision,
               action' = [action EXCEPT ![d] = call[t].command]
        PROVE  Authorised(d, action[d])'
    <3>1. d \in ledger /\ pc[t] \in Claiming
      BY <2>2 DEF Claim, Claiming, Typed, CallsOK, CallOK, OnItsWay
    <3>2. PICK command : command = call[t].command
      OBVIOUS
    <3>3. Authorised(d, command)'
      BY <2>2, <3>1, <3>2, AuthorisedStays DEF AuthorityInv
    <3> QED
      BY <2>2, <3>1, <3>2, <3>3 DEF Typed, TablesOK
  <2>3. ASSUME NEW t \in Threads, Claim(t) PROVE Authorised(d, action[d])'
    <3>1. call[t].decision \in ledger /\ ledger' = ledger
      BY <2>3 DEF Claim, Typed, CallsOK, CallOK, OnItsWay
    <3>2. CASE UNCHANGED action \/ d # call[t].decision
      BY <2>1, <2>3, <3>1, <3>2 DEF Claim, Typed, TablesOK
    <3> QED
      BY <2>2, <2>3, <3>2 DEF Claim
  <2>4. ASSUME NEW t \in Threads, Record(t) PROVE d \in ledger /\ action'[d] = action[d]
    BY <1>2, <2>4 DEF Record
  <2>5. CASE UNCHANGED <<ledger, action>>
    BY <2>1, <2>5
  <2> QED
    BY <2>1, <2>3, <2>4, <2>5
       DEF Next, Step, Evaluate, Execute, CallEvaluate, CallSubmit, CallDecide, CallApprove,
           CallReject, Ingest, ReadSwitchVersion, ReadProfileVersion, ReadSwitch,
           ReadSwitchAgain, ReadLevel, ReadRequest, RequestApproval, CheckAuthority, Approve,
           Reject, CheckKillSwitch, Complete, SetKillSwitch, SetProfile, tables, vars
<1> QED
  BY <1>1, <1>2 DEF AuthorityInv

LEMMA AuthorityInvariant == Spec => []AuthorityInv
  BY TypedInvariant, AuthorityInit, AuthorityStep, PTL DEF Spec

(* Nothing is executed without authority, whatever arrived or was decided   *)
(* between the check and the claim (submit, approve_and_execute).           *)
THEOREM AuthorityHolds == Spec => []ExecutedWithAuthority
  BY AuthorityInvariant, AuthorityImplies, PTL

----------------------------------------------------------------------------
(* An approval is used                                                      *)

ActiveIsLater ==
  killSwitch.version >= 1 /\ (killSwitch.active => killSwitch.version > 1)

UsedInv == ApprovalIsUsed /\ ActiveIsLater

LEMMA UsedInit == Init => UsedInv
BY DEF Init, UsedInv, ApprovalIsUsed, ActiveIsLater

LEMMA SwitchVersions ==
  ASSUME Typed, [Next]_vars
  PROVE  /\ killSwitch.version \in Nat /\ killSwitch'.version \in Nat
         /\ killSwitch.version <= killSwitch'.version
         /\ killSwitch.version = killSwitch'.version => UNCHANGED killSwitch
<1>1. killSwitch \in [active : BOOLEAN, version : Nat]
  BY DEF Typed, TablesOK
<1>2. \/ UNCHANGED killSwitch
      \/ \E active \in BOOLEAN :
           killSwitch' = [active |-> active, version |-> killSwitch.version + 1]
  BY DEF Next, SetKillSwitch, Step, Evaluate, Execute, CallEvaluate, CallSubmit, CallDecide,
         CallApprove, CallReject, Ingest, ReadSwitchVersion, ReadProfileVersion, ReadSwitch,
         ReadSwitchAgain, ReadLevel, Record, ReadRequest, RequestApproval, CheckAuthority,
         Approve, Reject, CheckKillSwitch, Claim, Complete, SetProfile, controls, vars
<1> QED
  BY <1>1, <1>2

(* A call on its way to the claim gets there while the kill switch is off.  *)
LEMMA CommandCarried ==
  ASSUME Typed, [Next]_vars, NEW t \in Threads, pc[t] \in Claiming, ~ killSwitch.active
  PROVE  \/ pc'[t] \in Claiming /\ call'[t] = call[t]
         \/ Claim(t)
<1>1. CASE UNCHANGED <<tables, pc, call>>
  BY <1>1
<1>2. ASSUME NEW u \in Threads, Moves(u), t # u
      PROVE  pc'[t] \in Claiming /\ call'[t] = call[t]
  BY <1>2, OthersStay
<1>3. CASE Moves(t)
  <2>1. CheckKillSwitch(t) \/ Claim(t)
    BY <1>3
       DEF Claiming, Moves, Step, Evaluate, Execute, CallEvaluate, CallSubmit, CallDecide,
           CallApprove, CallReject, Ingest, ReadSwitchVersion, ReadProfileVersion, ReadSwitch,
           ReadSwitchAgain, ReadLevel, Record, ReadRequest, RequestApproval, CheckAuthority,
           Approve, Reject, Complete
  <2> QED
    BY <2>1, StaysInCall DEF CheckKillSwitch, Claiming
<1> QED
  BY <1>1, <1>2, <1>3, StepMoves

LEMMA ActionStays ==
  ASSUME Typed, [Next]_vars, NEW d \in ledger, action[d] # NoAction
  PROVE  action'[d] # NoAction
<1>1. ASSUME NEW t \in Threads, Claim(t) PROVE action'[d] # NoAction
  <2>1. call[t].decision \in ledger
    BY <1>1 DEF Claim, Typed, CallsOK, CallOK, OnItsWay
  <2> QED
    BY <1>1, <2>1 DEF Claim, Typed, TablesOK
<1>2. ASSUME NEW t \in Threads, Record(t) PROVE action'[d] # NoAction
  BY <1>2 DEF Record
<1>3. CASE UNCHANGED action
  BY <1>3
<1> QED
  BY <1>1, <1>2, <1>3
     DEF Next, Step, Evaluate, Execute, CallEvaluate, CallSubmit, CallDecide, CallApprove,
         CallReject, Ingest, ReadSwitchVersion, ReadProfileVersion, ReadSwitch,
         ReadSwitchAgain, ReadLevel, ReadRequest, RequestApproval, CheckAuthority, Approve,
         Reject, CheckKillSwitch, Complete, SetKillSwitch, SetProfile, tables, vars

(* An approval is given by a call that is on its way from then on.          *)
LEMMA ApprovalGiven ==
  ASSUME Typed, [Next]_vars, NEW d \in ledger', approval'[d].status = "APPROVED",
         ~ (d \in ledger /\ approval[d].status = "APPROVED")
  PROVE  \E t \in Threads : pc'[t] \in Claiming /\ call'[t].decision = d
<1>1. CASE UNCHANGED <<ledger, approval>>
  BY <1>1
<1>2. ASSUME NEW t \in Threads, Record(t) PROVE FALSE
  BY <1>2 DEF Record, NoApproval
<1>3. ASSUME NEW t \in Threads, RequestApproval(t) PROVE FALSE
  <2>1. call[t].decision \in ledger /\ ledger' = ledger
    BY <1>3 DEF RequestApproval, Typed, CallsOK, CallOK
  <2> QED
    BY <1>3, <2>1 DEF RequestApproval, Typed, TablesOK, ApprovalRows
<1>4. ASSUME NEW t \in Threads, Approve(t) \/ Reject(t)
      PROVE  pc'[t] \in Claiming /\ call'[t].decision = d
  <2>1. call[t].decision \in ledger /\ ledger' = ledger
    BY <1>4 DEF Approve, Reject, Typed, CallsOK, CallOK
  <2>2. approval[call[t].decision] \in ApprovalRows
    BY <2>1 DEF Typed, TablesOK
  <2>3. ASSUME ExpireApproval(t) PROVE FALSE
    BY <2>1, <2>2, <2>3 DEF ExpireApproval, Typed, TablesOK, ApprovalRows
  <2>4. ASSUME DecideApproval(t, "REJECTED") PROVE FALSE
    BY <2>1, <2>2, <2>4 DEF DecideApproval, Typed, TablesOK, ApprovalRows
  <2>5. ASSUME UNCHANGED approval PROVE FALSE
    BY <2>1, <2>5
  <2>6. /\ DecideApproval(t, "APPROVED")
        /\ Continue(t, "kill_switch",
             Executing(call[t].decision,
               Command(call[t].decision, call[t].request,
                       approval[call[t].decision].requested_by, call[t].actor)))
    BY <1>4, <2>3, <2>4, <2>5 DEF Approve, Reject
  <2>7. d = call[t].decision
    BY <2>1, <2>6 DEF DecideApproval, Typed, TablesOK
  <2> QED
    BY <2>6, <2>7, GoesOn DEF Executing, Claiming
<1> QED
  BY <1>1, <1>2, <1>3, <1>4
     DEF Next, Step, Evaluate, Execute, CallEvaluate, CallSubmit, CallDecide, CallApprove,
         CallReject, Ingest, ReadSwitchVersion, ReadProfileVersion, ReadSwitch,
         ReadSwitchAgain, ReadLevel, ReadRequest, CheckAuthority, CheckKillSwitch, Claim,
         Complete, SetKillSwitch, SetProfile, tables, vars

LEMMA UsedStep == Typed /\ UsedInv /\ [Next]_vars => UsedInv'
<1> SUFFICES ASSUME Typed, UsedInv, [Next]_vars PROVE UsedInv'
  OBVIOUS
<1>1. ActiveIsLater'
  <2>1. CASE UNCHANGED killSwitch
    BY <2>1 DEF UsedInv, ActiveIsLater
  <2>2. CASE killSwitch'.version > killSwitch.version
    BY <2>2, SwitchVersions DEF UsedInv, ActiveIsLater
  <2> QED
    BY <2>1, <2>2, SwitchVersions
<1>2. ASSUME NEW d \in ledger', approval'[d].status = "APPROVED", action'[d] = NoAction,
             ~ (killSwitch'.version > 1)
      PROVE  \E t \in Threads : pc'[t] \in Claiming /\ call'[t].decision = d
  <2>1. CASE d \in ledger /\ approval[d].status = "APPROVED"
    <3>1. action[d] = NoAction
      BY <1>2, <2>1, ActionStays
    <3>2. ~ (killSwitch.version > 1) /\ ~ killSwitch.active
      BY <1>2, SwitchVersions DEF UsedInv, ActiveIsLater
    <3>3. PICK t \in Threads : pc[t] \in Claiming /\ call[t].decision = d
      BY <2>1, <3>1, <3>2 DEF UsedInv, ApprovalIsUsed, Claiming
    <3>4. ASSUME Claim(t) PROVE FALSE
      <4>1. call[t].command \in Commands
        BY <3>4 DEF Claim, Typed, CallsOK, CallOK, OnItsWay
      <4>2. call[t].command # NoAction
        BY <4>1 DEF Commands, NoAction
      <4> QED
        BY <1>2, <2>1, <3>1, <3>3, <3>4, <4>2 DEF Claim, Typed, TablesOK
    <3> QED
      BY <3>2, <3>3, <3>4, CommandCarried
  <2> QED
    BY <1>2, <2>1, ApprovalGiven
<1> QED
  BY <1>1, <1>2 DEF UsedInv, ApprovalIsUsed, Claiming

(* An approval is not used up in vain: the call that got it executes the    *)
(* decision, unless the kill switch has been set (approve_and_execute).     *)
THEOREM ApprovalIsUsedHolds == Spec => []ApprovalIsUsed
<1>1. Spec => []UsedInv
  BY TypedInvariant, UsedInit, UsedStep, PTL DEF Spec
<1> QED
  BY <1>1, PTL DEF UsedInv

----------------------------------------------------------------------------
(* Current decisions                                                        *)

(* The versions in a fingerprint were current once.                         *)
Past(d) ==
  IF selected_action[d.request] \in Executable
  THEN \E s, p \in Nat :
         /\ d.control_version = <<s, p>>
         /\ s <= killSwitch.version
         /\ p <= profile[selected_action[d.request]].version
  ELSE d.control_version \in {<<s>> : s \in 0 .. killSwitch.version}

Fresh(d) == d.control_version = ContextVersion(d.request)

(* What is known of the controls, should the versions still be current.     *)
PolicyOK(t) ==
  LET d == call[t].decision IN
  /\ pc[t] = "read_profile_version" => call[t].switch <= killSwitch.version
  /\ pc[t] \in ReadingControls => Past(d) /\ Screened(d.request) = "NONE"
  /\ pc[t] \in {"read_switch_again", "read_level"} => (Fresh(d) => ~ killSwitch.active)
  /\ pc[t] = "record" => Past(d) /\ (Fresh(d) => d.reason = PolicyReason(d.request))

CurrentInv ==
  /\ \A t \in Threads : PolicyOK(t)
  /\ \A d \in ledger : Past(d) /\ (Fresh(d) => d.reason = PolicyReason(d.request))

LEMMA CurrentInit == Init => CurrentInv
BY DEF Init, CurrentInv, PolicyOK, ReadingControls

LEMMA ProfileVersions ==
  ASSUME Typed, [Next]_vars, NEW a \in Executable
  PROVE  /\ profile[a].version \in Nat /\ profile'[a].version \in Nat
         /\ profile[a].version <= profile'[a].version
         /\ profile[a].version = profile'[a].version => profile'[a] = profile[a]
<1>1. profile \in [Executable -> [level : Levels, version : Nat]]
  BY DEF Typed, TablesOK
<1>2. \/ UNCHANGED profile
      \/ \E b \in Executable, level \in Levels :
           profile' = [profile EXCEPT ![b] = [level |-> level, version |-> @.version + 1]]
  <2>1. ASSUME NEW b \in InUse, NEW level \in Levels, SetProfile(b, level)
        PROVE  b \in Executable
               /\ profile' = [profile EXCEPT ![b] = [level |-> level,
                                                     version |-> @.version + 1]]
    BY <2>1 DEF SetProfile, InUse
  <2>2. ASSUME NEW t \in Threads, Complete(t), profile' # profile
        PROVE  \E b \in Executable, level \in Levels :
                 profile' = [profile EXCEPT ![b] = [level |-> level,
                                                    version |-> @.version + 1]]
    <3>1. call[t].command \in Commands
            /\ call[t].command.action = selected_action[call[t].decision.request]
      BY <2>2 DEF Complete, Typed, CallsOK, CallOK, OnItsWay
    <3>2. PICK b \in Executable : b = selected_action[call[t].decision.request]
      BY <3>1 DEF Commands
    <3>3. profile' = [profile EXCEPT ![b] = AfterFailure(profile[b])]
      BY <2>2, <3>2 DEF Complete
    <3>4. profile[b].level \in Levels
      BY <1>1
    <3>5. \E level \in Levels : AfterFailure(profile[b]) =
             [level |-> level, version |-> profile[b].version + 1]
      BY <3>4 DEF AfterFailure, Levels
    <3> QED
      BY <3>3, <3>5
  <2> QED
    BY <2>1, <2>2
       DEF Next, SetKillSwitch, Step, Evaluate, Execute, CallEvaluate, CallSubmit, CallDecide,
           CallApprove, CallReject, Ingest, ReadSwitchVersion, ReadProfileVersion, ReadSwitch,
           ReadSwitchAgain, ReadLevel, Record, ReadRequest, RequestApproval, CheckAuthority,
           Approve, Reject, CheckKillSwitch, Claim, controls, vars
<1> QED
  BY <1>1, <1>2

(* Versions that were current stay past, and if they are current afterwards *)
(* the controls they stand for have not changed.                            *)
LEMMA PastStays ==
  ASSUME Typed, [Next]_vars, NEW d, d.request \in Requests, Past(d)
  PROVE  /\ Past(d)'
         /\ Fresh(d)' => /\ Fresh(d)
                         /\ UNCHANGED killSwitch
                         /\ PolicyReason(d.request)' = PolicyReason(d.request)
<1> DEFINE a == selected_action[d.request]
<1>1. CASE a \in Executable
  <2>1. PICK s \in Nat, p \in Nat :
          /\ d.control_version = <<s, p>>
          /\ s <= killSwitch.version
          /\ p <= profile[a].version
    BY <1>1 DEF Past
  <2>2. s <= killSwitch'.version /\ p <= profile'[a].version
    BY <1>1, <2>1, SwitchVersions, ProfileVersions
  <2>3. Past(d)'
    BY <1>1, <2>1, <2>2 DEF Past
  <2>4. ASSUME Fresh(d)' PROVE Fresh(d) /\ UNCHANGED killSwitch /\ profile'[a] = profile[a]
    <3>1. s = killSwitch'.version /\ p = profile'[a].version
      BY <1>1, <2>1, <2>4 DEF Fresh, ContextVersion
    <3>2. s = killSwitch.version /\ p = profile[a].version
      BY <1>1, <2>1, <3>1, SwitchVersions, ProfileVersions
    <3> QED
      BY <1>1, <2>1, <3>1, <3>2, SwitchVersions, ProfileVersions DEF Fresh, ContextVersion
  <2> QED
    BY <2>3, <2>4 DEF PolicyReason
<1>2. CASE a \notin Executable
  <2>1. PICK s \in 0 .. killSwitch.version : d.control_version = <<s>>
    BY <1>2 DEF Past
  <2>2. Past(d)'
    BY <1>2, <2>1, SwitchVersions DEF Past
  <2>3. ASSUME Fresh(d)' PROVE Fresh(d) /\ UNCHANGED killSwitch
    <3>1. s = killSwitch'.version
      BY <1>2, <2>1, <2>3 DEF Fresh, ContextVersion
    <3>2. s = killSwitch.version
      BY <2>1, <3>1, SwitchVersions
    <3> QED
      BY <1>2, <2>1, <3>1, <3>2, SwitchVersions DEF Fresh, ContextVersion
  <2>4. Screened(d.request) # "NONE"
    BY <1>2, ScreenedType DEF Reasons
  <2> QED
    BY <2>2, <2>3, <2>4 DEF PolicyReason
<1> QED
  BY <1>1, <1>2

PolicySteps == ReadingControls \cup {"read_profile_version", "record"}

LEMMA PolicyMoves ==
  ASSUME Typed, NEW t \in Threads, Moves(t), pc'[t] \in PolicySteps
  PROVE  \/ ReadSwitchVersion(t) \/ ReadProfileVersion(t)
         \/ ReadSwitch(t) \/ ReadSwitchAgain(t) \/ ReadLevel(t)
<1>1. ASSUME NEW step, NEW known, Continue(t, step, known) PROVE step \in PolicySteps
  BY <1>1, GoesOn
<1>2. ASSUME NEW step, Goto(t, step), UNCHANGED call PROVE step \in PolicySteps
  BY <1>2, StaysInCall
<1> USE DEF PolicySteps, ReadingControls
<1>3. ASSUME Ingest(t) \/ Record(t) PROVE FALSE
  BY <1>1, <1>2, <1>3 DEF Ingest, Record, Return
<1>4. ASSUME ReadRequest(t) \/ RequestApproval(t) \/ CheckAuthority(t) PROVE FALSE
  <2>1. \E step \in {"kill_switch", "idle", "approve"} : \E known : Continue(t, step, known)
    BY <1>4 DEF ReadRequest, RequestApproval, CheckAuthority, Return
  <2> QED
    BY <1>1, <2>1
<1>5. ASSUME Approve(t) \/ Reject(t) PROVE FALSE
  BY <1>1, <1>5 DEF Approve, Reject, ExpireApproval, Return
<1>6. ASSUME Execute(t) PROVE FALSE
  BY <1>1, <1>2, <1>6 DEF Execute, CheckKillSwitch, Claim, Complete, Return
<1>7. ASSUME NEW r, CallEvaluate(t, r) PROVE FALSE
  BY <1>1, <1>7 DEF CallEvaluate
<1>8. ASSUME NEW d, NEW actor, CallSubmit(t, d, actor) PROVE FALSE
  BY <1>1, <1>8 DEF CallSubmit
<1>9. ASSUME NEW d, NEW actor, NEW role, CallDecide(t, d, actor, role) PROVE FALSE
  BY <1>1, <1>9 DEF CallDecide, CallApprove, CallReject
<1> QED
  BY <1>3, <1>4, <1>5, <1>6, <1>7, <1>8, <1>9 DEF Moves, Step, Evaluate

(* What a thread that reads the controls knows of them afterwards.          *)
LEMMA PolicyRead ==
  ASSUME Typed, [Next]_vars, NEW t \in Threads, PolicyOK(t), Moves(t), pc'[t] \in PolicySteps
  PROVE  PolicyOK(t)'
<1> USE DEF ReadingControls
<1>1. CASE ReadSwitchVersion(t)
  <2>1. PICK r \in Requests : r = call[t].request
    BY <1>1 DEF ReadSwitchVersion, Typed, CallsOK, CallOK, TablesOK
  <2>2. killSwitch.version \in Nat /\ UNCHANGED <<killSwitch, profile>>
    BY <1>1 DEF ReadSwitchVersion, Typed, TablesOK, controls
  <2>3. CASE /\ selected_action[r] \in Executable
             /\ Continue(t, "read_profile_version",
                  [op |-> "evaluate", request |-> r, switch |-> killSwitch.version])
    <3>1. pc'[t] = "read_profile_version" /\ call'[t].switch = killSwitch.version
      BY <2>3, GoesOn
    <3> QED
      BY <2>2, <3>1 DEF PolicyOK
  <2>4. ASSUME NEW d, d = Deciding(r, <<killSwitch.version>>, Screened(r)),
               selected_action[r] \notin Executable,
               Continue(t, "record", [op |-> "evaluate", decision |-> d])
        PROVE  PolicyOK(t)'
    <3>1. pc'[t] = "record" /\ call'[t].decision = d
      BY <2>4, GoesOn
    <3>2. d.request = r /\ d.control_version = <<killSwitch.version>> /\ d.reason = Screened(r)
      BY <2>4 DEF Deciding
    <3>3. Past(d)'
      BY <2>2, <2>4, <3>2 DEF Past
    <3>4. PolicyReason(r)' = d.reason
      BY <2>4, <3>2, ScreenedType DEF PolicyReason, Reasons
    <3> QED
      BY <3>1, <3>2, <3>3, <3>4 DEF PolicyOK
  <2> QED
    BY <1>1, <2>1, <2>3, <2>4 DEF ReadSwitchVersion
<1>2. CASE ReadProfileVersion(t)
  <2>1. /\ call[t] \in [op : {"evaluate"}, request : inbox, switch : Nat]
        /\ selected_action[call[t].request] \in Executable
        /\ call[t].switch <= killSwitch.version
    BY <1>2 DEF ReadProfileVersion, Typed, CallsOK, CallOK, PolicyOK
  <2>2. PICK r \in Requests, s \in Nat : r = call[t].request /\ s = call[t].switch
    BY <2>1 DEF Typed, TablesOK
  <2>3. PICK p \in Nat : p = profile[selected_action[r]].version
    BY <2>1, <2>2 DEF Typed, TablesOK
  <2>4. PICK d : d = Deciding(r, <<s, p>>, Screened(r))
    OBVIOUS
  <2>5. Continue(t, IF Screened(r) = "NONE" THEN "read_switch" ELSE "record",
                 [op |-> "evaluate", decision |-> d])
    BY <1>2, <2>2, <2>3, <2>4 DEF ReadProfileVersion
  <2>6. /\ pc'[t] = IF Screened(r) = "NONE" THEN "read_switch" ELSE "record"
        /\ call'[t].decision = d
    BY <2>5, GoesOn
  <2>7. UNCHANGED <<killSwitch, profile>>
    BY <1>2 DEF ReadProfileVersion, controls
  <2>8. d.request = r /\ d.control_version = <<s, p>> /\ d.reason = Screened(r)
    BY <2>4 DEF Deciding
  <2>9. Past(d)'
    BY <2>1, <2>2, <2>3, <2>7, <2>8, SwitchVersions, ProfileVersions DEF Past
  <2> QED
    BY <2>6, <2>8, <2>9 DEF PolicyOK, PolicyReason
<1>3. ASSUME pc[t] \in ReadingControls, UNCHANGED <<killSwitch, profile>>, NEW reason,
             Decide(t, reason),
             Fresh(call[t].decision) => reason = PolicyReason(call[t].decision.request)
      PROVE  PolicyOK(t)'
  <2>1. PICK old : old = call[t].decision
    OBVIOUS
  <2>2. PICK d : d = Deciding(old.request, old.control_version, reason)
    OBVIOUS
  <2>3. pc'[t] = "record" /\ call'[t].decision = d
    <3>1. Continue(t, "record", [op |-> "evaluate", decision |-> d])
      BY <1>3, <2>1, <2>2, DecideContinues
    <3> QED
      BY <3>1, GoesOn
  <2>4. d.request = old.request /\ d.control_version = old.control_version /\ d.reason = reason
    BY <2>2 DEF Deciding
  <2>5. Past(d)'
    BY <1>3, <2>1, <2>4 DEF PolicyOK, Past
  <2>6. Fresh(d)' => d.reason = PolicyReason(d.request)'
    BY <1>3, <2>1, <2>4 DEF Fresh, ContextVersion, PolicyReason
  <2> QED
    BY <2>3, <2>5, <2>6 DEF PolicyOK
<1>4. ASSUME pc[t] \in ReadingControls, UNCHANGED <<killSwitch, profile>>,
             NEW step \in ReadingControls, Goto(t, step), UNCHANGED call, ~ killSwitch.active
      PROVE  PolicyOK(t)'
  <2>1. pc'[t] = step /\ call'[t] = call[t]
    BY <1>4, StaysInCall
  <2> QED
    BY <1>4, <2>1 DEF PolicyOK, Past
<1>5. CASE ReadSwitch(t)
  <2>1. pc[t] = "read_switch" /\ UNCHANGED <<killSwitch, profile>>
          /\ Screened(call[t].decision.request) = "NONE"
    BY <1>5 DEF ReadSwitch, controls, PolicyOK
  <2> QED
    BY <1>3, <1>4, <1>5, <2>1 DEF ReadSwitch, PolicyReason
<1>6. CASE ReadSwitchAgain(t)
  <2>1. pc[t] = "read_switch_again" /\ UNCHANGED <<killSwitch, profile>>
          /\ (Fresh(call[t].decision) => ~ killSwitch.active)
    BY <1>6 DEF ReadSwitchAgain, controls, PolicyOK
  <2> QED
    BY <1>3, <1>4, <1>6, <2>1 DEF ReadSwitchAgain
<1>7. CASE ReadLevel(t)
  <2>1. /\ pc[t] = "read_level" /\ UNCHANGED <<killSwitch, profile>>
        /\ Fresh(call[t].decision) => ~ killSwitch.active
        /\ Screened(call[t].decision.request) = "NONE"
    BY <1>7 DEF ReadLevel, controls, PolicyOK
  <2> QED
    BY <1>3, <1>7, <2>1 DEF ReadLevel, PolicyReason
<1> QED
  BY <1>1, <1>2, <1>5, <1>6, <1>7, PolicyMoves

LEMMA CurrentStep == Typed /\ CurrentInv /\ [Next]_vars => CurrentInv'
<1> SUFFICES ASSUME Typed, CurrentInv, [Next]_vars PROVE CurrentInv'
  OBVIOUS
<1>1. ASSUME NEW t \in Threads PROVE PolicyOK(t)'
  <2>1. CASE pc'[t] = pc[t] /\ call'[t] = call[t]
    <3>1. PICK d : d = call[t].decision
      OBVIOUS
    <3>2. CASE pc[t] \in ReadingControls \cup {"record"}
      <4>1. d.request \in Requests
        BY <3>1, <3>2 DEF Typed, CallsOK, CallOK, TablesOK, UndecidedOK, DecisionOK
      <4>2. Past(d)
        BY <3>1, <3>2 DEF CurrentInv, PolicyOK
      <4> QED
        BY <2>1, <3>1, <3>2, <4>1, <4>2, PastStays
           DEF CurrentInv, PolicyOK, ReadingControls
    <3>3. CASE pc[t] = "read_profile_version"
      <4>1. call[t].switch \in Nat /\ call[t].switch <= killSwitch.version
        BY <3>3 DEF Typed, CallsOK, CallOK, CurrentInv, PolicyOK
      <4> QED
        BY <2>1, <3>3, <4>1, SwitchVersions DEF PolicyOK, ReadingControls
    <3> QED
      BY <2>1, <3>2, <3>3 DEF PolicyOK, ReadingControls
  <2>2. CASE Moves(t) /\ pc'[t] \in PolicySteps
    BY <2>2, PolicyRead DEF CurrentInv
  <2>3. CASE pc'[t] \notin PolicySteps
    BY <2>3 DEF PolicySteps, PolicyOK, ReadingControls
  <2> QED
    BY <2>1, <2>2, <2>3, StepMoves, OthersStay
<1>2. ASSUME NEW d \in ledger' PROVE (Past(d) /\ (Fresh(d) => d.reason = PolicyReason(d.request)))'
  <2>1. d \in ledger \/ \E t \in Threads : Record(t) /\ d = call[t].decision
    <3>1. ASSUME NEW t \in Threads, Step(t) PROVE ledger' = ledger \/ Record(t)
      <4>1. CASE Evaluate(t)
        BY <4>1 DEF Evaluate, Ingest, ReadSwitchVersion, ReadProfileVersion, ReadSwitch,
                    ReadSwitchAgain, ReadLevel, tables
      <4>2. CASE ReadRequest(t) \/ RequestApproval(t) \/ CheckAuthority(t)
        BY <4>2 DEF ReadRequest, RequestApproval, CheckAuthority, tables
      <4>3. CASE Approve(t) \/ Reject(t) \/ Execute(t)
        BY <4>3 DEF Approve, Reject, Execute, CheckKillSwitch, Claim, Complete, tables
      <4> QED
        BY <3>1, <4>1, <4>2, <4>3 DEF Step
    <3>2. CASE ~\E t \in Threads : Step(t)
      BY <3>2 DEF Next, CallEvaluate, CallSubmit, CallDecide, CallApprove, CallReject,
                  SetKillSwitch, SetProfile, tables, vars
    <3>3. CASE \E t \in Threads : Record(t)
      BY <3>3 DEF Record
    <3> QED
      BY <3>1, <3>2, <3>3
  <2>2. /\ d.request \in Requests
        /\ Past(d) /\ (Fresh(d) => d.reason = PolicyReason(d.request))
    BY <2>1 DEF CurrentInv, PolicyOK, Record, Typed, TablesOK, CallsOK, CallOK, DecisionOK
  <2> QED
    BY <2>2, PastStays
<1> QED
  BY <1>1, <1>2 DEF CurrentInv

(* A decision whose control version is the current one is the decision the  *)
(* policy would make now (PolicyGateway.evaluate, context_version).         *)
THEOREM CurrentDecisionsHold == Spec => []CurrentDecisions
<1>1. Spec => []CurrentInv
  BY TypedInvariant, CurrentInit, CurrentStep, PTL DEF Spec
<1>2. CurrentInv => CurrentDecisions
  BY DEF CurrentInv, CurrentDecisions, Fresh
<1> QED
  BY <1>1, <1>2, PTL

----------------------------------------------------------------------------
(* Amounts                                                                  *)

(* The value of a probability, before anything is rounded.                  *)
Unrounded(m, f, c, p) == m * p - f * (One - p) - One * c

LEMMA UnroundedType ==
  ASSUME NEW m \in Int, NEW f \in Int, NEW c \in Int, NEW p \in Int
  PROVE  Unrounded(m, f, c, p) \in Int
BY DEF Unrounded, One

(* The simulator rounds two amounts: it is a unit off at most.              *)
LEMMA SimulatedError ==
  ASSUME NEW m \in Int, NEW f \in Int, NEW c \in Int, NEW p \in Int, NEW v,
         v = Rounded(m * p, One) - Rounded(f * (One - p), One) - c
  PROVE  /\ v \in Int
         /\ One * v - Unrounded(m, f, c, p) <= One
         /\ Unrounded(m, f, c, p) - One * v <= One
<1>1. PICK x \in Int : x = m * p
  OBVIOUS
<1>2. PICK y \in Int : y = f * (One - p)
  BY DEF One
<1>3. /\ Rounded(x, One) \in Int
      /\ 2 * One * Rounded(x, One) - 2 * x <= One
      /\ 2 * x - 2 * One * Rounded(x, One) <= One
  BY RoundedError
<1>4. /\ Rounded(y, One) \in Int
      /\ 2 * One * Rounded(y, One) - 2 * y <= One
      /\ 2 * y - 2 * One * Rounded(y, One) <= One
  BY RoundedError
<1>5. v = Rounded(x, One) - Rounded(y, One) - c
  BY <1>1, <1>2
<1>6. Unrounded(m, f, c, p) = x - y - One * c
  BY <1>1, <1>2 DEF Unrounded
<1> QED
  BY <1>3, <1>4, <1>5, <1>6 DEF One

(* Two probabilities differ by what is at stake times their distance.       *)
LEMMA Stakes ==
  ASSUME NEW m \in Nat, NEW f \in Nat, NEW c \in Int, NEW p \in Int, NEW q \in Int
  PROVE  /\ Distance(p, q) \in Nat /\ Distance(p, q) * (m + f) \in Nat
         /\ Unrounded(m, f, c, p) - Unrounded(m, f, c, q) <= Distance(p, q) * (m + f)
         /\ Unrounded(m, f, c, q) - Unrounded(m, f, c, p) <= Distance(p, q) * (m + f)
<1>1. Unrounded(m, f, c, p) - Unrounded(m, f, c, q) = (p - q) * (m + f)
  BY DEF Unrounded, One
<1>2. /\ Distance(p, q) \in Nat
      /\ Distance(p, q) = p - q \/ Distance(p, q) = q - p
  BY DEF Distance, Larger
<1>3. Distance(p, q) * (m + f) \in Nat
  BY <1>2
<1>4. (q - p) * (m + f) = - ((p - q) * (m + f))
  OBVIOUS
<1>5. (p - q) * (m + f) \in Int
  OBVIOUS
<1>6. (Distance(p, q) * (m + f) = (p - q) * (m + f))
        \/ (Distance(p, q) * (m + f) = - ((p - q) * (m + f)))
  BY <1>2, <1>4
<1>7. PICK k \in Int : k = (p - q) * (m + f)
  BY <1>5
<1>8. PICK e \in Nat : e = Distance(p, q) * (m + f)
  BY <1>3
<1>0. m \in Int /\ f \in Int
  OBVIOUS
<1>9. PICK u \in Int : u = Unrounded(m, f, c, p)
  <2>1. Unrounded(m, f, c, p) \in Int
    BY <1>0, UnroundedType
  <2> QED
    BY <2>1
<1>10. PICK w \in Int : w = Unrounded(m, f, c, q)
  <2>1. Unrounded(m, f, c, q) \in Int
    BY <1>0, UnroundedType
  <2> QED
    BY <2>1
<1>11. u - w = k /\ (e = k \/ e = - k)
  BY <1>1, <1>6, <1>7, <1>8, <1>9, <1>10
<1>12. u - w <= e /\ w - u <= e
  BY <1>11
<1> QED
  BY <1>2, <1>3, <1>8, <1>9, <1>10, <1>12

----------------------------------------------------------------------------
(* The best action in truth                                                 *)

LEMMA TruthType ==
  ASSUME NEW o \in OrderContexts, NEW a \in RecoveryActions
  PROVE  _ground_truth_probability(o, a) \in Int
<1>1. CASE a \in Executable
  BY <1>1, OrderTypes, ProbabilityNumbers DEF _ground_truth_probability
<1>2. CASE a \notin Executable
  <2>1. PICK x : x = One - true_failure_probability(o)
    OBVIOUS
  <2>2. x \in Int
    <3> DEFINE unavailable == IF o.inventory_reserved /\ ~ o.inventory_available
                              THEN Sixtieths(4800) ELSE 0
               inventory == IF o.inventory_confidence < 7800
                            THEN 33 * (7800 - o.inventory_confidence) ELSE 0
               scan == Smaller(Sixtieths(2500), 150 * o.hours_since_expected_scan)
               window == IF o.hours_to_promise <= 18 THEN Sixtieths(900) ELSE 0
               sum == Sixtieths(One - o.carrier_on_time_probability)
                        + unavailable + inventory + scan + window
    <3>1. /\ o.carrier_on_time_probability \in Int
          /\ o.inventory_confidence \in Int
          /\ o.hours_since_expected_scan \in Int
      BY OrderTypes
    <3>2. Sixtieths(One - o.carrier_on_time_probability) \in Int
      BY <3>1 DEF Sixtieths, One
    <3>3. unavailable \in Int /\ window \in Int /\ inventory \in Int /\ scan \in Int
      BY <3>1 DEF Sixtieths, Smaller
    <3>4. sum \in Int
      BY <3>2, <3>3
    <3>5. true_failure_probability(o) = Clipped(Rounded(sum, 60), 100, 9900)
      BY DEF true_failure_probability
    <3> HIDE DEF sum
    <3>6. Rounded(sum, 60) \in Int
      BY <3>4, RoundedType
    <3>7. true_failure_probability(o) \in Probability
      BY <3>5, <3>6, ClippedType
    <3> QED
      BY <2>1, <3>7, ProbabilityNumbers
  <2>3. Clipped(x, 100, 9900) \in Probability
    BY <2>2, ClippedType
  <2> QED
    BY <1>2, <2>1, <2>3, ProbabilityNumbers DEF _ground_truth_probability
<1> QED
  BY <1>1, <1>2

(* The truth is rounded once: it is half a unit off at most.                *)
LEMMA TruthError ==
  ASSUME NEW o \in OrderContexts, NEW a \in RecoveryActions, NEW u,
         u = Unrounded(o.gross_margin, o.failure_cost, intervention_cost(o, a),
                       _ground_truth_probability(o, a))
  PROVE  /\ _ground_truth_value(o, a) \in Int
         /\ 2 * One * _ground_truth_value(o, a) - 2 * u <= One
         /\ 2 * u - 2 * One * _ground_truth_value(o, a) <= One
<1>1. u \in Int
  BY OrderTypes, CostType, TruthType, UnroundedType
<1>2. _ground_truth_value(o, a) = Rounded(u, One)
  BY DEF _ground_truth_value, Unrounded
<1> QED
  BY <1>1, <1>2, RoundedError

LEMMA OptimalExists ==
  ASSUME NEW S \in SUBSET RecoveryActions, "TAKE_NO_ACTION" \in S,
         NEW value, \A a \in S : value[a] \in Int
  PROVE  \E a \in S : \A b \in S \ {a} :
           \/ value[a] > value[b]
           \/ value[a] = value[b] /\ Alphabet[a] > Alphabet[b]
BY DEF Alphabet, RecoveryActions, Executable

LEMMA TrulyFeasibleActions ==
  ASSUME NEW o \in OrderContexts
  PROVE  TrulyFeasible(o) \in SUBSET RecoveryActions /\ "TAKE_NO_ACTION" \in TrulyFeasible(o)
BY DEF TrulyFeasible, RecoveryActions, Executable

LEMMA OptimalFeasible ==
  ASSUME NEW o \in OrderContexts PROVE _optimal_action(o) \in TrulyFeasible(o)
<1> DEFINE value == [a \in TrulyFeasible(o) |-> _ground_truth_value(o, a)]
<1>1. \A a \in TrulyFeasible(o) : value[a] \in Int
  BY TruthError, TrulyFeasibleActions
<1>2. \E a \in TrulyFeasible(o) : \A b \in TrulyFeasible(o) \ {a} :
         \/ value[a] > value[b]
         \/ value[a] = value[b] /\ Alphabet[a] > Alphabet[b]
  BY <1>1, TrulyFeasibleActions, OptimalExists
<1> QED
  BY <1>2 DEF _optimal_action

----------------------------------------------------------------------------
(* The regret                                                               *)

(* What may stand between the expected value of an action and its true one. *)
Doubt(o, a) ==
  IF a = "TAKE_NO_ACTION" THEN RiskError(o) * (o.gross_margin + o.failure_cost) ELSE 0

LEMMA ValueError ==
  ASSUME NEW o \in OrderContexts, NEW a \in RecoveryActions
  PROVE  /\ Doubt(o, a) \in Nat
         /\ expected_net_value(o, a) \in Int /\ _ground_truth_value(o, a) \in Int
         /\ 2 * One * _ground_truth_value(o, a) - 2 * One * expected_net_value(o, a)
              <= 2 * Doubt(o, a) + 3 * One
         /\ 2 * One * expected_net_value(o, a) - 2 * One * _ground_truth_value(o, a)
              <= 2 * Doubt(o, a) + 3 * One
<1>1. PICK m \in Nat, f \in Nat, c \in Nat :
        m = o.gross_margin /\ f = o.failure_cost /\ c = intervention_cost(o, a)
  BY OrderTypes, CostType
<1>2. PICK p \in Int : p = on_time_probability(o, a)
  BY OnTimeProbabilityType, ProbabilityNumbers
<1>3. PICK q \in Int : q = _ground_truth_probability(o, a)
  BY TruthType
<1>0. m \in Int /\ f \in Int /\ c \in Int
  OBVIOUS
<1>4. PICK x \in Int : x = Unrounded(m, f, c, p)
  <2>1. Unrounded(m, f, c, p) \in Int
    BY <1>0, UnroundedType
  <2> QED
    BY <2>1
<1>5. PICK y \in Int : y = Unrounded(m, f, c, q)
  <2>1. Unrounded(m, f, c, q) \in Int
    BY <1>0, UnroundedType
  <2> QED
    BY <2>1
<1>6. PICK v \in Int : /\ v = expected_net_value(o, a)
                       /\ One * v - x <= One /\ x - One * v <= One
  <2>1. expected_net_value(o, a) = Rounded(m * p, One) - Rounded(f * (One - p), One) - c
    BY <1>1, <1>2 DEF expected_net_value
  <2> QED
    BY <1>0, <1>4, <2>1, SimulatedError
<1>7. PICK w \in Int : /\ w = _ground_truth_value(o, a)
                       /\ 2 * One * w - 2 * y <= One /\ 2 * y - 2 * One * w <= One
  BY <1>1, <1>3, <1>5, TruthError
<1>8. PICK e \in Nat : e = Doubt(o, a) /\ x - y <= e /\ y - x <= e
  <2>1. CASE a = "TAKE_NO_ACTION"
    <3>1. p = One - failure_probability(o)
      BY <1>2, <2>1 DEF on_time_probability, Executable
    <3>2. RiskError(o) = Distance(p, q)
      BY <1>3, <2>1, <3>1 DEF RiskError
    <3>3. Doubt(o, a) = Distance(p, q) * (m + f)
      BY <1>1, <2>1, <3>2 DEF Doubt
    <3>4. /\ Distance(p, q) * (m + f) \in Nat
          /\ x - y <= Distance(p, q) * (m + f)
          /\ y - x <= Distance(p, q) * (m + f)
      BY <1>0, <1>4, <1>5, Stakes
    <3> QED
      BY <3>3, <3>4
  <2>2. CASE a # "TAKE_NO_ACTION"
    <3>1. p = q
      BY <1>2, <1>3, <2>2
         DEF on_time_probability, _ground_truth_probability, RecoveryActions
    <3> QED
      BY <1>4, <1>5, <2>2, <3>1 DEF Doubt
  <2> QED
    BY <2>1, <2>2
<1>9. /\ 2 * One * w - 2 * One * v <= 2 * e + 3 * One
      /\ 2 * One * v - 2 * One * w <= 2 * e + 3 * One
  BY <1>6, <1>7, <1>8 DEF One
<1> QED
  BY <1>6, <1>7, <1>8, <1>9

(* An order loses no more than what the risk score gets wrong, times what   *)
(* is at stake in it, and three units of rounding (simulate, select,        *)
(* _optimal_action).                                                        *)
THEOREM RegretIsBounded ==
  ASSUME NEW o \in OrderContexts PROVE RegretBounded(o)
<1> SUFFICES ASSUME Generated(o)
             PROVE  One * Regret(o)
                      <= RiskError(o) * (o.gross_margin + o.failure_cost) + 3 * One
  BY DEF RegretBounded
<1>1. PICK best : best = _optimal_action(o)
  OBVIOUS
<1>2. PICK selected : selected = Selection(o)
  OBVIOUS
<1>3. /\ selected \in Feasible(o) /\ selected \in RecoveryActions
      /\ best \in Feasible(o) /\ best \in RecoveryActions
  <2>1. TrulyFeasible(o) \subseteq Feasible(o)
    BY DEF TrulyFeasible, Feasible, Generated
  <2> QED
    BY <1>1, <1>2, <2>1, OptimalFeasible, SelectionOutranks, FeasibleActions
<1>4. expected_net_value(o, best) <= expected_net_value(o, selected)
  BY <1>2, <1>3, SelectionWorth
<1>5. PICK e \in Nat : e = RiskError(o) * (o.gross_margin + o.failure_cost)
  BY ValueError DEF Doubt, RecoveryActions
<1>6. PICK v1 \in Int, w1 \in Int, d1 \in {0, e} :
        /\ v1 = expected_net_value(o, best) /\ w1 = _ground_truth_value(o, best)
        /\ d1 = IF best = "TAKE_NO_ACTION" THEN e ELSE 0
        /\ 2 * One * w1 - 2 * One * v1 <= 2 * d1 + 3 * One
  BY <1>3, <1>5, ValueError DEF Doubt
<1>7. PICK v2 \in Int, w2 \in Int, d2 \in {0, e} :
        /\ v2 = expected_net_value(o, selected) /\ w2 = _ground_truth_value(o, selected)
        /\ d2 = IF selected = "TAKE_NO_ACTION" THEN e ELSE 0
        /\ 2 * One * v2 - 2 * One * w2 <= 2 * d2 + 3 * One
  BY <1>3, <1>5, ValueError DEF Doubt
<1>8. One * (w1 - w2) <= e + 3 * One
  <2>1. CASE best = selected
    <3>1. w1 = w2
      BY <1>6, <1>7, <2>1
    <3> QED
      BY <3>1 DEF One
  <2>2. CASE best # selected
    <3>1. d1 + d2 <= e
      BY <1>6, <1>7, <2>2
    <3>2. v1 <= v2
      BY <1>4, <1>6, <1>7
    <3> QED
      BY <1>6, <1>7, <3>1, <3>2 DEF One
  <2> QED
    BY <2>1, <2>2
<1>9. Regret(o) = Larger(0, w1 - w2)
  BY <1>1, <1>2, <1>6, <1>7 DEF Regret
<1>10. One * Larger(0, w1 - w2) <= e + 3 * One
  BY <1>8 DEF Larger, One
<1> QED
  BY <1>5, <1>9, <1>10

(* No decision in the ledger loses more than that.                          *)
THEOREM RegretIsRiskErrorHolds == Spec => []RegretIsRiskError
<1>1. Typed => RegretIsRiskError
  BY RegretIsBounded, PayloadAssumption
     DEF Typed, TablesOK, DecisionOK, RegretIsRiskError, BoundedRegret
<1> QED
  BY <1>1, TypedInvariant, PTL
=============================================================================
