# A verified model of PromiseGuard

TLA+ specifications of the parts of `src/promiseguard` that decide, approve,
execute, verify and pay, with the TLC runs that check them on small instances
and TLAPS proofs for every value of the constants.  Paths below are relative to
`src/src/promiseguard/` unless they start with `docs/` or `tests/`.

- [1 The system](#1-the-system)
- [2 Modules](#2-modules)
- [3 What a step is](#3-what-a-step-is)
- [4 Runs, bounds and what they show](#4-runs-bounds-and-what-they-show)
- [5 Fairness](#5-fairness)
- [6 Proofs](#6-proofs)
- [7 Disagreements between the code and its documents](#7-disagreements-between-the-code-and-its-documents)
- [8 Assumptions](#8-assumptions)
- [9 Not modelled, and the plan](#9-not-modelled-and-the-plan)

## 1 The system

PromiseGuard watches orders that are about to miss their promised delivery.  An
operational event with its order context is evaluated (risk, counterfactual
options, optimiser, policy) into an immutable decision.  A decision either says
that nothing is to be done, or asks for an approval, or may be executed without
one when its action has earned bounded autonomy.  An executed action writes to
the systems of record of the warehouse, the order management and the carrier
(an in-memory sandbox here), is compensated when it breaks half-way, and is
verified later; outcomes are the evidence autonomy is earned and lost with.  An
optional OpenAI review of a decision runs under a hard budget.  The API server
handles every request in a thread of its own, on one shared database and one
shared sandbox, so all of the following happen at the same time.

| Component | State | Operations | Talks to | What makes it correct |
|---|---|---|---|---|
| autonomy controls (`autonomy.py`) | kill switch, one profile per action, evidence rows | `set_kill_switch`, `set_profile`, `record_execution`, `record_outcome`, `context_version`, `execution_permitted` | called by the policy, the gateway, verification and managers | no bounded autonomy without its streak; evidence counts once; the control version changes with every permission |
| action gateway (`execution.py`) | action row per decision | `execute`: kill switch, claim, saga, row update, evidence | autonomy controls, sandbox, `ActionRepository` | one saga per decision; the final status agrees with the systems of record; failures become evidence; the kill switch stops claims |
| sandbox (`adapters/sandbox.py`) | locations, services, splits, reservations, delivery outcomes, in memory | seeding, five writes and their inverses, postconditions, hydration | gateway, verification | what is lost in a restart can be brought back from the row |
| approval service (`approval.py`) | approval row per decision | `request`, `approve`, `reject`, expiry | workflow | one decision per approval, by somebody else than the requester, in time, and reported to its author only |
| recovery workflow (`workflow.py`) | none of its own | `submit`, `approve_and_execute`, `reject`, `verify` | ledger, inbox, approvals, gateway, verification | authority follows the command from the check to the claim; an approval is not used up in vain |
| policy, orchestrator, ledger (`policy.py`, `orchestrator.py`, `ledger.py`, `evaluation.py`) | decision rows | `evaluate`, `record` | autonomy controls, inbox | a decision that carries the current control version is what the policy would say now |
| event inbox (`persistence.py`) | event rows by source, id and version | `ingest`, `get_request_payload` | evaluation, workflow | a version is stored once, a conflicting replay refused |
| outcome verification (`verification.py`) | outcome row per decision | `verify` | gateway rows, sandbox, autonomy controls | one outcome; what is counted is what is stored; a finished action is judged by what it achieved |
| OpenAI budget (`openai_budget.py`) | budget row (limit, reserved, spent), run rows | `reserve`, `complete`, `reject`, `fail`, `state`, reclaim of stale runs | OpenAI review agent, startup | totals are the sums of the rows and within the limit; nothing charged is forgotten; nothing settled twice |
| OpenAI review agent (`openai_agent.py`, `openai_cost.py`) | the review column of the run rows | `run`: look up, reserve, ask, `_validate`, settle, `_advance_if_requested` | budget, provider, workflow | hands over nothing but decisions with a stored review that agrees; pays for a review once |
| risk, simulator, optimiser (`risk.py`, `simulator.py`, `optimizer.py`) | none | `score`, `simulate`, `select` | evaluation | nothing is selected over an option that is worth as much and does less |
| synthetic data, value evaluation (`synthetic.py`, `value_evaluation.py`) | none | the truth of an order, its optimal action, the regret of a selection | optimiser | a selection loses no more than the risk score is wrong |
| identity (`identity.py`) | role directory | `bind_claimed_role` | all services | a registered actor claims its own role only; in strict mode nobody else claims any |
| service container and API (`services.py`, `src/apps/api/main.py`) | the sandbox's lifetime | wiring, one thread per request | all services | no order of requests breaks a service |
| trained scorer, random generators, reports | none | batch tools | | out of the model, see section 9 |
| feedback, configuration, metrics | feedback rows | appends, look-ups | all services | out of the model, see section 9 |

The hard behaviours, listed line by line under `hazards` in `PROJECT.json`:

- **Interleaving.** Every service opens one short transaction per statement
  group, so a call is a sequence of transactions with other calls between them.
  Existence checks precede inserts, statuses are read before rows are locked.
- **Stale reads.** The kill switch is read before the claim, the policy reads the
  controls in five transactions, submit reads the newest version of an event and
  not the one that was decided about.
- **Partial failure.** Provider writes fail before or after they take effect, and
  at every step of a saga of up to three writes and two compensations.
- **Crashes.** A restart empties the sandbox and stops calls between two
  transactions; rows survive.
- **Time.** Approvals expire while they are decided, reservations while the
  provider is thinking.
- **Limits.** The budget is kept as two running totals beside the rows.
- **Rounding.** The simulator rounds two amounts and nets them; the truth it is
  measured against rounds once.  Near ties come out differently.
- **Several decisions about one order.** What one succeeded in, the compensation
  of another takes back.

## 2 Modules

| Module | Models | Used by |
|---|---|---|
| `AutonomyControls` | `autonomy.py`, one step per committed transaction | the abstract specification of `AutonomyTransactions`; instantiated by `ActionGateway` |
| `AutonomyTransactions` | the same operations statement by statement, with `SELECT ... FOR UPDATE` row locks | refines `AutonomyControls` |
| `ActionLifecycle` | what the action table promises: claimed once, completed once | abstract specification of `ActionGateway` |
| `ActionGateway` | `ActionGateway.execute`, `ActionRepository`, the writes of the sandbox | extended by `OutcomeVerification` |
| `OutcomeVerification` | `verify` of the workflow and of `verification.py`, `hydrate_from_durable_action`, `OutcomeRepository`, composed with the gateway's threads | |
| `ApprovalLifecycle` | what the approval table promises: one request, then one decision or the expiry | abstract specification of `Approvals`; the behaviour `RecoveryWorkflow` uses |
| `Approvals` | `ApprovalService` and `ApprovalRepository` with the clock | refines `ApprovalLifecycle` |
| `Identity` | `bind_claimed_role`: the roles an actor may claim, given the directory and the strict mode | instances give `Approvals` (lenient) and `RecoveryWorkflow` (strict) their `MayClaim` |
| `RecoveryOptions` | without state: `DeterministicRiskScorer`, `RecoverySimulator`, `DecisionOptimizer.select`, the thresholds of the policy and of the delegated cost | extended by `RecoveryWorkflow` |
| `RecoveryWorkflow` | evaluate (inbox, pipeline, policy, ledger), submit, approve_and_execute, reject, managers, new event versions of several sources | extended by `SyntheticBacktest` |
| `SyntheticBacktest` | the truth of an order and the optimal action of `synthetic.py`, the regret of `value_evaluation.py`, for the decisions of the ledger | |
| `BudgetLedger` | the budget computed from the run rows | abstract specification of `OpenAIBudget` |
| `OpenAIBudget` | `OpenAIBudgetManager` under the calls of `OpenAIAgentService.run` | extended by `ReviewAgent`; refines `BudgetLedger` while calls are fast |
| `OpenAICost` | tokens to money, and the estimate that is reserved | gives the `budget` run its estimates |
| `ReviewAgent` | `OpenAIAgentService`: the answers of the model, `_validate`, the stored review, reuse, the hand-over to `submit`, along the steps of the budget | |
| `AutonomyControlsProofs`, `AutonomyTransactionsProofs`, `ActionGatewayProofs`, `ApprovalsProofs`, `RecoveryWorkflowProofs` (with the options and the backtest), `OpenAIBudgetProofs`, `ReviewAgentProofs`, `OutcomeVerificationProofs` | theorems, see section 6 | `ReviewAgentProofs` uses `OpenAIBudgetProofs`, `OutcomeVerificationProofs` uses `ActionGatewayProofs` |
| `MC*` | model values and small instances for TLC | |

`AutonomyControls` is composed twice: by refinement (its transactions are atomic
although the statements interleave), and by `INSTANCE` in the gateway, whose
`record_execution` step is the atomic `RecordExecution`.  So the gateway relies
exactly on what the refinement shows.  In the same way `RecoveryWorkflow` uses
an approval as the single step `ApprovalLifecycle` allows, which
`ApprovalsImplementLifecycle` proves of the real service, and an action by its
claim, which `GatewayImplementsLifecycle` proves of the gateway.

### How state and actions correspond to the code

`PROJECT.json` maps every definition to its lines.  In outline:

- **ActionGateway.** `pc[t]` names the next database transaction, provider call
  or postcondition read of a call of `execute`: `kill_switch` (59),
  `get_by_decision` (61), `record` and `insert` (78, and `persistence.py:258`),
  `seed_order` (80), the writes of `_reroute`, `_carrier_upgrade` and `_split`
  with their verification and compensation branches, `update` (88) and
  `record_execution` (94-103).  `status` and `claimant` are the action row,
  `location`, `service`, `splits` and `reservations` the sandbox.  Each write
  chooses among the outcomes of `SharedSandboxRuntime.before`/`after`: done,
  refused before, done with an error after it.  `faults` counts restarts and
  lost threads and caps them at `MaxFaults`.
- **AutonomyTransactions.** `pc` is the statement; the lock is the thread that
  has selected the row and not yet committed; `Flushed`, `Release` and
  `RollBack` are the ends of `Database.session`.
- **Approvals.** `Get` and `Create` are the two halves of `request`, `Read` and
  `UpdateIfPending` those of `_decide`; `call[t].decided_at` is the time read
  before the transaction; `reported` remembers which caller was told that a
  decision took effect.
- **OpenAIBudget.** `FindCompleted` is the look-up that precedes the lock of the
  budget row in `reserve`, `Reserve` all that follows it.  `GetRun` is the read
  before the lock in `_finalise`, `Finalise` what follows.  `Accepted`,
  `SpentWithStale`, `ReservedWithoutStale` and `ReclaimedRuns` are
  `_locked_budget` with its reclaim, part of every action that locks the row.
  `billed` is what the provider charged, which the program never sees of a lost
  answer.
- **RecoveryOptions.** Money is in cents, a probability in basis points, as the
  code rounds both when it stores them; every operator has the name of what it
  translates (`failure_probability`, `on_time_probability`,
  `expected_net_value`, `Feasible`).  `Selection` is
  `DecisionOptimizer.select`: the highest net value, ties by the fixed priority
  that puts doing nothing first.
- **ReviewAgent.** Each action is a step of `OpenAIBudget` together with what
  `run` does to the review in that step: `Reviewed` is `ParseReview` with the
  answer the model gave, `SettleReview` is `Finalise` with the review column of
  the row, `ReuseReview` is `FindCompleted` with the review it returns,
  `AdvanceIfRequested` hands the decision to `workflow.submit`, which may raise.
  `submitted` are the decisions handed over.
- **RecoveryWorkflow.** A request carries the `OrderContext`; what the pure
  pipeline computes of it is computed by `RecoveryOptions`.
  `ReadSwitchVersion`, `ReadProfileVersion`, `ReadSwitch`,
  `ReadSwitchAgain` and `ReadLevel` are the five reads of
  `PolicyGateway.evaluate`, in the code's order.  A decision is the record of
  all that goes into `_decision_id`.  `Newest` is `get_request_payload`.  The
  `command` of an action row keeps the request it was built from, because the
  order that is acted on is that request's.
- **OutcomeVerification.** `step[v]` is `hydrate`, `judge`, `record`,
  `evidence`; `known[v]` is what the call has read.

## 3 What a step is

One step is one transaction, one provider call, one in-memory read of the
sandbox.  Where a transaction reads something before it takes the lock that
protects it, the read is a step of its own: these are the places where something
can come in between.  Wording, ids, hashes, amounts and time stamps are left out
unless a guard depends on them (the expiry of approvals and reservations, the
costs of the budget).  An idempotency key or an id that hashes a record is the
record itself.

Definitions marked `Mutant` are plausible bugs; they are used by no
specification.  `PROJECT.json` pairs each property with one that breaks it.

## 4 Runs, bounds and what they show

| Run | Instance | Checks |
|---|---|---|
| `autonomy` | 3 decisions of 2 actions, threshold 2, switch version up to 2, managers act up to profile version 4 | `BoundedNeedsStreak`, `CountersMatchEvidence`, `ControlVersionFingerprint` |
| `autonomy_transactions` | 2 threads, 2 decisions of one action, threshold 1, 4 calls | `AtomicControls` (refinement of `AutonomyControls`), `CallsReturn` |
| `gateway` | 2 threads of different requesters, a reroute of one order and two upgrades of another, 1 fault | `SagaExclusive`, `StatusMatchesSystems`, `EvidenceMatchesStatus`, `LostToCompensation`, `ImplementsLifecycle` |
| `gateway_retries` | 2 threads of one requester, a reroute and a split shipment, the switch set up to twice, no fault | `ClaimBeforeEffect`, `FailureEvidence`, `KillSwitchHolds`, `ActionsComplete` |
| `approvals` | 2 threads, 1 decision, 3 actors, time to live 1, time up to 3 | `ReportedIsStored`, `DecidedInTime`, `ImplementsLifecycle` |
| `budget` | 2 threads, requests of cost 1, 2 and 3 under a limit per run of 2, limits 2 and 4, 3 calls, 1 restart; two reviews that agree with their decision and seven that differ in one field | `WithinLimit`, `TotalsMatchRuns`, `NoHiddenSpend`, `SettledOnce`, `CallsWithinBudget`, `ImplementsLedger`, `AdvancedWithReview`, `PaidOncePerThread` |
| `workflow` | 2 threads, an event with a second version from another source about another order with a restricted product, and a conflicting replay in which the reroute gains exactly nothing, an analyst and a manager under strict identity, 2 decisions, one change of the switch and of the profile | `CurrentDecisions`, `ExecutedWithAuthority`, `WorthExecuting`, `ApprovalIsUsed`, `RegretIsRiskError` |
| `verification` | 1 gateway thread, 2 verifiers, an executed decision of any class, on time, late or not delivered, 1 fault | `OutcomeEvidence`, `EarnedByOutcomes`, `SucceededNotFailed`, `VerifiedSucceeded` |
| `gateway_duplicate`, `gateway_leak`, `budget_overrun`, `workflow_restricted` | as above | find the counterexamples of section 7 |

Each run of a module also checks its one type invariant, but for `verification`:
its types, `VerificationTypeOK`, are proved (section 6).

**Why these bounds.**  Every race in this code is between two calls that touch
one row, so two threads show it; a third thread can only repeat what one of the
two does, and the theorems of section 6 have no bound on the threads.  Two
decisions of one order and one of another are what `Sole` distinguishes; two of
one order that ask for the same write are what `LostToCompensation` is about.
Of the three decisions of `gateway` only the reroute is `Sole`, so this run says
of a reroute what `StatusMatchesSystems` means; for the upgrade and the split
shipment it rests on `StatusIsTruthful`, which is about any context.  In
`verification` one decision is executed in a behaviour, which shows that a
profile counts the right thing; that it adds up over several decisions of an
action is for the theorem `AutonomyIsEarned` to say.
Threshold 2 is the smallest that has a streak that is begun and not complete.
Two retries find a row that is `EXECUTING` or final.  One fault at any point
shows every crash; a second adds nothing to a state that keeps only rows, but
would multiply the states.  Expiry needs one tick beyond the time to live; a
late decision one more.  With limits 2 and 4 and costs 1 and 2 the budget is
exactly full, full but for one unit, and too small for two.  Symmetry is used
for threads only, and never in a run with a liveness property.

**Deadlock** is checked except where the bounds let the system stop: in
`autonomy` and `autonomy_transactions` (versions and calls are bounded) and in
`workflow` (decisions and versions are bounded, so that at the end no call
changes anything and no new one is taken up).

### The properties, and why they are not obvious

- `BoundedNeedsStreak`: promotion is checked in one operation, the streak ends
  in another; a failure must take the level with it.
- `CountersMatchEvidence`: totals and rows are written side by side, and the
  same evidence is reported again by retries and re-verifications.
- `ControlVersionFingerprint`: decisions are deduplicated by the version alone.
- `AtomicControls`: the evidence row is looked for before the profile is
  locked; the unique key decides between two that both missed it.
- `SagaExclusive`: holds for calls of different requesters, as the second
  command then has another fingerprint and `record` refuses it; it does not hold
  for identical commands (section 7).
- `StatusMatchesSystems`: relates the status to three systems of record through
  every failure before and after each of five writes.
- `LostToCompensation`: where several decisions ask for the same write of an
  order, one that succeeded may find its write gone, but only after another of
  them has compensated; seeding the order again for the second action undoes
  nothing.
- `ClaimBeforeEffect`, `EvidenceMatchesStatus`, `FailureEvidence`: the order of
  row, effects and evidence, which are written in separate transactions.
- `KillSwitchHolds`: the switch stops everything that had not passed the check.
- `ReportedIsStored`: of two deciders that both read `PENDING`, only the one
  whose decision is stored is told so.
- `TotalsMatchRuns`, `ImplementsLedger`: the two totals replace a sum that is
  never taken.  `NoHiddenSpend` and `CallsWithinBudget` are about money that is
  really spent: they count what the provider charged, known to the program or
  not.
- `AdvancedWithReview`: the answer of the model decides whether the workflow is
  called, in this call or in a later one that finds it stored; what is handed
  over must have a review of this very decision in the run rows.
- `PaidOncePerThread`: completed reviews are looked for before the budget is
  locked, and open ones not at all, so identical calls each pay; but no more of
  them than there are threads, however many calls follow.
- `CurrentDecisions`: five unlocked reads behave like one, but only because the
  versions are read first.  A decision made of mixed reads carries a version
  that is already old.
- `ExecutedWithAuthority`: the restriction is a property of the order in the
  request, the cost one of the decision; a newer request may arrive between the
  check and the claim, and the code is right only because it does not read it
  again.
- `WorthExecuting`: the policy says "no intervention has positive value" only
  of a selected `TAKE_NO_ACTION`; that an intervention which gains nothing is
  never executed rests on the tie-break of the optimiser.  The replay that ties
  is evaluated first in some behaviours, so the tie reaches the ledger.
- `ApprovalIsUsed`: everything that can refuse a command is checked before the
  approval is given, but for the kill switch.
- `RegretIsRiskError`: the option that is selected and the one that would have
  been best are computed in two files, with two formulas of risk, two ways to
  round and two ways to break ties; what lies between them is bounded by the
  error of the risk score alone, and three cents.
- `OutcomeEvidence`: what the autonomy controls count is the outcome that is
  stored, whichever of two verifications came first.
- `EarnedByOutcomes`: the outcome is stored in one transaction and counted in a
  later one, by whoever gets there first, while executions count their failures
  into the same profiles.  A profile still has no more verified successes than
  its action has verified outcomes, and as many once the evidence is in.  It is
  about the sum of both sources; that each row agrees with its outcome is
  `OutcomeEvidence`.
- `SucceededNotFailed`, `VerifiedSucceeded`: the verification writes into the
  sandbox before it judges it.  That neither loses a success after a restart nor
  turns a failure into one depends on the status the row had.

## 5 Fairness

`AutonomyTransactions!Spec` has weak fairness of every step of a thread and
strong fairness of `SelectForUpdate`.  The first says that the thread pool of
the API server keeps running an accepted request; the code has no wait other
than the lock.  The second is the lock queue of the database, which hands a row
lock on in the order of the requests.  `CallsReturn` needs both.

`ActionGateway!FairSpec`, used for `ActionsComplete`, has weak fairness of every
step of a thread: after the claim a call only runs transactions that take no
lock from another and provider calls that have time-outs.  The run is without
faults, since a thread that is lost leaves its row `EXECUTING` for ever, in the
model and in the code.

All other runs check safety only.

## 6 Proofs

TLAPS checks these for every value of the constants: any number of threads,
decisions, orders, actors, any threshold, any bound.

| Theorem | Says | Argument |
|---|---|---|
| `AutonomyControlsProofs!TypeCorrect` | `TypeOK` | each operation rewrites one row into a row |
| `...!PromotionKeepsStreak` | `BoundedNeedsStreak` | inductive with types: successes lengthen a streak, failures suspend |
| `...!CountersAreEvidence` | `CountersMatchEvidence` | inductive with types and the finiteness of the evidence; `AddRow`: a new row adds one to the cardinality of its class and to no other |
| `...!VersionIdentifiesPermission` | `ControlVersionFingerprint` | by cases on the operations |
| `AutonomyTransactionsProofs!TransactionsTypeCorrect` | `TypeOK` | `Typed` |
| `...!LockedRowsAreAtomic` | `AtomicControls`: every commit is an atomic operation, every other statement a stutter | `Typed`, `LockInv`, `VersionInv` |
| `ActionGatewayProofs!TypeCorrect` | `TypeOK` | with `CallsOK`: a thread that is at a step has a command |
| `...!OneSagaPerDecision` | `SagaExclusive`, assuming `DistinctRequesters` | `SagaInv` |
| `...!GatewayImplementsLifecycle` | `ImplementsLifecycle`, same assumption | every step is a claim, a completion or a stutter |
| `...!EvidenceIsTruthful` | `EvidenceMatchesStatus`, same assumption | a thread at `record_execution` holds the status of its row (`Persisted`) |
| `...!StatusIsTruthful` | `StatusMatchesSystems`, same assumption | `SystemsInv` |
| `...!SuccessIsLostOnlyToCompensation` | `LostToCompensation`, same assumption | `LossInv` |
| `...!KillSwitchStopsClaims` | `KillSwitchHolds` | by cases on the steps |
| `...!EffectsHaveRows` | `ClaimBeforeEffect` | a thread that is past the claim has a row |
| `...!FailuresAreEvidence` | `FailureEvidence`, assuming `MaxFaults = 0` | whoever wrote a failure last still has one to report (`Reporting`) |
| `ApprovalsProofs!TypeCorrect`, `ReportsAreStored`, `DecisionsAreInTime`, `ApprovalsImplementLifecycle` | the properties of the `approvals` run | `IInv` |
| `RecoveryWorkflowProofs!SelectionOutranks`, `SelectionWorth` | what is selected is feasible, outranks every other option, and is worth strictly more than doing nothing unless it is that | the order of values and priorities is total, so a best one exists |
| `...!TypeCorrect` | `TypeOK` | `Typed` |
| `...!WorthExecutingHolds` | `WorthExecuting` | `SelectionWorth`, and the reasons that lead to an execution |
| `...!AuthorityHolds` | `ExecutedWithAuthority` | `AuthorityInv` |
| `...!ApprovalIsUsedHolds` | `ApprovalIsUsed` | `UsedInv` |
| `...!CurrentDecisionsHold` | `CurrentDecisions` | `CurrentInv` |
| `...!RegretIsBounded` | the bound of `RegretIsRiskError` for every order, whatever its amounts | from `SelectionWorth` and the error of one rounding |
| `...!RegretIsRiskErrorHolds` | `RegretIsRiskError` | an instance of it for every decision |
| `OpenAIBudgetProofs!SettledOnceHolds` | `SettledOnce`, assuming `~ SlowCalls` | `RunInv` |
| `...!BudgetTypeCorrect`, `TotalsMatchRunsHolds`, `WithinLimitHolds` | `TypeOK`, `TotalsMatchRuns`, `WithinLimit`, assuming `~ SlowCalls` and finitely many requests | `MoneyInv` |
| `...!NoHiddenSpendHolds`, `CallsWithinBudgetHolds` | `NoHiddenSpend`, `CallsWithinBudget`, same assumptions | `BillInv`; `ExposureOK` |
| `...!BudgetImplementsLedger` | `ImplementsLedger`, same assumptions: every step is a step of the ledger or a stutter | `MovesMoney`, by cases on the steps |
| `ReviewAgentProofs!AgentKeepsBudget` | every behaviour of the agent is one of the budget | step by step: each step of the agent is one of the budget, with the review beside it |
| `...!AgentStaysWithinBudget` | all of the above of the agent, same assumptions | from it |
| `...!AgentTypeCorrect` | `AgentTypeOK`, same assumptions | `AgentTyped` |
| `...!AdvancedWithReviewHolds` | `AdvancedWithReview`, same assumption | `ReviewInv` |
| `...!PaidOncePerThreadHolds` | `PaidOncePerThread`, same assumption, finitely many threads | `PaidOK` |
| `OutcomeVerificationProofs!VerificationTypeCorrect` | `VerificationTypeOK` | `TypedInv`, on top of the gateway's types |
| `...!OutcomeEvidenceHolds` | `OutcomeEvidence` | `EvidenceInv`: what a verifier goes on to count is what is stored |
| `...!AutonomyIsEarned` | `EarnedByOutcomes`, assuming finitely many decisions | `CountInv`; `SuccessesAreOutcomes` maps the evidence rows of successes one to one into the verified outcomes |
| `...!SucceededIsNotFailed`, `VerifiedHasSucceeded` | `SucceededNotFailed`, `VerifiedSucceeded`, assuming `DistinctRequesters` | `TruthInv`, on top of `SystemsInv` |

**Why the invariants need strengthening.**

- `SagaExclusive` alone is not inductive: a thread about to insert must be
  unable to find its own command.  `FirstClaims` adds that: as long as a row is
  `NONE` it has no claimant, and a thread at `record` or `insert` is not the
  claimant of the row, because it looked by decision first and nobody else sends
  its command.  This is where `DistinctRequesters` is used.
- `StatusMatchesSystems` says nothing of an action in progress.  `SystemsInv`
  adds, for every step of the saga, what that step may rely on
  (`ThreadMatches`): before the first write the order is clean, from the
  reservation to the change it is reserved, and at the update the systems match
  the result that is about to be stored.  The frame is ownership: if no other
  decision writes the same kind of state of the order (`Sole`) and the target
  differs from what is there (`Changes`), the one thread of the decision is the
  only one that disturbs it (`OthersUntouched`, `OwnStep`).
- For approvals, `ReadOK` says what is left of a read when the row may have
  changed since: the time is past, the approval has been requested, and its
  requester, who never changes, is somebody else.  `StepsOfTheTable` then shows
  that every step of the program does one of four things to the table, and each
  theorem is a case analysis over those four.

- For the workflow, `AuthorityInv` says what a thread holds between the check
  and the claim (`Authorised`): the decision, the request it has read and who
  approved it; none of these is read again, so nothing that arrives can change
  them.  `UsedInv` keeps that the call of an approved decision is past all that
  could refuse it (`ActiveIsLater`).  `CurrentInv` follows the five reads: the
  versions a thread has read are never ahead of the controls (`Past`), and as
  long as they are equal all it has read since is what the controls say now
  (`Fresh`).  A stale decision stays stale because versions only grow.
- For the review agent, `RunInv` says that a thread works on an open run of its
  own that has not expired (`ThreadOK`, `Alone`), and that the attempts of a
  request are numbered without a gap (`AttemptsOK`), so that the next number is
  free: the started attempts and the calls that may start one are together no
  more than the calls.  `ReviewInv` says that what a thread holds, and what a
  completed row holds, agrees with its decision.  For `PaidOncePerThread`:
  either no attempt of the request is paid for, or those that are and the
  threads that may still pay are together no more than the threads (`PaidOK`).
- The budget keeps two running totals in the place of two sums.  `MoneyInv` says
  that they are the sums over the rows, and together within the limit.  A step
  leaves both alone, charges the stale runs, opens a run, or settles one
  (`MovesMoney`); what each does to a sum is a lemma of its own (`Opening`,
  `Settling`, `Reclaiming`).  `BillInv` says that no row counts less for a run
  than the provider charged for it: an answer costs at most its estimate, and a
  lost one leaves the whole reservation in the row.
  The laws of the sums (zeros, one element put in, a part and the rest, the
  larger function) are proved by well-founded induction over the strict
  inclusion of finite sets, at the head of the module; this is why the set of
  requests is assumed finite.
- `AtomicControls` needs two facts about a transaction in progress.  `LockInv`:
  a thread between `SELECT ... FOR UPDATE` and the commit holds the lock, alone,
  and the row still is what it has read; the evidence row it has looked for and
  not found may be there since, which the unique key catches at the flush.
  `VersionInv`: what the threads have yet to commit does not carry the versions
  beyond the bounds of the abstract module, so that its guards are met.
- `LostToCompensation` is about rows, but the write and its undoing come before
  the rows.  `LossInv` extends it to actions that are about to be stored: a
  success at `update` counts (`Succeeding`), and so does a compensation from
  the step that takes the write back (`Undoing`).  `OwnSuccess` shows that a
  success starts in force, `AgreedWrites` that another decision takes the write
  away only in the step that starts the explanation, `UndoneStays` that the
  explanation lasts: it becomes a final status.
- For `EarnedByOutcomes`, `CountInv` says that the counter of a profile is the
  number of its evidence rows of successes, and that each of them bears the
  identifier of an outcome.  `CountersAreEvidence` says the first of the
  controls alone; here it is shown again of the steps of two components that
  write to them.  `EvidenceInv` then leads from a row to the stored outcome and
  back.
- `TruthInv` says what a verifier knows: a final status it has read is still the
  status, a success that was brought back is in force until it is judged, and
  what is judged says so.  It needs `SystemsInv` to hold beside the verifiers,
  which themselves write into the sandbox: `HydrateWrites` shows that a
  hydration changes what a decision owns only for a succeeded one, which
  `SystemsInv` wants in force anyway.

**Assumptions of the theorems.**  `DistinctRequesters` and `~ SlowCalls` are
those of section 8; without the first `gateway_duplicate`, without the second
`budget_overrun` is a counterexample.  `MaxFaults = 0` means no restart and no
database error; with either the evidence may be lost (section 7).  Sets that
are counted or summed over are finite: the threads, the requests, the
decisions.
`AutonomyTransactions` names its own: a caller is not `NoCaller`, the row of the
switch is no action, and the bounds on versions, which only cut off the state
space, are beyond what `MaxCalls` calls can reach (`RoomAssumption`).  TLC
evaluates them in the run.

**Model-checked only.**  Liveness, `CallsReturn` and `ActionsComplete`: it rests
on fairness and `ENABLED`.  The four counterexamples of section 7 are runs.

## 7 Disagreements between the code and its documents

Found by a run and listed under `findings`:

- `budget_overrun`: `_finalise` reads the run before it locks the budget
  (`openai_budget.py:242`).  If the reservation has expired and is reclaimed in
  between, the run is charged twice and released twice; more than the limit is
  committed, and every later operation and the next startup are refused.  It
  needs a call that outlives its reservation.  `config.py:63` makes the time to
  live at least twice the request time-out, which is why the `budget` run
  excludes slow calls (`SlowCalls = FALSE`); what that does not cover is a
  thread that is delayed outside the request.
- `gateway_duplicate`: `execute` ignores which row `record` returned, so two
  concurrent identical commands both run the saga (`execution.py:78`).
- `gateway_leak`: a reroute that fails after its reservation took effect may end
  `FAILED` with the reservation held (`execution.py:148`).
- `workflow_restricted`: `submit` acts on the newest version of the event, which
  may be about a restricted product (`workflow.py:68`).

Seen while modelling, without a run of their own:

- A process that stops between the update of the action row and the evidence
  transaction never records the failure: a replay returns the row
  (`execution.py:62-68`, against `docs/adr/0003-evidence-bounded-autonomy.md:25`).
- The kill switch is read before the claim (`execution.py:59`), so an action can
  start just after the switch is set; `KillSwitchHolds` is the strongest form
  that holds.
- SQLite, the default database, ignores `FOR UPDATE`: a manager can promote a
  profile from a streak that has just ended, and two reservations can overwrite
  each other's totals.  The models take row locks as PostgreSQL's.
- Two decisions about one order can undo each other: the compensation of one
  takes back what the other achieved (`execution.py:201`).  Re-evaluation after
  a change of the controls makes such a second decision, with its own
  idempotency key.  `LostToCompensation` shows that among decisions about
  the same write this is the only way.
- The order of a command is that of the newest request with the event id, of any
  source (`workflow.py:68`), its action that of the decision.  Two sources that
  share an event id can send an action to another order than it was chosen for,
  or to one where it is not feasible.
- A decision to execute keeps its authority after its profile was suspended:
  neither `submit` nor `execute` look at the profile.
- An approval is used up when the kill switch refuses the action
  (`tests/test_autonomy.py:214` makes this so), and cannot be given again.  A
  process that stops between the approval and the claim uses it up as well:
  nothing but another call could execute it, and `approve` refuses that call.
- Verification of an action that is still `EXECUTING` stores an immutable
  outcome: `VERIFIED` if the write is in force at that moment, although it may
  be compensated afterwards, else `FAILED`.
- Request and decision are judged by the time their callers came with
  (`approval.py:55`, `approval.py:129`): a call that waits on the database can
  store an approval that has expired already, or a decision after the expiry.
  `DecidedInTime` is about the times in the row.
- A late delivery counts as a verified success; the reading of ADR-0003:22 as
  "delivered on time" is not what the code does.
- The time of verification is part of the outcome's fingerprint, so that a
  second `verify` conflicts even when it finds the same; in particular an outcome
  that was stored as `MANUAL_REVIEW_REQUIRED` stays.
- Concurrent identical reviews are each paid for: only completed runs are looked
  for (`openai_budget.py:82`, against
  `docs/adr/0004-budget-bounded-openai-review.md:57`), at most once per thread
  (`PaidOncePerThread`).
- A call whose run was reclaimed while the provider was thinking still advances
  the workflow, with a review that no row holds (`openai_agent.py:248`).
  `AdvancedWithReview` is shown for calls that do not outlive their reservation.

## 8 Assumptions

- Row locks and unique keys are PostgreSQL's; each transaction is atomic at its
  commit.
- `DistinctRequesters`: no two calls in progress send the same command.  The
  exclusive saga and all that rests on it hold under it only; without it,
  `gateway_duplicate`.
- `Sole` and `Changes` in the statements about systems of record: one decision
  per order and kind of write, and a write that asks for a change.
  `OrderContext` validates the latter for locations (`models.py:184`), not for
  carrier services: an upgrade to the service an order already has is outside
  of these statements.
- The estimate of a review covers every answer of the provider: one token per
  three bytes of input, the whole output ceiling (`openai_cost.py:44-63`).
- No call of the provider outlives its reservation, in the `budget` run.
- The deduplication key of an event repeats its source, id and version, as
  every producer in the repository makes it; and no request is without a source reference
  (`models.py` wants at least one), so `MISSING_SOURCE_REFERENCES` is
  unreachable.
- Amounts are exact cents and probabilities exact basis points, rounded half up.
  The code multiplies floats in the risk score before it rounds: a value that
  falls on a half may be rounded the other way there.
- One model and one prompt are in use, so that the identity of a review is its
  decision.
- The simulator offers neither `HUMAN_ESCALATION` nor anything the policy would
  escalate, so that these are not in the models.
- The role directory does not change while the program runs.  With strict local
  identity off, an unknown actor may claim any role: an actor of the `approvals`
  run does, the `workflow` run is strict.

## 9 Not modelled, and the plan

Left out on purpose: the trained scorer, its training and its features
(floating-point statistics without state), the random generators of the
synthetic data and the aggregates of the reports (batch tools), the text of
prompts and of reviews, feedback (append-only, read by nobody), configuration,
metrics and logging, the HTTP layer and the console (they translate calls; their
threads are the models' threads), and migrations.

Done, most important first: the autonomy controls and their transactions; the
gateway against its life cycle; the approvals; the budget against its ledger;
the workflow with the policy, the ledger and the inbox; outcome verification
composed with the gateway; the pure pipeline inside the workflow, the synthetic
truth beside it; the review agent on top of the budget; identity; and proofs for
each of them as far as section 6 says.

Left, in this order:

1. Of the hazards without a property: a decision to execute whose profile
   has been suspended since, a verification during the saga, a review of a run
   that was reclaimed.  In each the code does what section 7 says; what it still
   guarantees could be stated.
2. Without `Sole`: what a failed or compensated action has left behind when
   several decisions ask for the same write, next to `LostToCompensation`.
3. Progress of the workflow: every accepted call returns, under the fairness of
   the thread pool.
