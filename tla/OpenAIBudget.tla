---------------------------- MODULE OpenAIBudget ----------------------------
(***************************************************************************)
(* The budget ledger of promiseguard/openai_budget.py and the calls that   *)
(* openai_agent.py makes of it: look for a completed review, reserve the   *)
(* estimated cost, ask the provider, settle the run, report the budget.    *)
(* What the reviews say, and what is done with them, is in ReviewAgent.tla.*)
(*                                                                         *)
(* The budget row is locked FOR UPDATE from the first statement that needs *)
(* it to the commit, so what follows the lock in a transaction is one step *)
(* here; what a transaction reads before it takes the lock is a step of    *)
(* its own.  Costs are whole numbers of a small unit.                      *)
(***************************************************************************)
EXTENDS Integers, FiniteSets, Functions

CONSTANTS
  Threads,         \* request threads
  Requests,        \* request keys: decision, model, prompt and context
  Estimate,        \* [Requests -> Nat \ {0}]: conservative cost of a request
  PerRunLimit,     \* per_run_limit_usd
  Limits,          \* values limit_usd is configured to
  SlowCalls,       \* can a call outlive its reservation_ttl?
  NoRequest,       \* request of a thread that serves no call
  MaxCalls,        \* bound: calls of run in a behaviour
  MaxRestarts      \* bound: restarts in a behaviour

ASSUME EstimateAssumption == Estimate \in [Requests -> Nat \ {0}]
ASSUME LimitsAssumption ==
  /\ Limits \subseteq Nat
  /\ PerRunLimit \in Nat
  /\ \A l \in Limits : PerRunLimit <= l
ASSUME NoRequestAssumption == NoRequest \notin Requests
ASSUME BudgetBoundsAssumption ==
  SlowCalls \in BOOLEAN /\ MaxCalls \in Nat /\ MaxRestarts \in Nat

VARIABLES
  limit, reserved, spent,  \* columns of the budget row
  runs,      \* run rows: status and actual cost of <<request, attempt>>
  expired,   \* runs whose reservation_expires_at has passed
  pc,        \* next step of each thread
  run,       \* run each thread works on; its request before it has one
  answer,    \* status and cost the thread is about to settle its run with
  billed,    \* what the provider charged for each run
  calls, restarts

budget == <<limit, reserved, spent>>
bounds == <<calls, restarts>>
vars == <<limit, reserved, spent, runs, expired, pc, run, answer, billed,
          calls, restarts>>

Attempts == 1 .. MaxCalls
Runs == Requests \X Attempts
EstimatedCost(r) == Estimate[r[1]]

Settled == {"COMPLETED", "REJECTED", "FAILED"}
Statuses == {"NONE", "RESERVED"} \cup Settled
NoRun == [status |-> "NONE", actual_cost |-> 0]
NoAnswer == NoRun
Unstarted(q) == <<q, 0>>

Init ==
  /\ limit \in Limits
  /\ reserved = 0
  /\ spent = 0
  /\ runs = [r \in Runs |-> NoRun]
  /\ expired = {}
  /\ pc = [t \in Threads |-> "idle"]
  /\ run = [t \in Threads |-> Unstarted(NoRequest)]
  /\ answer = [t \in Threads |-> NoAnswer]
  /\ billed = [r \in Runs |-> 0]
  /\ calls = 0
  /\ restarts = 0

----------------------------------------------------------------------------

Goto(t, step) == pc' = [pc EXCEPT ![t] = step]

Return(t) ==
  /\ Goto(t, "idle")
  /\ run' = [run EXCEPT ![t] = Unstarted(NoRequest)]
  /\ answer' = [answer EXCEPT ![t] = NoAnswer]

Call(t, q) ==
  /\ pc[t] = "idle"
  /\ calls < MaxCalls
  /\ calls' = calls + 1
  /\ Goto(t, "find_completed")
  /\ run' = [run EXCEPT ![t] = Unstarted(q)]
  /\ UNCHANGED <<budget, runs, expired, answer, billed, restarts>>

(* A read of the budget from the console.                                   *)
Inspect(t) ==
  /\ pc[t] = "idle"
  /\ Goto(t, "state")
  /\ UNCHANGED <<budget, runs, expired, run, answer, billed, bounds>>

(* Mutant: a completed review is not looked for.                            *)
NeverCompleted(q) == FALSE

Completed(q) == \E a \in Attempts : runs[<<q, a>>].status = "COMPLETED"

FindCompleted(t) ==
  LET q == run[t][1] IN
  /\ pc[t] = "find_completed"
  /\ \/ Completed(q) /\ Goto(t, "advance") /\ UNCHANGED <<run, answer>>
     \/ ~ Completed(q) /\ Estimate[q] > PerRunLimit /\ Return(t)
     \/ /\ ~ Completed(q)
        /\ Estimate[q] <= PerRunLimit
        /\ Goto(t, "reserve")
        /\ UNCHANGED <<run, answer>>
  /\ UNCHANGED <<budget, runs, expired, billed, bounds>>

----------------------------------------------------------------------------
(* What happens under the lock of the budget row                            *)

(* _locked_budget refuses to go on once more is committed than configured.  *)
Accepted == spent + reserved <= limit

Minus(a, b) == IF a > b THEN a - b ELSE 0

StaleRuns == {r \in expired : runs[r].status = "RESERVED"}
StaleCost == SumFunctionOnSet([r \in Runs |-> EstimatedCost(r)], StaleRuns)

(* Mutant: the reservations are freed and nothing is charged for them.      *)
FreedStale == spent

SpentWithStale == spent + StaleCost
ReservedWithoutStale == Minus(reserved, StaleCost)

ReclaimedRuns ==
  [r \in Runs |-> IF r \in StaleRuns
                  THEN [status |-> "FAILED", actual_cost |-> EstimatedCost(r)]
                  ELSE runs[r]]

(* Mutants: the check forgets what has been spent already, or the run that  *)
(* is about to be reserved.                                                 *)
FitsReserved(q) == Accepted /\ ReservedWithoutStale + Estimate[q] <= limit

FitsBefore(q) == Accepted /\ SpentWithStale + ReservedWithoutStale <= limit

Fits(q) ==
  Accepted /\ SpentWithStale + ReservedWithoutStale + Estimate[q] <= limit

(* Mutants: attempts are not counted, or counted from zero.                 *)
FirstAttempt(q) == 1

AttemptsSoFar(q) ==
  Cardinality({a \in Attempts : runs[<<q, a>>].status # "NONE"})

NextAttempt(q) ==
  1 + Cardinality({a \in Attempts : runs[<<q, a>>].status # "NONE"})

(* A refusal rolls the reclaim back with everything else.                   *)
Reserve(t) ==
  LET q == run[t][1]
      r == <<q, NextAttempt(q)>>
  IN  /\ pc[t] = "reserve"
      /\ \/ /\ Fits(q)
            /\ reserved' = ReservedWithoutStale + Estimate[q]
            /\ spent' = SpentWithStale
            /\ runs' = [ReclaimedRuns EXCEPT ![r] =
                          [status |-> "RESERVED", actual_cost |-> 0]]
            /\ run' = [run EXCEPT ![t] = r]
            /\ Goto(t, "parse_review")
            /\ UNCHANGED answer
         \/ /\ ~ Fits(q)
            /\ Return(t)
            /\ UNCHANGED <<reserved, spent, runs>>
      /\ UNCHANGED <<limit, expired, billed, bounds>>

State(t) ==
  /\ pc[t] = "state"
  /\ \/ /\ Accepted
        /\ reserved' = ReservedWithoutStale
        /\ spent' = SpentWithStale
        /\ runs' = ReclaimedRuns
     \/ ~ Accepted /\ UNCHANGED <<reserved, spent, runs>>
  /\ Return(t)
  /\ UNCHANGED <<limit, expired, billed, bounds>>

----------------------------------------------------------------------------
(* The provider and the end of a run                                        *)

(* Mutant: a failed request is settled for nothing.                         *)
ChargeNothing(r, cost) == [status |-> "FAILED", actual_cost |-> 0]

(* No answer came: whatever the provider charged, the run is charged the    *)
(* reservation.  The estimate covers every answer: one token per three      *)
(* bytes of input and the whole output ceiling (openai_cost.py).            *)
RequestFailed(r, cost) == [status |-> "FAILED", actual_cost |-> EstimatedCost(r)]

Answers(r, cost) ==
  { [status |-> "COMPLETED", actual_cost |-> cost],
    [status |-> "REJECTED", actual_cost |-> cost],
    RequestFailed(r, cost) }

ParseReview(t) ==
  LET r == run[t] IN
  /\ pc[t] = "parse_review"
  /\ \E cost \in 0 .. EstimatedCost(r) :
       /\ billed' = [billed EXCEPT ![r] = cost]
       /\ \E a \in Answers(r, cost) : answer' = [answer EXCEPT ![t] = a]
  /\ Goto(t, "get_run")
  /\ UNCHANGED <<budget, runs, expired, run, bounds>>

AfterSettling(t) ==
  \/ /\ answer[t].status = "COMPLETED"
     /\ Goto(t, "advance")
     /\ run' = [run EXCEPT ![t] = Unstarted(run[t][1])]
     /\ answer' = [answer EXCEPT ![t] = NoAnswer]
  \/ answer[t].status # "COMPLETED" /\ Return(t)

(* _finalise reads the run before it locks the budget.                      *)
GetRun(t) ==
  /\ pc[t] = "get_run"
  /\ \/ /\ runs[run[t]].status = "RESERVED"
        /\ Goto(t, "finalise")
        /\ UNCHANGED <<run, answer>>
     \/ /\ runs[run[t]].status # "RESERVED"
        /\ AfterSettling(t)
  /\ UNCHANGED <<budget, runs, expired, billed, bounds>>

(* Mutant: the reservation stays in the total.                              *)
ReservedAsBefore(r) == reserved

ReservedWithout(r) == Minus(reserved, EstimatedCost(r))

(* The row that was read is not read again under the lock.                  *)
Finalise(t) ==
  LET r == run[t] IN
  /\ pc[t] = "finalise"
  /\ \/ /\ Accepted
        /\ reserved' = ReservedWithout(r)
        /\ spent' = spent + answer[t].actual_cost
        /\ runs' = [runs EXCEPT ![r] = answer[t]]
        /\ AfterSettling(t)
     \/ /\ ~ Accepted
        /\ Return(t)
        /\ UNCHANGED <<reserved, spent, runs>>
  /\ UNCHANGED <<limit, expired, billed, bounds>>

(* With the review the workflow may be advanced, and that may raise.         *)
Advance(t) ==
  /\ pc[t] = "advance"
  /\ \/ Goto(t, "state") /\ UNCHANGED <<run, answer>>
     \/ Return(t)
  /\ UNCHANGED <<budget, runs, expired, billed, bounds>>

----------------------------------------------------------------------------
(* Time and restarts                                                        *)

InUse(r) == \E t \in Threads : run[t] = r

Expire(r) ==
  /\ runs[r].status = "RESERVED"
  /\ r \notin expired
  /\ SlowCalls \/ ~ InUse(r)
  /\ expired' = expired \cup {r}
  /\ UNCHANGED <<budget, runs, pc, run, answer, billed, bounds>>

(* Startup calls state, which takes over the limit it is configured with    *)
(* and fails when more than that is committed.                              *)
Restart(l) ==
  /\ restarts < MaxRestarts
  /\ restarts' = restarts + 1
  /\ spent + reserved <= l
  /\ limit' = l
  /\ reserved' = ReservedWithoutStale
  /\ spent' = SpentWithStale
  /\ runs' = ReclaimedRuns
  /\ pc' = [t \in Threads |-> "idle"]
  /\ run' = [t \in Threads |-> Unstarted(NoRequest)]
  /\ answer' = [t \in Threads |-> NoAnswer]
  /\ UNCHANGED <<expired, billed, calls>>

Step(t) == \/ FindCompleted(t) \/ Reserve(t) \/ ParseReview(t)
           \/ GetRun(t) \/ Finalise(t) \/ Advance(t) \/ State(t)

Next ==
  \/ \E t \in Threads, q \in Requests : Call(t, q)
  \/ \E t \in Threads : Inspect(t)
  \/ \E t \in Threads : Step(t)
  \/ \E r \in Runs : Expire(r)
  \/ \E l \in Limits : Restart(l)

Spec == Init /\ [][Next]_vars

----------------------------------------------------------------------------
(* Properties                                                               *)

Outcomes == [status : Statuses, actual_cost : Nat]

TypeOK ==
  /\ limit \in Limits /\ reserved \in Nat /\ spent \in Nat
  /\ runs \in [Runs -> Outcomes]
  /\ expired \subseteq Runs
  /\ pc \in [Threads -> {"idle", "find_completed", "reserve", "parse_review",
                         "get_run", "finalise", "advance", "state"}]
  /\ run \in [Threads -> (Requests \cup {NoRequest}) \X (Attempts \cup {0})]
  /\ \A t \in Threads :
       pc[t] \in {"parse_review", "get_run", "finalise"} => run[t] \in Runs
  /\ answer \in [Threads -> Outcomes]
  /\ billed \in [Runs -> Nat]

TotalBilled == SumFunctionOnSet(billed, Runs)

Ledger == INSTANCE BudgetLedger

(* Whatever the provider has charged is in the totals, or will be charged   *)
(* there: no crash, lost answer, reclaim or race of the two brings back     *)
(* budget that has been used (reserve, _finalise, _reclaim_stale).          *)
NoHiddenSpend == TotalBilled <= spent + reserved

(* The provider is asked only when all the runs together, whatever becomes  *)
(* of them, cost no more than the limit.                                    *)
CallsWithinBudget ==
  [][\A t \in Threads :
       pc[t] = "reserve" /\ pc'[t] = "parse_review" => Ledger!Exposure' <= limit]_vars

(* More than the limit is never committed; beyond it every operation of the *)
(* budget, and the next startup, fails.                                     *)
WithinLimit == spent + reserved <= limit

(* The totals of the budget row are those of the run rows.                  *)
TotalsMatchRuns ==
  LET HasStatus(S) == {r \in Runs : runs[r].status \in S} IN
  /\ reserved = SumFunctionOnSet(Ledger!Costs, HasStatus({"RESERVED"}))
  /\ spent = SumFunctionOnSet(Ledger!Costs, HasStatus(Settled))

(* A run is settled once: what a thread read before it took the lock still  *)
(* holds when it writes.                                                    *)
SettledOnce ==
  [][\A r \in Runs : runs[r].status \in Settled => runs'[r] = runs[r]]_vars

(* As long as no call outlives its reservation the two totals do what a     *)
(* look at every run row would do.                                          *)
ImplementsLedger == Ledger!Spec
=============================================================================
