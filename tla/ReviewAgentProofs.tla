------------------------- MODULE ReviewAgentProofs -------------------------
(* Theorems about ReviewAgent, for every number of threads and requests,    *)
(* every answer of the model, every price and every limit, as long as no    *)
(* call outlives its reservation.                                           *)
EXTENDS ReviewAgent, OpenAIBudgetProofs

USE EstimateAssumption, NoRequestAssumption, BudgetBoundsAssumption

----------------------------------------------------------------------------
(* The budget below the agent                                               *)

LEMMA AgentMoves == [AgentNext]_agentVars => [Next]_vars
<1> SUFFICES ASSUME [AgentNext]_agentVars PROVE [Next]_vars
  OBVIOUS
<1>1. CASE UNCHANGED agentVars
  BY <1>1 DEF agentVars
<1>2. CASE \E t \in Threads, q \in Requests, advance_workflow \in BOOLEAN :
             RequestReview(t, q, advance_workflow)
  BY <1>2 DEF RequestReview, Next
<1>3. CASE \E t \in Threads :
             \/ ReuseReview(t) \/ Reviewed(t) \/ SettleReview(t)
             \/ AdvanceIfRequested(t) \/ OtherStep(t)
  BY <1>3 DEF ReuseReview, Reviewed, SettleReview, AdvanceIfRequested, OtherStep,
              Next, Step
<1>4. CASE \E r \in Runs : Expire(r) /\ UNCHANGED agent
  BY <1>4 DEF Next
<1>5. CASE \E l \in Limits : AgentRestart(l)
  BY <1>5 DEF AgentRestart, Next
<1> QED
  BY <1>1, <1>2, <1>3, <1>4, <1>5 DEF AgentNext

(* Whatever the agent does is a step of the budget or none of its          *)
(* business: every theorem about the budget holds of the agent's.           *)
THEOREM AgentKeepsBudget == AgentSpec => Spec
<1>1. AgentInit => Init
  BY DEF AgentInit
<1> QED
  BY <1>1, AgentMoves, PTL DEF AgentSpec, Spec

(* The agent stays within the limit, the totals are those of the run rows   *)
(* and hide nothing the provider has charged.                               *)
THEOREM AgentStaysWithinBudget ==
  ASSUME ~ SlowCalls, IsFiniteSet(Requests)
  PROVE  AgentSpec => /\ [](WithinLimit /\ TotalsMatchRuns /\ NoHiddenSpend)
                      /\ CallsWithinBudget /\ SettledOnce /\ ImplementsLedger
BY AgentKeepsBudget, WithinLimitHolds, TotalsMatchRunsHolds, NoHiddenSpendHolds,
   CallsWithinBudgetHolds, SettledOnceHolds, BudgetImplementsLedger, PTL

LEMMA AgentRunInvariant == ASSUME ~ SlowCalls PROVE AgentSpec => []RunInv
BY AgentKeepsBudget, RunInvariant, PTL

(* The variables of the agent keep their types: a reply is one the model    *)
(* gave, and only decisions that were requested are handed over.            *)
AgentTyped ==
  /\ wanted \in [Threads -> BOOLEAN]
  /\ reply \in [Threads -> Reviews \cup {NoReview}]
  /\ review \in [Runs -> Reviews \cup {NoReview}]
  /\ submitted \subseteq Requests

LEMMA AgentTypedStep ==
  ASSUME RunInv, AgentTyped, [AgentNext]_agentVars PROVE AgentTyped'
<1> USE DEF AgentTyped
<1>1. ASSUME NEW t \in Threads, NEW q \in Requests, NEW advance_workflow \in BOOLEAN,
             RequestReview(t, q, advance_workflow)
      PROVE  AgentTyped'
  BY <1>1 DEF RequestReview
<1>2. ASSUME NEW t \in Threads, Forget(t)
      PROVE  /\ wanted' \in [Threads -> BOOLEAN]
             /\ reply' \in [Threads -> Reviews \cup {NoReview}]
  BY <1>2 DEF Forget
<1>3. ASSUME NEW t \in Threads, ReuseReview(t) PROVE AgentTyped'
  <2>1. \A r \in CompletedRuns(run[t][1]) : review[r] \in Reviews \cup {NoReview}
    BY DEF CompletedRuns
  <2> QED
    BY <1>2, <1>3, <2>1 DEF ReuseReview
<1>4. ASSUME NEW t \in Threads, Reviewed(t) PROVE AgentTyped'
  BY <1>4 DEF Reviewed
<1>5. ASSUME NEW t \in Threads, SettleReview(t) PROVE AgentTyped'
  BY <1>2, <1>5 DEF SettleReview
<1>6. ASSUME NEW t \in Threads, AdvanceIfRequested(t) PROVE AgentTyped'
  <2>1. run[t][1] \in Requests
    BY <1>6 DEF AdvanceIfRequested, Advance, RunInv, ThreadOK
  <2> QED
    BY <1>2, <1>6, <2>1 DEF AdvanceIfRequested
<1>7. ASSUME NEW t \in Threads, OtherStep(t) PROVE AgentTyped'
  BY <1>2, <1>7 DEF OtherStep
<1>8. ASSUME NEW l \in Limits, AgentRestart(l) PROVE AgentTyped'
  BY <1>8 DEF AgentRestart
<1>9. CASE UNCHANGED agent
  BY <1>9 DEF agent
<1> QED
  BY <1>1, <1>3, <1>4, <1>5, <1>6, <1>7, <1>8, <1>9 DEF AgentNext, agentVars

THEOREM AgentTypeCorrect ==
  ASSUME ~ SlowCalls, IsFiniteSet(Requests) PROVE AgentSpec => []AgentTypeOK
<1>1. AgentInit => AgentTyped
  BY DEF AgentInit, AgentTyped
<1>2. RunInv /\ AgentTyped /\ [AgentNext]_agentVars => AgentTyped'
  BY AgentTypedStep
<1>3. TypeOK /\ AgentTyped => AgentTypeOK
  BY DEF AgentTyped, AgentTypeOK
<1> QED
  BY <1>1, <1>2, <1>3, AgentRunInvariant, AgentKeepsBudget, BudgetTypeCorrect, PTL
     DEF AgentSpec

----------------------------------------------------------------------------
(* Reviews                                                                  *)

Done(q) == {a \in Attempts : runs[<<q, a>>].status = "COMPLETED"}

SameDone ==
  \A r \in Runs : runs'[r].status = "COMPLETED" <=> runs[r].status = "COMPLETED"

(* A thread holds a review that agrees once its run is to be completed, and *)
(* while the workflow is to be advanced the run rows hold one as well.      *)
ReviewOK(t) ==
  /\ pc[t] \in {"get_run", "finalise"} /\ answer[t].status = "COMPLETED"
       => Agrees(reply[t], run[t][1])
  /\ pc[t] = "advance" => Agrees(reply[t], run[t][1]) /\ Done(run[t][1]) # {}

ReviewInv ==
  /\ DOMAIN reply = Threads /\ DOMAIN review = Runs
  /\ \A r \in Runs : runs[r].status = "COMPLETED" => Agrees(review[r], r[1])
  /\ \A t \in Threads : ReviewOK(t)
  /\ \A q \in submitted :
       q \in Requests /\ ExpectedNext(Disposition[q]) = "SUBMIT_DECISION" /\ Done(q) # {}

(* A run that is reserved or reclaimed is not completed.                    *)
LEMMA NoneCompleted ==
  ASSUME RunInv, [Next]_vars,
         UNCHANGED runs \/ runs' = ReclaimedRuns \/ \E t \in Threads : Reserve(t)
  PROVE  SameDone
<1>1. /\ runs \in [Runs -> Outcomes] /\ ReclaimedRuns \in [Runs -> Outcomes]
      /\ \A r \in Runs : ReclaimedRuns[r].status = "COMPLETED" <=> runs[r].status = "COMPLETED"
  BY Reclaims DEF RunInv, Typed, ReclaimedRuns, Settled, StaleRuns
<1>2. ASSUME NEW t \in Threads, Reserve(t), NEW r \in Runs
      PROVE  runs'[r].status = "COMPLETED" <=> runs[r].status = "COMPLETED"
  <2>1. CASE runs[r].status = "COMPLETED"
    BY <1>2, <2>1, SettledStay DEF Settled
  <2>2. CASE runs[r].status # "COMPLETED"
    <3>1. ReclaimedRuns[r].status # "COMPLETED"
      BY <1>1, <2>2
    <3>2. \/ UNCHANGED runs
          \/ runs' = [ReclaimedRuns EXCEPT ![<<run[t][1], NextAttempt(run[t][1])>>] =
                        [status |-> "RESERVED", actual_cost |-> 0]]
      BY <1>2 DEF Reserve
    <3> QED
      BY <1>1, <2>2, <3>1, <3>2
  <2> QED
    BY <2>1, <2>2
<1>3. CASE UNCHANGED runs
  BY <1>3 DEF SameDone
<1>4. CASE runs' = ReclaimedRuns
  BY <1>1, <1>4 DEF SameDone
<1> QED
  BY <1>2, <1>3, <1>4 DEF SameDone

LEMMA DoneStay ==
  ASSUME RunInv, [Next]_vars, NEW q \in Requests PROVE Done(q) \subseteq Done(q)'
<1> SUFFICES ASSUME NEW a \in Attempts, runs[<<q, a>>].status = "COMPLETED"
             PROVE  runs'[<<q, a>>].status = "COMPLETED"
  BY DEF Done
<1>1. <<q, a>> \in Runs
  BY DEF Runs
<1> QED
  BY <1>1, SettledStay DEF Settled

(* What a step of one thread leaves alone.                                  *)
LEMMA Others ==
  ASSUME RunInv, NEW t \in Threads,
         Inspect(t) \/ Step(t) \/ \E q \in Requests : Call(t, q),
         NEW u \in Threads \ {t}
  PROVE  pc'[u] = pc[u] /\ run'[u] = run[u] /\ answer'[u] = answer[u]
<1>1. DOMAIN pc = Threads /\ DOMAIN run = Threads /\ DOMAIN answer = Threads
  BY DEF RunInv, Typed
<1> QED
  BY <1>1 DEF Inspect, Step, Call, FindCompleted, Reserve, ParseReview, GetRun,
              Finalise, Advance, State, AfterSettling, Return, Goto

LEMMA ReviewStep ==
  ASSUME RunInv, [Next]_vars, ReviewInv, NEW t \in Threads,
         Inspect(t) \/ Step(t) \/ \E q \in Requests : Call(t, q),
         ReviewOK(t)',
         \A u \in Threads \ {t} : reply'[u] = reply[u],
         DOMAIN reply' = Threads, DOMAIN review' = Runs,
         \A r \in Runs : runs'[r].status = "COMPLETED" => Agrees(review'[r], r[1]),
         \A q \in submitted' \ submitted :
           q \in Requests /\ ExpectedNext(Disposition[q]) = "SUBMIT_DECISION" /\ Done(q) # {}
  PROVE  ReviewInv'
<1>1. ASSUME NEW u \in Threads PROVE ReviewOK(u)'
  <2>1. CASE u # t
    <3>1. ReviewOK(u)
      BY DEF ReviewInv
    <3>2. PICK q : q = run[u][1]
      OBVIOUS
    <3>3. pc[u] = "advance" => q \in Requests
      BY <3>2 DEF RunInv, ThreadOK
    <3>4. pc'[u] = pc[u] /\ run'[u][1] = q /\ answer'[u] = answer[u] /\ reply'[u] = reply[u]
      BY <2>1, <3>2, Others
    <3>5. pc'[u] = "advance" => Agrees(reply[u], q) /\ Done(q)' # {}
      BY <3>1, <3>2, <3>3, <3>4, DoneStay DEF ReviewOK
    <3>6. pc'[u] \in {"get_run", "finalise"} /\ answer'[u].status = "COMPLETED"
            => Agrees(reply[u], q)
      BY <3>1, <3>2, <3>4 DEF ReviewOK
    <3>7. Done(run[u][1])' = Done(q)'
      BY <3>4 DEF Done
    <3>8. Agrees(reply[u], q) => Agrees(reply[u], run[u][1])'
      BY <3>4 DEF Agrees
    <3> QED
      BY <3>5, <3>6, <3>7, <3>8 DEF ReviewOK
  <2> QED
    BY <2>1
<1>2. ASSUME NEW q \in submitted'
      PROVE  q \in Requests /\ ExpectedNext(Disposition[q]) = "SUBMIT_DECISION" /\ Done(q)' # {}
  <2>1. q \in Requests /\ ExpectedNext(Disposition[q]) = "SUBMIT_DECISION" /\ Done(q) # {}
    BY DEF ReviewInv
  <2> QED
    BY <2>1, DoneStay
<1> QED
  BY <1>1, <1>2 DEF ReviewInv

LEMMA ReviewNext ==
  ASSUME RunInv, ReviewInv, [AgentNext]_agentVars PROVE ReviewInv'
<1> USE DEF Owning, StepNames
<1>0. /\ [Next]_vars
      /\ runs \in [Runs -> Outcomes] /\ DOMAIN answer = Threads
      /\ DOMAIN pc = Threads /\ DOMAIN run = Threads
      /\ DOMAIN reply = Threads /\ DOMAIN review = Runs
      /\ \A t \in Threads : ThreadOK(t) /\ ReviewOK(t)
      /\ \A r \in Runs : runs[r].status = "COMPLETED" => Agrees(review[r], r[1])
  BY AgentMoves DEF RunInv, Typed, ReviewInv
<1>1. ASSUME SameDone, review' = review
      PROVE  \A r \in Runs : runs'[r].status = "COMPLETED" => Agrees(review'[r], r[1])
  BY <1>0, <1>1 DEF SameDone
<1>2. ASSUME NEW t \in Threads, NEW q \in Requests, NEW advance_workflow \in BOOLEAN,
             RequestReview(t, q, advance_workflow)
      PROVE  ReviewInv'
  <2>1. /\ Call(t, q) /\ UNCHANGED <<reply, review, submitted, runs>>
        /\ pc'[t] = "find_completed"
    BY <1>0, <1>2 DEF RequestReview, Call, Goto
  <2>2. ReviewOK(t)' /\ SameDone
    BY <1>0, <2>1, NoneCompleted DEF ReviewOK
  <2> QED
    BY <1>0, <1>1, <2>1, <2>2, ReviewStep
<1>3. ASSUME NEW t \in Threads, ReuseReview(t) PROVE ReviewInv'
  <2>1. /\ FindCompleted(t) /\ UNCHANGED <<review, submitted, runs>>
        /\ pc[t] = "find_completed"
    BY <1>3 DEF ReuseReview, FindCompleted
  <2>2. PICK q \in Requests : q = run[t][1]
    BY <1>0, <2>1 DEF ThreadOK
  <2>3. SameDone
    BY <1>0, <2>1, NoneCompleted
  <2>4. CASE pc'[t] = "advance"
    <3>1. run' = run
      BY <1>0, <2>1, <2>4 DEF FindCompleted, Goto, Return
    <3>2. PICK r \in Runs : /\ r[1] = q /\ runs[r].status = "COMPLETED"
                            /\ reply' = [reply EXCEPT ![t] = review[r]]
      BY <1>3, <2>2, <2>4 DEF ReuseReview, CompletedRuns
    <3>3. Agrees(reply'[t], q)
      BY <1>0, <3>2
    <3>4. PICK a \in Attempts : r = <<q, a>>
      BY <3>2 DEF Runs
    <3>5. a \in Done(q)
      BY <3>2, <3>4 DEF Done
    <3>6. Done(q)' # {} /\ run'[t][1] = q
      BY <1>0, <2>2, <3>1, <3>5, DoneStay
    <3>7. Done(run[t][1])' = Done(q)'
      BY <3>6 DEF Done
    <3>8. Agrees(reply[t], run[t][1])'
      BY <3>3, <3>6 DEF Agrees
    <3>9. ReviewOK(t)'
      BY <2>4, <3>6, <3>7, <3>8 DEF ReviewOK
    <3> QED
      BY <1>0, <1>1, <2>1, <2>3, <3>2, <3>9, ReviewStep DEF Step
  <2>5. CASE pc'[t] # "advance"
    <3>1. pc'[t] \in {"idle", "reserve"}
      BY <1>0, <2>1, <2>5 DEF FindCompleted, Goto, Return
    <3>2. ReviewOK(t)'
      BY <3>1 DEF ReviewOK
    <3>3. DOMAIN reply' = Threads /\ \A u \in Threads \ {t} : reply'[u] = reply[u]
      BY <1>0, <1>3, <2>5 DEF ReuseReview, Forget
    <3> QED
      BY <1>0, <1>1, <2>1, <2>3, <3>2, <3>3, ReviewStep DEF Step
  <2> QED
    BY <2>4, <2>5
<1>4. ASSUME NEW t \in Threads, Reviewed(t) PROVE ReviewInv'
  <2>1. /\ ParseReview(t) /\ UNCHANGED <<review, submitted, runs, run>>
        /\ pc'[t] = "get_run"
    BY <1>0, <1>4 DEF Reviewed, ParseReview, Goto
  <2>2. SameDone
    BY <1>0, <2>1, NoneCompleted
  <2>3. /\ DOMAIN reply' = Threads /\ \A u \in Threads \ {t} : reply'[u] = reply[u]
        /\ answer'[t].status = "COMPLETED" => Agrees(reply'[t], run[t][1])
    <3>1. CASE answer'[t].status = "FAILED" /\ UNCHANGED reply
      BY <1>0, <3>1
    <3>2. ASSUME NEW answered \in Reviews,
                 answer'[t].status =
                   IF Agrees(answered, run[t][1]) THEN "COMPLETED" ELSE "REJECTED",
                 reply' = [reply EXCEPT
                   ![t] = IF Agrees(answered, run[t][1]) THEN answered ELSE NoReview]
          PROVE  <2>3!:
      BY <1>0, <3>2
    <3> QED
      BY <1>4, <3>1, <3>2 DEF Reviewed
  <2>4. Agrees(reply'[t], run[t][1]) => Agrees(reply[t], run[t][1])'
    BY <2>1 DEF Agrees
  <2>5. ReviewOK(t)'
    BY <2>1, <2>3, <2>4 DEF ReviewOK
  <2> QED
    BY <1>0, <1>1, <2>1, <2>2, <2>3, <2>5, ReviewStep DEF Step
<1>5. ASSUME NEW t \in Threads, SettleReview(t) PROVE ReviewInv'
  <2>1. /\ Finalise(t) /\ Forget(t) /\ submitted' = submitted /\ pc[t] = "finalise"
        /\ review' = IF runs' # runs THEN [review EXCEPT ![run[t]] = reply[t]] ELSE review
    BY <1>5 DEF SettleReview, Finalise
  <2>2. PICK q \in Requests, a \in Attempts : run[t] = <<q, a>>
    BY <1>0, <2>1 DEF ThreadOK, Runs
  <2>3. /\ runs[<<q, a>>].status = "RESERVED" /\ answer[t].status \in Settled
        /\ answer[t].status = "COMPLETED" => Agrees(reply[t], q)
        /\ <<q, a>> \in Runs /\ run[t] = <<q, a>>
    BY <1>0, <2>1, <2>2 DEF ThreadOK, ReviewOK
  <2>4. DOMAIN reply' = Threads /\ \A u \in Threads \ {t} : reply'[u] = reply[u]
    BY <1>0, <2>1 DEF Forget
  <2>5. DOMAIN review' = Runs
    BY <1>0, <2>1
  <2>6. CASE Return(t) /\ UNCHANGED runs
    <3>1. pc'[t] = "idle" /\ review' = review
      BY <1>0, <2>1, <2>6 DEF Return, Goto
    <3>2. SameDone
      BY <1>0, <2>6, NoneCompleted
    <3>3. ReviewOK(t)'
      BY <3>1 DEF ReviewOK
    <3> QED
      BY <1>0, <1>1, <2>1, <2>4, <3>1, <3>2, <3>3, ReviewStep DEF Step
  <2>7. CASE runs' = [runs EXCEPT ![<<q, a>>] = answer[t]] /\ AfterSettling(t)
    <3>1. runs'[<<q, a>>] = answer[t] /\ runs' # runs
      BY <1>0, <2>3, <2>7 DEF Settled
    <3>2. review' = [review EXCEPT ![<<q, a>>] = reply[t]]
      BY <2>1, <2>2, <3>1
    <3>3. \A r \in Runs : runs'[r].status = "COMPLETED" => Agrees(review'[r], r[1])
      <4> TAKE r \in Runs
      <4>1. CASE r = <<q, a>>
        BY <1>0, <2>3, <3>1, <3>2, <4>1
      <4>2. CASE r # <<q, a>>
        BY <1>0, <2>7, <3>2, <4>2
      <4> QED
        BY <4>1, <4>2
    <3>4. CASE answer[t].status = "COMPLETED"
      <4>1. pc'[t] = "advance" /\ run'[t][1] = q
        BY <1>0, <2>2, <2>7, <3>4 DEF AfterSettling, Goto, Unstarted
      <4>2. a \in Done(q)'
        BY <3>1, <3>4 DEF Done
      <4>3. Done(run[t][1])' = Done(q)'
        BY <4>1 DEF Done
      <4>4. reply' = reply
        BY <2>1, <4>1 DEF Forget
      <4>5. Agrees(reply[t], run[t][1])'
        BY <2>3, <3>4, <4>1, <4>4 DEF Agrees
      <4>6. ReviewOK(t)'
        BY <4>1, <4>2, <4>3, <4>5 DEF ReviewOK
      <4> QED
        BY <1>0, <2>1, <2>4, <2>5, <3>3, <4>6, ReviewStep DEF Step
    <3>5. CASE answer[t].status # "COMPLETED"
      <4>1. pc'[t] = "idle"
        BY <1>0, <2>7, <3>5 DEF AfterSettling, Return, Goto
      <4>2. ReviewOK(t)'
        BY <4>1 DEF ReviewOK
      <4> QED
        BY <1>0, <2>1, <2>4, <2>5, <3>3, <4>2, ReviewStep DEF Step
    <3> QED
      BY <3>4, <3>5
  <2> QED
    BY <2>1, <2>2, <2>6, <2>7 DEF Finalise
<1>6. ASSUME NEW t \in Threads, AdvanceIfRequested(t) PROVE ReviewInv'
  <2>1. /\ Advance(t) /\ Forget(t) /\ UNCHANGED <<review, runs>> /\ pc[t] = "advance"
    BY <1>6 DEF AdvanceIfRequested, Advance
  <2>2. PICK q \in Requests : q = run[t][1]
    BY <1>0, <2>1 DEF ThreadOK
  <2>3. Agrees(reply[t], q) /\ Done(q) # {}
    BY <1>0, <2>1, <2>2 DEF ReviewOK
  <2>4. \A p \in submitted' \ submitted :
          p = q /\ ExpectedNext(Disposition[q]) = "SUBMIT_DECISION"
    BY <1>6, <2>2, <2>3 DEF AdvanceIfRequested, Agrees
  <2>5. SameDone
    BY <1>0, <2>1, NoneCompleted
  <2>6. pc'[t] \in {"state", "idle"}
    BY <1>0, <2>1 DEF Advance, Return, Goto
  <2>7. ReviewOK(t)'
    BY <2>6 DEF ReviewOK
  <2>8. DOMAIN reply' = Threads /\ \A u \in Threads \ {t} : reply'[u] = reply[u]
    BY <1>0, <2>1 DEF Forget
  <2> QED
    BY <1>0, <1>1, <2>1, <2>3, <2>4, <2>5, <2>7, <2>8, ReviewStep DEF Step
<1>7. ASSUME NEW t \in Threads, OtherStep(t) PROVE ReviewInv'
  <2>1. /\ Reserve(t) \/ GetRun(t) \/ State(t) \/ Inspect(t)
        /\ Forget(t) /\ UNCHANGED <<review, submitted>>
    BY <1>7 DEF OtherStep
  <2>2. SameDone
    <3>1. UNCHANGED runs \/ runs' = ReclaimedRuns \/ Reserve(t)
      BY <2>1 DEF GetRun, State, Inspect
    <3> QED
      BY <1>0, <3>1, NoneCompleted
  <2>3. DOMAIN reply' = Threads /\ \A u \in Threads \ {t} : reply'[u] = reply[u]
    BY <1>0, <2>1 DEF Forget
  <2>4. CASE pc'[t] \in {"idle", "parse_review", "state"}
    <3>1. ReviewOK(t)'
      BY <2>4 DEF ReviewOK
    <3> QED
      BY <1>0, <1>1, <2>1, <2>2, <2>3, <3>1, ReviewStep DEF Step
  <2>5. CASE GetRun(t)
    <3>1. pc[t] = "get_run" /\ runs[run[t]].status = "RESERVED"
      BY <1>0, <2>5 DEF GetRun, ThreadOK
    <3>2. pc'[t] = "finalise" /\ UNCHANGED <<run, answer>>
      BY <1>0, <2>5, <3>1 DEF GetRun, Goto
    <3>3. reply' = reply
      BY <2>1, <3>2 DEF Forget
    <3>4. ReviewOK(t)'
      BY <1>0, <3>1, <3>2, <3>3 DEF ReviewOK, Agrees
    <3> QED
      BY <1>0, <1>1, <2>1, <2>2, <2>3, <2>5, <3>4, ReviewStep DEF Step
  <2> QED
    BY <1>0, <2>1, <2>4, <2>5 DEF Reserve, State, Inspect, Return, Goto
<1>8. ASSUME UNCHANGED <<runs, pc, run, answer, reply, review, submitted>> PROVE ReviewInv'
  <2>1. \A q \in Requests : Done(q)' = Done(q)
    BY <1>8 DEF Done
  <2>2. ASSUME NEW t \in Threads PROVE ReviewOK(t)'
    <3>1. ReviewOK(t) /\ Done(run[t][1])' = Done(run[t][1])
      BY <1>0, <1>8 DEF Done
    <3>2. Agrees(reply[t], run[t][1])' <=> Agrees(reply[t], run[t][1])
      BY <1>8 DEF Agrees
    <3> QED
      BY <1>8, <3>1, <3>2 DEF ReviewOK
  <2>3. \A r \in Runs : runs'[r].status = "COMPLETED" => Agrees(review[r], r[1])'
    BY <1>8 DEF ReviewInv, Agrees
  <2>4. DOMAIN reply' = Threads /\ DOMAIN review' = Runs
    BY <1>8 DEF ReviewInv
  <2> QED
    BY <1>8, <2>1, <2>2, <2>3, <2>4 DEF ReviewInv
<1>9. ASSUME NEW l \in Limits, AgentRestart(l) PROVE ReviewInv'
  <2>1. /\ Restart(l) /\ UNCHANGED <<review, submitted>> /\ DOMAIN reply' = Threads
        /\ runs' = ReclaimedRuns /\ \A t \in Threads : pc'[t] = "idle"
    BY <1>9 DEF AgentRestart, Restart
  <2>2. SameDone
    BY <1>0, <2>1, NoneCompleted
  <2>3. \A q \in submitted : q \in Requests => Done(q) \subseteq Done(q)'
    BY <1>0, DoneStay
  <2>4. \A t \in Threads : ReviewOK(t)'
    BY <2>1 DEF ReviewOK
  <2> QED
    BY <1>0, <1>1, <2>1, <2>2, <2>3, <2>4 DEF ReviewInv
<1>10. CASE UNCHANGED agentVars
  BY <1>8, <1>10 DEF agentVars, vars, agent
<1>11. ASSUME NEW r \in Runs, Expire(r), UNCHANGED agent PROVE ReviewInv'
  BY <1>8, <1>11 DEF Expire, agent
<1> QED
  BY <1>2, <1>3, <1>4, <1>5, <1>6, <1>7, <1>9, <1>10, <1>11 DEF AgentNext

(* The agent hands over nothing but decisions that ask for it, with a       *)
(* completed review in the run rows that agrees with the decision (run,     *)
(* _advance_if_requested, _validate).                                       *)
THEOREM AdvancedWithReviewHolds ==
  ASSUME ~ SlowCalls PROVE AgentSpec => []AdvancedWithReview
<1>1. AgentInit => ReviewInv
  BY DEF AgentInit, Init, ReviewInv, ReviewOK, NoRun
<1>2. RunInv /\ ReviewInv /\ [AgentNext]_agentVars => ReviewInv'
  BY ReviewNext
<1>3. ReviewInv => AdvancedWithReview
  <2> SUFFICES ASSUME ReviewInv, NEW q \in submitted
               PROVE  /\ Disposition[q] \in {"AUTO_EXECUTE", "REQUEST_APPROVAL"}
                      /\ \E a \in Attempts :
                           /\ runs[<<q, a>>].status = "COMPLETED"
                           /\ review[<<q, a>>].decision_id = q
                           /\ review[<<q, a>>].next_step = "SUBMIT_DECISION"
    BY DEF AdvancedWithReview
  <2>1. q \in Requests /\ ExpectedNext(Disposition[q]) = "SUBMIT_DECISION" /\ Done(q) # {}
    BY DEF ReviewInv
  <2>2. PICK a \in Attempts : runs[<<q, a>>].status = "COMPLETED"
    BY <2>1 DEF Done
  <2>3. <<q, a>> \in Runs
    BY <2>1 DEF Runs
  <2>4. Agrees(review[<<q, a>>], q)
    BY <2>2, <2>3 DEF ReviewInv
  <2>5. Disposition[q] \in {"AUTO_EXECUTE", "REQUEST_APPROVAL"}
    BY <2>1, ReviewAssumption DEF ExpectedNext, Dispositions
  <2> QED
    BY <2>1, <2>2, <2>4, <2>5 DEF Agrees
<1> QED
  BY <1>1, <1>2, <1>3, AgentRunInvariant, PTL DEF AgentSpec

----------------------------------------------------------------------------
(* Paying for a review                                                      *)

(* Threads that may still complete a run of the request.                    *)
Asking(q) == {t \in Threads : pc[t] \in {"reserve"} \cup Owning /\ run[t][1] = q}

(* Once there is a completed run, what may still come to be completed is    *)
(* what was on its way by then.                                             *)
PaidOK(q) ==
  \/ Done(q) = {}
  \/ Cardinality(Done(q)) + Cardinality(Asking(q)) <= Cardinality(Threads)

(* A thread that comes to ask has found no completed run.                   *)
LEMMA NoneJoins ==
  ASSUME RunInv, [Next]_vars, NEW q \in Requests, Done(q) # {}
  PROVE  Asking(q)' \subseteq Asking(q)
<1> USE DEF Owning, StepNames
<1>0. /\ DOMAIN pc = Threads /\ DOMAIN run = Threads
      /\ \A t \in Threads : ThreadOK(t)
  BY DEF RunInv, Typed
<1>1. ASSUME NEW t \in Threads,
             Inspect(t) \/ Step(t) \/ \E p \in Requests : Call(t, p),
             t \in Asking(q)' => t \in Asking(q)
      PROVE  Asking(q)' \subseteq Asking(q)
  BY <1>1, Others DEF Asking
<1>2. ASSUME NEW t \in Threads, Inspect(t) \/ \E p \in Requests : Call(t, p)
      PROVE  t \notin Asking(q)'
  BY <1>0, <1>2 DEF Inspect, Call, Goto, Asking
<1>3. ASSUME NEW t \in Threads, FindCompleted(t) PROVE t \notin Asking(q)'
  <2>1. CASE run[t][1] = q
    <3>1. Completed(q)
      BY DEF Completed, Done
    <3> QED
      BY <1>0, <1>3, <2>1, <3>1 DEF FindCompleted, Goto, Return, Asking
  <2>2. CASE run[t][1] # q /\ run' = run
    BY <2>2 DEF Asking
  <2>3. CASE Return(t)
    BY <1>0, <2>3 DEF Return, Goto, Asking
  <2> QED
    BY <1>3, <2>1, <2>2, <2>3 DEF FindCompleted
<1>4. ASSUME NEW t \in Threads, Return(t) PROVE t \notin Asking(q)'
  BY <1>0, <1>4 DEF Return, Goto, Asking
<1>5. ASSUME NEW t \in Threads, pc[t] \in {"reserve"} \cup Owning,
             run'[t][1] = run[t][1], t \in Asking(q)'
      PROVE  t \in Asking(q)
  BY <1>5 DEF Asking
<1>6. ASSUME NEW t \in Threads, Reserve(t) PROVE t \in Asking(q)' => t \in Asking(q)
  BY <1>0, <1>4, <1>5, <1>6 DEF Reserve
<1>7. ASSUME NEW t \in Threads, ParseReview(t) PROVE t \in Asking(q)' => t \in Asking(q)
  BY <1>5, <1>7 DEF ParseReview
<1>8. ASSUME NEW t \in Threads, AfterSettling(t) PROVE t \notin Asking(q)'
  BY <1>0, <1>4, <1>8 DEF AfterSettling, Goto, Asking
<1>9. ASSUME NEW t \in Threads, GetRun(t) PROVE t \in Asking(q)' => t \in Asking(q)
  BY <1>5, <1>8, <1>9 DEF GetRun
<1>10. ASSUME NEW t \in Threads, Finalise(t) PROVE t \notin Asking(q)'
  BY <1>4, <1>8, <1>10 DEF Finalise
<1>11. ASSUME NEW t \in Threads, Advance(t) PROVE t \notin Asking(q)'
  BY <1>0, <1>4, <1>11 DEF Advance, Goto, Asking
<1>12. ASSUME NEW t \in Threads, State(t) PROVE t \notin Asking(q)'
  BY <1>4, <1>12 DEF State
<1>13. CASE UNCHANGED <<pc, run>>
  BY <1>13 DEF Asking
<1>14. ASSUME NEW l \in Limits, Restart(l) PROVE Asking(q)' = {}
  BY <1>14 DEF Restart, Asking
<1> QED
  BY <1>1, <1>2, <1>3, <1>6, <1>7, <1>9, <1>10, <1>11, <1>12, <1>13, <1>14
     DEF Next, Step, Expire, vars

LEMMA DoneFinite ==
  \A q \in Requests : IsFiniteSet(Done(q)) /\ Cardinality(Done(q)) \in Nat
<1> TAKE q \in Requests
<1>1. IsFiniteSet(Attempts)
  BY UpTo DEF Attempts
<1>2. IsFiniteSet(Done(q))
  BY <1>1, FS_Subset DEF Done
<1> QED
  BY <1>2, FS_CardinalityType

LEMMA PaidNext ==
  ASSUME IsFiniteSet(Threads), RunInv, [Next]_vars, NEW q \in Requests, PaidOK(q)
  PROVE  PaidOK(q)'
<1>1. /\ IsFiniteSet(Asking(q)) /\ IsFiniteSet(Asking(q)')
      /\ Cardinality(Asking(q)) \in Nat /\ Cardinality(Asking(q)') \in Nat
      /\ Cardinality(Asking(q)) <= Cardinality(Threads)
      /\ Cardinality(Threads) \in Nat
  <2>1. Asking(q) \subseteq Threads /\ Asking(q)' \subseteq Threads
    BY DEF Asking
  <2> QED
    BY <2>1, FS_Subset, FS_CardinalityType
<1>2. IsFiniteSet(Done(q)) /\ Cardinality(Done(q)) \in Nat
  BY DoneFinite
<1>3. CASE Done(q)' = Done(q)
  <2>1. CASE Done(q) = {}
    BY <1>3, <2>1 DEF PaidOK
  <2>2. CASE Done(q) # {}
    <3>1. Cardinality(Asking(q)') <= Cardinality(Asking(q))
      BY <1>1, <2>2, NoneJoins, FS_Subset
    <3> QED
      BY <1>1, <1>2, <1>3, <2>2, <3>1 DEF PaidOK
  <2> QED
    BY <2>1, <2>2
<1>4. ASSUME NEW t \in Threads, Finalise(t) PROVE PaidOK(q)'
  <2>1. /\ pc[t] = "finalise"
        /\ UNCHANGED runs \/ runs' = [runs EXCEPT ![run[t]] = answer[t]]
    BY <1>4 DEF Finalise
  <2>2. /\ run[t] \in Runs /\ DOMAIN runs = Runs /\ DOMAIN pc = Threads
        /\ DOMAIN run = Threads
    BY <2>1 DEF RunInv, Typed, ThreadOK, Owning
  <2>3. CASE UNCHANGED runs
    BY <1>3, <2>3 DEF Done
  <2>4. CASE run[t][1] # q
    BY <1>3, <2>1, <2>2, <2>4 DEF Done, Runs
  <2>5. CASE run[t][1] = q /\ runs' = [runs EXCEPT ![run[t]] = answer[t]]
    <3>1. PICK a \in Attempts : run[t] = <<q, a>>
      BY <2>2, <2>5 DEF Runs
    <3>2. Done(q)' \subseteq Done(q) \cup {a}
      BY <2>2, <2>5, <3>1 DEF Done, Runs
    <3>3. /\ IsFiniteSet(Done(q) \cup {a})
          /\ Cardinality(Done(q) \cup {a}) \in Nat
          /\ Cardinality(Done(q) \cup {a}) <= Cardinality(Done(q)) + 1
      <4>1. /\ IsFiniteSet(Done(q) \cup {a})
            /\ \/ Cardinality(Done(q) \cup {a}) = Cardinality(Done(q))
               \/ Cardinality(Done(q) \cup {a}) = Cardinality(Done(q)) + 1
        BY <1>2, FS_AddElement
      <4> QED
        BY <1>2, <4>1
    <3>4. /\ Cardinality(Done(q)') \in Nat
          /\ Cardinality(Done(q)') <= Cardinality(Done(q)) + 1
      BY <1>2, <3>2, <3>3, FS_Subset, FS_CardinalityType
    <3>5. t \in Asking(q)
      BY <2>1, <2>5 DEF Asking, Owning
    <3>6. Asking(q)' \subseteq Asking(q) \ {t}
      <4>1. pc'[t] \in {"idle", "advance"}
        BY <1>4, <2>2 DEF Finalise, AfterSettling, Return, Goto
      <4>2. \A u \in Threads \ {t} : pc'[u] = pc[u] /\ run'[u] = run[u]
        BY <1>4, Others DEF Step
      <4> QED
        BY <4>1, <4>2 DEF Asking, Owning
    <3>7. /\ IsFiniteSet(Asking(q) \ {t})
          /\ Cardinality(Asking(q) \ {t}) = Cardinality(Asking(q)) - 1
      BY <1>1, <3>5, FS_RemoveElement
    <3>8. Cardinality(Asking(q)') <= Cardinality(Asking(q)) - 1
      BY <3>6, <3>7, FS_Subset
    <3>9. CASE Done(q) = {}
      <4>1. Cardinality(Done(q)) = 0
        BY <3>9, FS_EmptySet
      <4> QED
        BY <1>1, <3>4, <3>8, <4>1 DEF PaidOK
    <3>10. CASE Done(q) # {}
      <4>1. Cardinality(Done(q)) + Cardinality(Asking(q)) <= Cardinality(Threads)
        BY <3>10 DEF PaidOK
      <4> QED
        BY <1>1, <1>2, <3>4, <3>8, <4>1 DEF PaidOK
    <3> QED
      BY <3>9, <3>10
  <2> QED
    BY <2>1, <2>3, <2>4, <2>5
<1>5. CASE UNCHANGED runs \/ runs' = ReclaimedRuns \/ \E t \in Threads : Reserve(t)
  <2>1. SameDone
    BY <1>5, NoneCompleted
  <2>2. Done(q)' = Done(q)
    BY <2>1 DEF SameDone, Done, Runs
  <2> QED
    BY <1>3, <2>2
<1> QED
  BY <1>4, <1>5 DEF Next, Step, vars, Call, Inspect, FindCompleted, ParseReview, GetRun,
                    Advance, Expire, State, Restart

(* A request is paid for no more often than there are threads: those that   *)
(* looked for a review before the first was there pay each for their own,   *)
(* and after that nobody starts (find_completed before reserve).            *)
THEOREM PaidOncePerThreadHolds ==
  ASSUME ~ SlowCalls, IsFiniteSet(Threads)
  PROVE  AgentSpec => []PaidOncePerThread
<1> DEFINE PaidInv == \A q \in Requests : PaidOK(q)
<1>1. AgentInit => PaidInv
  BY DEF AgentInit, Init, PaidOK, Done, NoRun, Runs
<1>2. RunInv /\ PaidInv /\ [AgentNext]_agentVars => PaidInv'
  <2> SUFFICES ASSUME RunInv, PaidInv, [AgentNext]_agentVars, NEW q \in Requests
               PROVE  PaidOK(q)'
    OBVIOUS
  <2> QED
    BY AgentMoves, PaidNext
<1>3. PaidInv => PaidOncePerThread
  <2> SUFFICES ASSUME PaidInv, NEW q \in Requests
               PROVE  Cardinality(Done(q)) <= Cardinality(Threads)
    BY DEF PaidOncePerThread, Done
  <2>1. Asking(q) \subseteq Threads
    BY DEF Asking
  <2>2. /\ Cardinality(Threads) \in Nat /\ IsFiniteSet(Asking(q))
        /\ Cardinality(Asking(q)) \in Nat
    BY <2>1, FS_Subset, FS_CardinalityType
  <2>3. IsFiniteSet(Done(q)) /\ Cardinality(Done(q)) \in Nat
    BY DoneFinite
  <2>4. Done(q) = {} => Cardinality(Done(q)) = 0
    BY FS_EmptySet
  <2> QED
    BY <2>2, <2>3, <2>4 DEF PaidOK
<1> QED
  BY <1>1, <1>2, <1>3, AgentRunInvariant, PTL DEF AgentSpec
=============================================================================
