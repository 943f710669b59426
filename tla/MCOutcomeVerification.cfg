SPECIFICATION VerificationSpec
CONSTANTS
  t1 = t1
  v1 = v1
  v2 = v2
  d1 = d1
  d2 = d2
  d3 = d3
  o1 = o1
  here = here
  there = there
  standard = standard
  express = express
  alice = alice
  NoRequester = NoRequester
  NotSeeded = NotSeeded
  NoDecision = NoDecision
  NoObservation = NoObservation
  Requesters <- MCRequesters
  RequestedBy <- MCRequestedBy
  Threads <- MCThreads
  Verifiers <- MCVerifiers
  Decisions <- MCDecisions
  Orders <- MCOrders
  Locations <- MCLocations
  Services <- MCServices
  Context <- MCContext
  PromotionThreshold = 20
  MaxProfileVersion = 1
  MaxSwitchVersion = 1
  Deliveries = {TRUE, FALSE}
  MaxActions = 1
  MaxFaults = 1
SYMMETRY VerifierSymmetry
INVARIANTS
  OutcomeEvidence
  SucceededNotFailed
  VerifiedSucceeded
  EarnedByOutcomes
