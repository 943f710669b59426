SPECIFICATION Spec
CONSTANTS
  t1 = t1
  t2 = t2
  d1 = d1
  d2 = d2
  d3 = d3
  o1 = o1
  o2 = o2
  here = here
  there = there
  standard = standard
  express = express
  alice = alice
  bob = bob
  NoRequester = NoRequester
  Requesters <- MCRequesters
  RequestedBy <- SameRequester
  NotSeeded = NotSeeded
  NoDecision = NoDecision
  Threads <- MCThreads
  Decisions <- MCDecisions
  Orders <- MCOrders
  Locations <- MCLocations
  Services <- MCServices
  Context <- MCContext
  PromotionThreshold = 20
  MaxProfileVersion = 1
  MaxSwitchVersion = 1
  MaxFaults = 0
INVARIANT
  SagaExclusive
