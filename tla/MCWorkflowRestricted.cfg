SPECIFICATION Spec
CONSTANTS
  t1 = t1
  t2 = t2
  oms = oms
  marketplace = marketplace
  first = first
  restricted = restricted
  conflicting = conflicting
  analyst = analyst
  manager = manager
  Nobody = Nobody
  Threads <- MCThreads
  Sources = {oms, marketplace}
  Events = {"e1"}
  Requests = {first, restricted, conflicting}
  Payload <- MCPayload
  Actors = {analyst, manager}
  MayClaim <- MCMayClaim
  MaxSwitchVersion = 2
  MaxProfileVersion = 2
  MaxDecisions = 2
SYMMETRY SymmetricThreads
CHECK_DEADLOCK FALSE
INVARIANT
  RestrictedNeedsManager
