SPECIFICATION Spec
CONSTANTS
  d1 = d1
  d2 = d2
  reroute = reroute
  t1 = t1
  t2 = t2
  t3 = t3
  NoCaller = NoCaller
  Decisions <- MCDecisions
  Actions <- MCActions
  ActionOf <- MCActionOf
  Callers <- MCCallers
  PromotionThreshold = 1
  MaxSwitchVersion = 9
  MaxProfileVersion = 9
  MaxCalls = 4
INVARIANTS
  TypeOK
PROPERTIES
  AtomicControls
  CallsReturn
CHECK_DEADLOCK FALSE
