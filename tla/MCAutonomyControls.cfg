SPECIFICATION Spec
CONSTANTS
  d1 = d1
  d2 = d2
  d3 = d3
  reroute = reroute
  split = split
  Decisions <- MCDecisions
  Actions <- MCActions
  ActionOf <- MCActionOf
  PromotionThreshold = 2
  MaxSwitchVersion = 2
  MaxProfileVersion = 4
INVARIANTS
  TypeOK
  BoundedNeedsStreak
  CountersMatchEvidence
PROPERTY
  ControlVersionFingerprint
CHECK_DEADLOCK FALSE
