SPECIFICATION Spec
CONSTANTS
  t1 = t1
  t2 = t2
  d1 = d1
  analyst = analyst
  manager = manager
  unknown = unknown
  Nobody = Nobody
  Threads <- MCThreads
  Decisions <- MCDecisions
  Actors <- MCActors
  MayClaim <- MCMayClaim
  Ttl = 1
  MaxTime = 3
SYMMETRY ThreadSymmetry
INVARIANTS
  TypeOK
  ReportedIsStored
  DecidedInTime
PROPERTY
  ImplementsLifecycle
