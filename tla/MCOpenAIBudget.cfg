SPECIFICATION AgentSpec
CONSTANTS
  t1 = t1
  t2 = t2
  cheap = cheap
  dear = dear
  excessive = excessive
  Threads <- MCThreads
  Requests <- MCRequests
  Estimate <- MCEstimate
  PerRunLimit = 2
  Limits <- MCLimits
  SlowCalls = FALSE
  NoRequest = NoRequest
  Disposition <- MCDisposition
  Reviews <- MCReviews
  InputPrice = 500
  CachedPrice = 100
  OutputPrice = 250
  MaxOutputTokens = 1
  MaxCalls = 3
  MaxRestarts = 1
SYMMETRY ThreadSymmetry
INVARIANTS
  AgentTypeOK
  WithinLimit
  TotalsMatchRuns
  NoHiddenSpend
  AdvancedWithReview
  PaidOncePerThread
PROPERTIES
  SettledOnce
  ImplementsLedger
  CallsWithinBudget
