SPECIFICATION AgentSpec
CONSTANTS
  t1 = t1
  t2 = t2
  cheap = cheap
  dear = dear
  excessive = excessive
  Threads <- MCThreads
  Requests <- MCRequests
  Estimate <- MCEstimate
  PerRunLimit = 2
  Limits <- MCLimits
  SlowCalls = TRUE
  NoRequest = NoRequest
  Disposition <- MCDisposition
  Reviews <- MCReviews
  InputPrice = 500
  CachedPrice = 100
  OutputPrice = 250
  MaxOutputTokens = 1
  MaxCalls = 2
  MaxRestarts = 0
SYMMETRY ThreadSymmetry
INVARIANT
  WithinLimit
