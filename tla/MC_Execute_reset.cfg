CONSTANTS
  n1 = n1
  n2 = n2
  n3 = n3
  c1 = c1
  c2 = c2
  NULL = NULL
  Nodes <- TwoNodes
  Ctxs <- MCCtxs
  RequestCount = 2
  MaxAttempts = 2
  Failable <- MCFailable
  PreHandle <- NoPreHandle
  Bodies <- ErrorBodies
  AutoUpdate = TRUE
  CacheSet = TRUE
  ClientSetups <- OkSetups
  MethodChoices <- WithMethod
SYMMETRY TwoNodeSymmetry
SPECIFICATION Spec
PROPERTY BlacklistClearedOnlyByVerifiedAnswer
