CONSTANTS
  n1 = n1
  n2 = n2
  n3 = n3
  c1 = c1
  c2 = c2
  NULL = NULL
  Nodes <- MCNodes
  Ctxs <- OneCtx
  RequestCount = 2
  MaxAttempts = 3
  Failable <- NodeListCtx
  PreHandle <- NoPreHandle1
  Bodies <- MCBodies
  AutoUpdate = TRUE
  CacheSet = TRUE
  ClientSetups <- OkSetups
  MethodChoices <- WithMethod
SPECIFICATION Spec
INVARIANT GiveUpReturnsIgnoreOrLimit
