CONSTANTS
  root = root
  s1 = s1
  s2 = s2
  s3 = s3
  s4 = s4
  mA = mA
  mB = mB
  mC = mC
  NULLV = NULLV
  Root <- root
  RootMethod = "eth_call"
  Subs <- MCSubs
  SubMethods <- MCSubMethods
  RootNeeds <- MCRootNeeds
  SignMethods <- MCSignMethods
  SignerBoot = {TRUE, FALSE}
  TransportBoot = {TRUE, FALSE}
  MaxAttempts = 3
  ChainBoot <- MCChainBoot
  In3s <- MCIn3s
  AutoUpdate = TRUE
  ReplaceLatest = 6
  AvgBlockTime = 700
  NULL <- NULLV
SPECIFICATION Spec
INVARIANTS TypeOK DescriptorSound  ExecuteCallsBounded
PROPERTIES Termination SucceedsWhenAnswersValid RequestLifecycleRefined
CHECK_DEADLOCK FALSE
