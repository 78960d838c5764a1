CONSTANTS
  NULLV = NULLV
  NULL <- NULLV
  Chains <- MCChains
  Boot <- MCBoot
  OldEntries <- MCOldEntries
SPECIFICATION Spec
INVARIANT TypeOK
PROPERTY NodelistRoundTrip
