CONSTANTS
  CrBits <- MCCrBits
  KnownCr0 <- MCCrBits
  KnownCr4 <- MCCrBits
  Cr0Fixed0 <- MCCr0Fixed0
  Cr0Fixed1 <- MCCrBits
  Cr4Fixed0 <- MCCr4Fixed0
  Cr4Fixed1 <- MCCrBits
  InitCr0s <- MCInitCr0s
  InitCr4s <- MCInitCr4s
  FeatureControls <- MCFeatureControls
  CtlBits <- MCCtlBits
  Caps <- MCCaps
  GdtLimits <- MCGdtLimits
  HostCsSelectors <- MCHostCsSelectors
  PaMayFail = TRUE

SPECIFICATION Spec
INVARIANT RunNeverPanics
INVARIANT VmxPreconditions
INVARIANT ControlsRespectCapabilities
CHECK_DEADLOCK FALSE
