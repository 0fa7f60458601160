CONSTANTS
  Addrs <- MCAddrs
  Hooks <- MCHooks
  Vectors <- MCVectors
  KnownVectors <- MCKnownVectors
  MaxExits = 3

SPECIFICATION Spec
INVARIANT PageFaultCr2Current
CHECK_DEADLOCK FALSE
