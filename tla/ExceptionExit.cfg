CONSTANTS
  Addrs <- MCAddrs
  Hooks <- MCHooks
  Vectors <- MCVectors
  KnownVectors <- MCKnownVectors
  MaxExits = 3

SPECIFICATION Spec
INVARIANT ResumeAtFaultOrHook
CHECK_DEADLOCK FALSE
