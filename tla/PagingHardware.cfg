CONSTANTS
  N <- MCN
  EntryStride <- MCEntryStride
  Base <- MCBase
SPECIFICATION Spec
INVARIANT HardwareWalkIdentity
CHECK_DEADLOCK FALSE
