CONSTANTS
  GdtLen = 4
  Slots <- MCSlots
  Segs <- MCSegs
  MsrBase <- MCMsrBase

SPECIFICATION Spec
INVARIANT TypeOK
INVARIANT AccessRightsMatchSdm
CHECK_DEADLOCK FALSE
