CONSTANTS
  GdtLen = 4
  Slots <- MCSlots
  Segs <- MCSegs
  MsrBase <- MCMsrBase

SPECIFICATION Spec
INVARIANT SegmentFieldsMatchSdm
CHECK_DEADLOCK FALSE
