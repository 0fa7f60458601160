CONSTANTS
  Reasons <- MCReasons
  BasicReasons <- MCBasicReasons
  InstrErrors <- MCInstrErrors
  KnownInstrErrors <- MCKnownInstrErrors
  InstrLens = {2, 3}
  RipMod = 8
  MaxExits = 3

SPECIFICATION Spec
INVARIANT DispatchFollowsSpec
CHECK_DEADLOCK FALSE
