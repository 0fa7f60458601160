CONSTANTS
  Reasons <- MCReasons
  BasicReasons <- MCBasicReasons
  InstrErrors <- MCInstrErrors
  KnownInstrErrors <- MCKnownInstrErrors
  InstrLens = {2, 3}
  RipMod = 8
  MaxExits = 3

SPECIFICATION FairSpec
INVARIANT ResumeAfterEmulatedInstruction
PROPERTY ExitAnswered
PROPERTY VmxoffOnlyOnError
CHECK_DEADLOCK FALSE
