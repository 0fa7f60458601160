CONSTANTS
  N <- MCN
  EntryStride <- MCEntryStride
  Base <- MCBase
SPECIFICATION Spec
INVARIANT CodeViewIdentity
PROPERTY IdentitySpec
CHECK_DEADLOCK FALSE
