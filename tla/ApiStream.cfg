\* Every client and provider, replies of up to two blocks, every way to cut the stream into chunks.
SPECIFICATION Spec
CONSTANTS
  Clients <- EveryClient
  Messages <- UpToTwoBlocks
  Fragments = 2
  MaxRetries = 3
INVARIANTS
  Inv
  FramesAreExact
  OutcomeIsJust
CHECK_DEADLOCK FALSE
