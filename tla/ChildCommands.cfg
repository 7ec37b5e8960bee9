\* Every way to run a command, pipes of two bytes, chunks of one, a payload larger than a pipe.
SPECIFICATION Spec
CONSTANTS
  PipeSize = 2
  BufferSize = 1
  Payload = 3
  MaxBytes = 3
CHECK_DEADLOCK FALSE
INVARIANTS
  Inv
  OutputIsWhole
PROPERTIES
  CommandReturns
