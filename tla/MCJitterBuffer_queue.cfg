\* A stream whose sequence numbers wrap, in a buffer that overflows.
SPECIFICATION Spec
CONSTANTS
  Indices <- MCIndices
  BufferSize = 3
  MinDelay = 2
  MaxDelay = 3
  MaxArrivals = 5
  MaxClock = 6
INVARIANT TypeOK
PROPERTIES OnlyLateOutOfOrder ImplementsQueue
CHECK_DEADLOCK FALSE
