\* Either program, any state of the device, samples at any moment, a transfer
\* that is not acknowledged.
SPECIFICATION Spec
CONSTANTS
  FifoDepth = 1
  Parts = 2
  MaxSamples = 5
  MaxNacks = 1
INVARIANTS
  TypeOK
  AnswersAsked
  OneTransfer
PROPERTIES
  WholeSample
  FreshSample
  ReadReturns
CHECK_DEADLOCK FALSE
