SPECIFICATION Spec

CONSTANTS
  Request = {r1}
  MaxUserRetries = 1
  BufferSize = 2
  MaxFaults = 1

\* The system may stop: the task has ended and all has been said.
CHECK_DEADLOCK FALSE

INVARIANTS
  AnnInv
  OneThread
  RetryOfferedAfterCleanup
  LastWord
