SPECIFICATION Spec
INVARIANTS DeadlineInv WithinLimit SilenceNoticed NoEarlySurrender FullTimeUnwrapped
CONSTANTS
  AskedSeconds <- MCAskedSeconds
  Second = 2
  Half = 64
  DefaultTimeout = 8
  MaxTimeout = 14
  RequestTimeout = 6
  CancelTimeout = 2
  SpentBound = 20
CHECK_DEADLOCK FALSE
